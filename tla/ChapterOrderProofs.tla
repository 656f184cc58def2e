------------------------- MODULE ChapterOrderProofs -------------------------
(***************************************************************************)
(* Proofs about the chapters of a document, for any number of chapters,    *)
(* clients, calls and failures of git and any documents and scripts.       *)
(*                                                                         *)
(* What a commit saves and what a renumber picks are folds over sequences. *)
(* SavedIsChain and PickedIsChain unfold them once, into a chain with one  *)
(* link per element, so that what they keep or pick is an induction over   *)
(* the links (SavedSound, PickedProperties).                               *)
(*                                                                         *)
(* IndInv holds of any interleaving: the types, the indexes apart, and     *)
(* what each call has at hand where it is (Asked, Local).  From it         *)
(* DistinctIndexes.                                                        *)
(*                                                                         *)
(* PassInv is about a renumber whose files nobody else moves: which of     *)
(* them are hidden, back or renewed at each step of the two passes and of  *)
(* the rollback, and that an old title is only taken by a file that is at  *)
(* its new one.  From it RollbackRestores.                                 *)
(*                                                                         *)
(* Serial is about one call at a time: Stage says where every file is at   *)
(* each step of the call, Between for the two passes of a renumber.        *)
(*                                                                         *)
(* PlaceInv is about where a create or a move puts its chapter: whatever   *)
(* the interleaving, a call's index or order is the one it made of what it *)
(* read, and the categories are the ones of the start.  When the list has  *)
(* not changed since (TheList is determined by the indexes, SteadyIs and   *)
(* RankedIsTheList), the list after the write is the one asked for         *)
(* (CreatedPlaced, MovedPlaced, BlocksKept).                               *)
(*                                                                         *)
(* The XxxKeeps lemmas are about IndInv, the XxxSerial ones about Serial,  *)
(* the XxxPass ones about PassInv, the XxxPlace ones about PlaceInv.       *)
(***************************************************************************)
EXTENDS ChapterOrder, FiniteSetTheorems, SequenceTheorems, WellFoundedInduction, TLAPS

\* Induction over the natural numbers, for a set.
LEMMA SetInduction ==
    ASSUME NEW S, 0 \in S, \A n \in Nat : n \in S => n + 1 \in S
    PROVE  Nat \subseteq S
<1>1. SUFFICES ASSUME Nat \ S # {}
               PROVE  FALSE
    OBVIOUS
<1> DEFINE T == Nat \ S
<1>2. IsWellFoundedOn(OpToRel(<, Nat), Nat)
    BY NatLessThanWellFounded
<1>3. PICK x \in T : \A y \in T : ~(<<y, x>> \in OpToRel(<, Nat))
    BY <1>1, <1>2, WFMin
<1>4. x \in T
    OBVIOUS
<1>5. x # 0 /\ x - 1 \in Nat
    <2> HIDE <1>3
    <2> QED BY <1>4
<1>6. <<x - 1, x>> \in OpToRel(<, Nat)
    BY <1>4, <1>5 DEF OpToRel
<1>7. x - 1 \notin T
    BY <1>3, <1>6
<1>8. x \in S
    <2> HIDE <1>3
    <2> QED BY <1>5, <1>7
<1> QED BY <1>4, <1>8

-----------------------------------------------------------------------------
(* The folds.  FoldLeft takes the last element of the domain off first, so *)
(* what it computes is the last link of a chain from the left.             *)
-----------------------------------------------------------------------------
\* The greatest of a set of indexes that holds the last one.
LEMMA MaxOfTop ==
    ASSUME NEW m \in Nat, NEW x \in SUBSET (1 .. m + 1), m + 1 \in x
    PROVE  Max(x) = m + 1
<1>1. \A y \in x : y \in Int /\ m + 1 >= y
    OBVIOUS
<1>2. \A z \in x : (\A y \in x : z >= y) => z = m + 1
    BY <1>1
<1>3. \E z \in x : \A y \in x : z >= y
    BY <1>1
<1>4. Max(x) \in x /\ \A y \in x : Max(x) >= y
    BY <1>3 DEF Max
<1> QED BY <1>2, <1>4

SavedStep(result, s, kind, g, x) ==
    IF x = {} THEN result
    ELSE IF s[Max(x)].kind = kind THEN Save(g[x \ {Max(x)}], s[Max(x)]) ELSE g[x \ {Max(x)}]

PickedStep(s, T, g, x) ==
    IF x = {} THEN << >>
    ELSE IF s[Max(x)] \in T THEN Append(g[x \ {Max(x)}], s[Max(x)]) ELSE g[x \ {Max(x)}]

\* The saves of one list: a chain of results, one per model of the list.
LEMMA SavedIsChain ==
    ASSUME NEW result, NEW W, NEW s \in Seq(W), NEW kind
    PROVE  \E r : /\ r[0] = result /\ r[Len(s)] = Saved(result, s, kind)
                  /\ \A i \in 1 .. Len(s) :
                       r[i] = IF s[i].kind = kind THEN Save(r[i - 1], s[i]) ELSE r[i - 1]
<1> DEFINE Link(g, x) == SavedStep(result, s, kind, g, x)
           Iter(g, m) == g = [x \in SUBSET (1 .. m) |-> Link(g, x)]
           S == {m \in Nat : \E g : Iter(g, m)}
<1>1. 0 \in S
    <2> DEFINE g == [x \in SUBSET (1 .. 0) |-> result]
    <2>1. \A x \in SUBSET (1 .. 0) : x = {}
        OBVIOUS
    <2>2. Iter(g, 0)
        BY <2>1 DEF SavedStep
    <2> QED BY <2>2
<1>2. ASSUME NEW m \in Nat, m \in S
      PROVE  m + 1 \in S
    <2>1. PICK g : Iter(g, m)
        BY <1>2
    <2> DEFINE h == [x \in SUBSET (1 .. m + 1) |-> IF m + 1 \in x THEN Link(g, x) ELSE g[x]]
    <2>2. ASSUME NEW x \in SUBSET (1 .. m + 1)
          PROVE  h[x] = Link(h, x)
        <3>1. CASE m + 1 \in x
            <4>1. Max(x) = m + 1
                BY <3>1, MaxOfTop
            <4>2. x \ {m + 1} \in SUBSET (1 .. m) /\ x # {} /\ m + 1 \notin x \ {m + 1}
                BY <3>1
            <4>3. h[x \ {m + 1}] = g[x \ {m + 1}]
                <5>1. x \ {m + 1} \in SUBSET (1 .. m + 1)
                    OBVIOUS
                <5> QED BY <4>2, <5>1
            <4>4. h[x] = Link(g, x)
                BY <3>1
            <4> HIDE DEF h
            <4> QED BY <4>1, <4>2, <4>3, <4>4 DEF SavedStep
        <3>2. CASE m + 1 \notin x
            <4>1. x \in SUBSET (1 .. m)
                BY <3>2
            <4>2. x \ {Max(x)} \in SUBSET (1 .. m + 1) /\ m + 1 \notin x \ {Max(x)}
                BY <3>2
            <4>3. h[x \ {Max(x)}] = g[x \ {Max(x)}]
                BY <4>2
            <4>4. h[x] = g[x] /\ g[x] = Link(g, x)
                <5>1. h[x] = g[x]
                    BY <3>2
                <5>2. g[x] = Link(g, x)
                    <6> HIDE DEF h, Link
                    <6> QED BY <2>1, <4>1
                <5> QED BY <5>1, <5>2
            <4> HIDE DEF h
            <4> QED BY <4>3, <4>4 DEF SavedStep
        <3> QED BY <3>1, <3>2
    <2>3. Iter(h, m + 1)
        <3>1. h = [x \in SUBSET (1 .. m + 1) |-> h[x]]
            OBVIOUS
        <3> HIDE DEF h, Link
        <3> QED BY <2>2, <3>1
    <2> HIDE DEF h, Iter
    <2> QED BY <2>3
<1>3. Len(s) \in Nat /\ DOMAIN s = 1 .. Len(s)
    BY LenProperties
<1>4. \E g : Iter(g, Len(s))
    <2> HIDE DEF Iter
    <2> QED BY <1>1, <1>2, <1>3, SetInduction
<1> DEFINE g0 == CHOOSE g : Iter(g, Len(s))
           r0 == [i \in 0 .. Len(s) |-> g0[1 .. i]]
<1>5. g0 = [x \in SUBSET (1 .. Len(s)) |-> Link(g0, x)]
    <2>1. Iter(g0, Len(s))
        <3> HIDE DEF Iter
        <3> QED BY <1>4
    <2> HIDE DEF g0
    <2> QED BY <2>1
<1>6. Saved(result, s, kind) = g0[1 .. Len(s)]
    BY <1>3 DEF Saved, FoldLeft, MapThenFoldSet, SavedStep
<1> HIDE DEF g0
<1>7. r0[0] = result /\ r0[Len(s)] = Saved(result, s, kind)
    <2>1. 1 .. 0 = {} /\ 1 .. 0 \in SUBSET (1 .. Len(s))
        OBVIOUS
    <2>2. g0[1 .. 0] = result
        BY <1>5, <2>1 DEF SavedStep
    <2> QED BY <1>3, <1>6, <2>2
<1>8. ASSUME NEW i \in 1 .. Len(s)
      PROVE  r0[i] = IF s[i].kind = kind THEN Save(r0[i - 1], s[i]) ELSE r0[i - 1]
    <2>1. i - 1 \in Nat /\ (i - 1) + 1 = i /\ i - 1 \in 0 .. Len(s) /\ i \in 0 .. Len(s)
        BY <1>3
    <2>2. 1 .. i \in SUBSET (1 .. (i - 1) + 1) /\ i \in 1 .. i
        BY <1>3
    <2>3. Max(1 .. i) = i
        BY <2>1, <2>2, MaxOfTop
    <2>4. (1 .. i) \ {i} = 1 .. i - 1 /\ 1 .. i # {} /\ 1 .. i \in SUBSET (1 .. Len(s))
        <3> HIDE DEF r0
        <3>1. i \in Int /\ 1 <= i /\ i <= Len(s) /\ Len(s) \in Int
            BY <1>3
        <3>2. (1 .. i) \ {i} = 1 .. i - 1
            BY <3>1
        <3>3. 1 .. i # {}
            BY <2>2
        <3>4. 1 .. i \in SUBSET (1 .. Len(s))
            BY <3>1
        <3> QED BY <3>2, <3>3, <3>4
    <2>5. g0[1 .. i] = Link(g0, 1 .. i)
        <3> HIDE DEF Link
        <3> QED BY <1>5, <2>4
    <2>6. r0[i] = g0[1 .. i] /\ r0[i - 1] = g0[1 .. i - 1]
        BY <2>1
    <2> HIDE DEF r0
    <2> QED BY <2>3, <2>4, <2>5, <2>6 DEF SavedStep
<1> HIDE DEF r0
<1> QED BY <1>7, <1>8
\* What is picked: a chain of sequences, one per element of the sequence.
LEMMA PickedIsChain ==
    ASSUME NEW W, NEW s \in Seq(W), NEW T
    PROVE  \E r : /\ r[0] = << >> /\ r[Len(s)] = Picked(s, T)
                  /\ \A i \in 1 .. Len(s) :
                       r[i] = IF s[i] \in T THEN Append(r[i - 1], s[i]) ELSE r[i - 1]
<1> DEFINE Link(g, x) == PickedStep(s, T, g, x)
           Iter(g, m) == g = [x \in SUBSET (1 .. m) |-> Link(g, x)]
           S == {m \in Nat : \E g : Iter(g, m)}
<1>1. 0 \in S
    <2> DEFINE g == [x \in SUBSET (1 .. 0) |-> << >>]
    <2>1. \A x \in SUBSET (1 .. 0) : x = {}
        OBVIOUS
    <2>2. Iter(g, 0)
        BY <2>1 DEF PickedStep
    <2> QED BY <2>2
<1>2. ASSUME NEW m \in Nat, m \in S
      PROVE  m + 1 \in S
    <2>1. PICK g : Iter(g, m)
        BY <1>2
    <2> DEFINE h == [x \in SUBSET (1 .. m + 1) |-> IF m + 1 \in x THEN Link(g, x) ELSE g[x]]
    <2>2. ASSUME NEW x \in SUBSET (1 .. m + 1)
          PROVE  h[x] = Link(h, x)
        <3>1. CASE m + 1 \in x
            <4>1. Max(x) = m + 1
                BY <3>1, MaxOfTop
            <4>2. x \ {m + 1} \in SUBSET (1 .. m) /\ x # {} /\ m + 1 \notin x \ {m + 1}
                BY <3>1
            <4>3. h[x \ {m + 1}] = g[x \ {m + 1}]
                <5>1. x \ {m + 1} \in SUBSET (1 .. m + 1)
                    OBVIOUS
                <5> QED BY <4>2, <5>1
            <4>4. h[x] = Link(g, x)
                BY <3>1
            <4> HIDE DEF h
            <4> QED BY <4>1, <4>2, <4>3, <4>4 DEF PickedStep
        <3>2. CASE m + 1 \notin x
            <4>1. x \in SUBSET (1 .. m)
                BY <3>2
            <4>2. x \ {Max(x)} \in SUBSET (1 .. m + 1) /\ m + 1 \notin x \ {Max(x)}
                BY <3>2
            <4>3. h[x \ {Max(x)}] = g[x \ {Max(x)}]
                BY <4>2
            <4>4. h[x] = g[x] /\ g[x] = Link(g, x)
                <5>1. h[x] = g[x]
                    BY <3>2
                <5>2. g[x] = Link(g, x)
                    <6> HIDE DEF h, Link
                    <6> QED BY <2>1, <4>1
                <5> QED BY <5>1, <5>2
            <4> HIDE DEF h
            <4> QED BY <4>3, <4>4 DEF PickedStep
        <3> QED BY <3>1, <3>2
    <2>3. Iter(h, m + 1)
        <3>1. h = [x \in SUBSET (1 .. m + 1) |-> h[x]]
            OBVIOUS
        <3> HIDE DEF h, Link
        <3> QED BY <2>2, <3>1
    <2> HIDE DEF h, Iter
    <2> QED BY <2>3
<1>3. Len(s) \in Nat /\ DOMAIN s = 1 .. Len(s)
    BY LenProperties
<1>4. \E g : Iter(g, Len(s))
    <2> HIDE DEF Iter
    <2> QED BY <1>1, <1>2, <1>3, SetInduction
<1> DEFINE g0 == CHOOSE g : Iter(g, Len(s))
           r0 == [i \in 0 .. Len(s) |-> g0[1 .. i]]
<1>5. g0 = [x \in SUBSET (1 .. Len(s)) |-> Link(g0, x)]
    <2>1. Iter(g0, Len(s))
        <3> HIDE DEF Iter
        <3> QED BY <1>4
    <2> HIDE DEF g0
    <2> QED BY <2>1
<1>6. Picked(s, T) = g0[1 .. Len(s)]
    BY <1>3 DEF Picked, FoldLeft, MapThenFoldSet, PickedStep
<1> HIDE DEF g0
<1>7. r0[0] = << >> /\ r0[Len(s)] = Picked(s, T)
    <2>1. 1 .. 0 = {} /\ 1 .. 0 \in SUBSET (1 .. Len(s))
        OBVIOUS
    <2>2. g0[1 .. 0] = << >>
        BY <1>5, <2>1 DEF PickedStep
    <2> QED BY <1>3, <1>6, <2>2
<1>8. ASSUME NEW i \in 1 .. Len(s)
      PROVE  r0[i] = IF s[i] \in T THEN Append(r0[i - 1], s[i]) ELSE r0[i - 1]
    <2>1. i - 1 \in Nat /\ (i - 1) + 1 = i /\ i - 1 \in 0 .. Len(s) /\ i \in 0 .. Len(s)
        BY <1>3
    <2>2. 1 .. i \in SUBSET (1 .. (i - 1) + 1) /\ i \in 1 .. i
        BY <1>3
    <2>3. Max(1 .. i) = i
        BY <2>1, <2>2, MaxOfTop
    <2>4. (1 .. i) \ {i} = 1 .. i - 1 /\ 1 .. i # {} /\ 1 .. i \in SUBSET (1 .. Len(s))
        <3> HIDE DEF r0
        <3>1. i \in Int /\ 1 <= i /\ i <= Len(s) /\ Len(s) \in Int
            BY <1>3
        <3>2. (1 .. i) \ {i} = 1 .. i - 1
            BY <3>1
        <3>3. 1 .. i # {}
            BY <2>2
        <3>4. 1 .. i \in SUBSET (1 .. Len(s))
            BY <3>1
        <3> QED BY <3>2, <3>3, <3>4
    <2>5. g0[1 .. i] = Link(g0, 1 .. i)
        <3> HIDE DEF Link
        <3> QED BY <1>5, <2>4
    <2>6. r0[i] = g0[1 .. i] /\ r0[i - 1] = g0[1 .. i - 1]
        BY <2>1
    <2> HIDE DEF r0
    <2> QED BY <2>3, <2>4, <2>5, <2>6 DEF PickedStep
<1> HIDE DEF r0
<1> QED BY <1>7, <1>8

NoRepeats(s) == \A i, j \in 1 .. Len(s) : s[i] = s[j] => i = j

\* Picked(s, T) holds the elements of s that are in T, each as often as s does.
LEMMA PickedProperties ==
    ASSUME NEW W, NEW s \in Seq(W), NEW T
    PROVE  /\ Picked(s, T) \in Seq(W)
           /\ Ids(Picked(s, T)) = Ids(s) \cap T
           /\ NoRepeats(s) => NoRepeats(Picked(s, T))
<1>1. Len(s) \in Nat /\ \A i \in 1 .. Len(s) : s[i] \in W
    BY LenProperties, ElementOfSeq
<1>2. PICK r : /\ r[0] = << >> /\ r[Len(s)] = Picked(s, T)
               /\ \A i \in 1 .. Len(s) :
                    r[i] = IF s[i] \in T THEN Append(r[i - 1], s[i]) ELSE r[i - 1]
    BY PickedIsChain
<1> DEFINE Upto(m) == {s[i] : i \in 1 .. m}
           P(m) == /\ r[m] \in Seq(W)
                   /\ Ids(r[m]) = Upto(m) \cap T
                   /\ NoRepeats(s) => NoRepeats(r[m])
           S == {m \in Nat : m <= Len(s) => P(m)}
<1>3. 0 \in S
    <2>1. << >> \in Seq(W) /\ Len(<< >>) = 0
        BY EmptySeq
    <2>2. Ids(<< >>) = {} /\ Upto(0) = {} /\ NoRepeats(<< >>)
        BY <2>1 DEF Ids, NoRepeats
    <2> QED BY <1>2, <2>1, <2>2
<1>4. ASSUME NEW m \in Nat, m \in S
      PROVE  m + 1 \in S
    <2> SUFFICES ASSUME m + 1 <= Len(s)
                 PROVE  P(m + 1)
        OBVIOUS
    <2> DEFINE x == s[m + 1]
               t == r[m]
    <2>1. P(m) /\ m + 1 \in 1 .. Len(s) /\ (m + 1) - 1 = m
        BY <1>1, <1>4
    <2>2. r[m + 1] = IF x \in T THEN Append(t, x) ELSE t
        BY <1>2, <2>1
    <2>3. Upto(m + 1) = Upto(m) \cup {x}
        <3>1. 1 .. m + 1 = (1 .. m) \cup {m + 1}
            OBVIOUS
        <3> QED BY <3>1
    <2>4. CASE x \notin T
        <3> HIDE DEF Upto, x
        <3> QED BY <2>1, <2>2, <2>3, <2>4
    <2>5. CASE x \in T
        <3>1. t \in Seq(W) /\ x \in W /\ Len(t) \in Nat
            BY <1>1, <2>1, LenProperties
        <3> HIDE DEF x, t, Upto
        <3>2. /\ Append(t, x) \in Seq(W) /\ Len(Append(t, x)) = Len(t) + 1
              /\ \A i \in 1 .. Len(t) : Append(t, x)[i] = t[i]
              /\ Append(t, x)[Len(t) + 1] = x
            BY <3>1, AppendProperties
        <3>3. 1 .. Len(t) + 1 = (1 .. Len(t)) \cup {Len(t) + 1}
            BY <3>1
        <3> DEFINE u == Append(t, x)
        <3> HIDE DEF u
        <3>4. Ids(u) = Ids(t) \cup {x}
            BY <3>2, <3>3 DEF Ids, u
        <3>5. ASSUME NoRepeats(s)
              PROVE  NoRepeats(u)
            <4>1. x \notin Ids(t)
                <5> SUFFICES ASSUME x \in Upto(m) PROVE FALSE
                    BY <2>1 DEF t
                <5>1. PICK i \in 1 .. m : s[i] = s[m + 1]
                    BY DEF Upto, x
                <5>2. i \in 1 .. Len(s) /\ i # m + 1
                    BY <2>1, <1>1
                <5> QED BY <3>5, <5>1, <5>2, <2>1 DEF NoRepeats
            <4>2. NoRepeats(t)
                BY <2>1, <3>5 DEF t
            <4>3. ASSUME NEW i \in 1 .. Len(u), NEW j \in 1 .. Len(u), u[i] = u[j]
                  PROVE  i = j
                <5>1. Len(u) = Len(t) + 1 /\ u[Len(t) + 1] = x /\ \A k \in 1 .. Len(t) : u[k] = t[k]
                    BY <3>2 DEF u
                <5>2. \A k \in 1 .. Len(t) : t[k] # x
                    BY <4>1 DEF Ids
                <5>3. \A k \in 1 .. Len(u) : k \in 1 .. Len(t) \/ k = Len(t) + 1
                    BY <3>3, <5>1
                <5> QED BY <4>2, <4>3, <5>1, <5>2, <5>3 DEF NoRepeats
            <4> QED BY <4>3 DEF NoRepeats
        <3>6. r[m + 1] = u
            BY <2>2, <2>5 DEF u
        <3> QED BY <2>1, <2>3, <2>5, <3>2, <3>4, <3>5, <3>6 DEF u, t
    <2> QED BY <2>4, <2>5
<1>5. P(Len(s))
    <2>1. Len(s) \in S
        <3> HIDE DEF S
        <3> QED BY <1>1, <1>3, <1>4, SetInduction
    <2> QED BY <1>1, <2>1
<1>6. Upto(Len(s)) = Ids(s)
    BY DEF Ids
<1> QED BY <1>2, <1>5, <1>6

-----------------------------------------------------------------------------
(* What a save does to titles and indexes. *)
-----------------------------------------------------------------------------
Graphs == [Chapters -> Chapter \cup {NoChapter}]

\* A model registered as new has a place in the order.
Models == {w \in Write : w.kind = "new" => w.ch.index \in Nat}

\* A chapter with another index is a chapter.
LEMMA IndexedChapter ==
    ASSUME NEW ch \in Chapter, NEW i \in Nat \cup {NoIndex}
    PROVE  /\ [ch EXCEPT !.index = i] \in Chapter
           /\ [ch EXCEPT !.index = i].index = i
           /\ [ch EXCEPT !.index = i].title = ch.title
BY DEF Chapter

\* Created and the later chapters one further on.
LEMMA CreatedKeeps ==
    ASSUME NEW g \in Graphs, NEW w \in Models, w.kind = "new"
    PROVE  Created(g, w) \in Graphs /\ (IndexesApart(g) => IndexesApart(Created(g, w)))
<1> DEFINE h == Created(g, w)
           i == w.ch.index
<1>1. w.id \in Chapters /\ w.ch \in Chapter /\ i \in Nat
    BY DEF Models, Write
<1>2. \A x \in Chapters : h[x] = IF x = w.id THEN w.ch
                                ELSE IF x \in Live(g) /\ g[x].index >= i
                                     THEN [g[x] EXCEPT !.index = g[x].index + 1] ELSE g[x]
    BY DEF Created
<1>3. \A x \in Live(g) : g[x] \in Chapter /\ g[x].index \in Nat \cup {NoIndex}
    BY DEF Graphs, Live, Chapter
<1>4. \A x \in Live(g) : g[x].index >= i => g[x].index \in Nat /\ g[x].index + 1 \in Nat
    BY <1>1, <1>3, NumberAssumption
<1>5. \A x \in Live(g) : g[x].index >= i =>
         /\ [g[x] EXCEPT !.index = g[x].index + 1] \in Chapter
         /\ [g[x] EXCEPT !.index = g[x].index + 1].index = g[x].index + 1
    BY <1>3, <1>4, IndexedChapter
<1>6. \A x \in Chapters : h[x] \in Chapter \cup {NoChapter}
    BY <1>1, <1>2, <1>5 DEF Graphs
<1>7. h \in Graphs
    <2>1. h = [x \in Chapters |-> h[x]]
        BY DEF Created
    <2> HIDE DEF h
    <2> QED BY <1>6, <2>1 DEF Graphs
<1>8. ASSUME IndexesApart(g)
      PROVE  IndexesApart(h)
    <2>1. \A x \in Live(h) \ {w.id} :
            /\ x \in Live(g) /\ g[x].index \in Nat \cup {NoIndex}
            /\ h[x].index = IF g[x].index >= i THEN g[x].index + 1 ELSE g[x].index
        <3> SUFFICES ASSUME NEW x \in Live(h) \ {w.id}
                     PROVE  /\ x \in Live(g) /\ g[x].index \in Nat \cup {NoIndex}
                            /\ h[x].index = IF g[x].index >= i THEN g[x].index + 1 ELSE g[x].index
            OBVIOUS
        <3>1. x \in Chapters /\ x # w.id /\ h[x] # NoChapter
            BY DEF Live
        <3>2. x \in Live(g)
            BY <1>2, <3>1 DEF Live
        <3> HIDE DEF h, i
        <3> QED BY <1>2, <1>3, <1>5, <3>1, <3>2
    <2>2. \A x \in Live(h) : x # w.id \/ h[x].index = i
        BY <1>1, <1>2 DEF Live
    <2>3. \A x, y \in Live(g) : x # y /\ g[x].index = g[y].index => g[x].index = NoIndex
        BY <1>8 DEF IndexesApart
    <2> HIDE DEF h, i
    <2>4. ASSUME NEW x \in Live(h), NEW y \in Live(h), x # y, h[x].index = h[y].index
          PROVE  h[x].index = NoIndex
        <3>1. CASE x # w.id /\ y # w.id
            BY <1>1, <2>1, <2>3, <2>4, <3>1, NumberAssumption
        <3>2. CASE x = w.id
            BY <1>1, <2>1, <2>2, <2>4, <3>2, NumberAssumption
        <3>3. CASE y = w.id
            BY <1>1, <2>1, <2>2, <2>4, <3>3, NumberAssumption
        <3> QED BY <3>1, <3>2, <3>3
    <2> QED BY <2>4 DEF IndexesApart
<1> QED BY <1>7, <1>8

\* A chapter saved again keeps its place, or has none.
LEMMA ChangedKeeps ==
    ASSUME NEW g \in Graphs, NEW w \in Write
    PROVE  Changed(g, w) \in Graphs /\ (IndexesApart(g) => IndexesApart(Changed(g, w)))
<1> DEFINE i == IF w.id \in Live(g) THEN g[w.id].index ELSE NoIndex
           ch == [w.ch EXCEPT !.index = i]
           h == Changed(g, w)
<1>1. w.id \in Chapters /\ w.ch \in Chapter
    BY DEF Write
<1>2. i \in Nat \cup {NoIndex}
    BY DEF Graphs, Live, Chapter
<1>3. ch \in Chapter /\ ch.index = i
    <2> HIDE DEF i
    <2> QED BY <1>1, <1>2, IndexedChapter
<1>4. h = [g EXCEPT ![w.id] = ch]
    BY DEF Changed
<1> HIDE DEF h, ch
<1>5. h \in Graphs
    BY <1>1, <1>3, <1>4 DEF Graphs
<1>6. \A x \in Chapters : h[x] = IF x = w.id THEN ch ELSE g[x]
    BY <1>1, <1>4 DEF Graphs
<1>7. ASSUME IndexesApart(g)
      PROVE  IndexesApart(h)
    <2>1. \A x \in Live(h) : \/ x \in Live(g) /\ h[x].index = g[x].index
                             \/ h[x].index = NoIndex
        BY <1>3, <1>6 DEF Live
    <2>2. \A x, y \in Live(g) : x # y /\ g[x].index = g[y].index => g[x].index = NoIndex
        BY <1>7 DEF IndexesApart
    <2>3. \A x, y \in Live(h) : x # y /\ h[x].index = h[y].index => h[x].index = NoIndex
        BY <2>1, <2>2
    <2> QED BY <2>3 DEF IndexesApart
<1> QED BY <1>5, <1>7 DEF h

\* What a model of the unit of work writes keeps the indexes apart.
LEMMA WrittenKeeps ==
    ASSUME NEW g \in Graphs, NEW w \in Models
    PROVE  Written(g, w) \in Graphs /\ (IndexesApart(g) => IndexesApart(Written(g, w)))
<1>1. w \in Write /\ w.kind \in {"new", "changed", "deleted"} /\ w.id \in Chapters
    BY DEF Models, Write
<1>2. CASE w.kind = "new"
    BY <1>2, CreatedKeeps DEF Written
<1>3. CASE w.kind = "changed"
    BY <1>1, <1>3, ChangedKeeps DEF Written
<1>4. CASE w.kind = "deleted"
    <2> DEFINE h == [g EXCEPT ![w.id] = NoChapter]
    <2>1. Written(g, w) = h
        BY <1>4 DEF Written
    <2>2. h \in Graphs
        BY <1>1 DEF Graphs
    <2>3. \A x \in Live(h) : x \in Live(g) /\ h[x] = g[x]
        BY <1>1 DEF Live, Graphs
    <2> HIDE DEF h
    <2>4. IndexesApart(g) => IndexesApart(h)
        BY <2>3 DEF IndexesApart
    <2> QED BY <2>1, <2>2, <2>4
<1> QED BY <1>1, <1>2, <1>3, <1>4

\* The graphs a commit passes through: titles unique, indexes apart if they were.
Sound(r, g) == /\ r \in [graph : Graphs, ok : BOOLEAN]
               /\ UniqueTitles(r.graph)
               /\ IndexesApart(g) => IndexesApart(r.graph)

\* One save: refused, or written with the titles unique.
LEMMA SaveSound ==
    ASSUME NEW g, NEW r, Sound(r, g), NEW w \in Models
    PROVE  Sound(Save(r, w), g)
<1>1. r.graph \in Graphs /\ r.ok \in BOOLEAN
    BY DEF Sound
<1>2. Written(r.graph, w) \in Graphs /\ (IndexesApart(r.graph) => IndexesApart(Written(r.graph, w)))
    BY <1>1, WrittenKeeps
<1>3. CASE r.ok /\ UniqueTitles(Written(r.graph, w))
    <2>1. Save(r, w) = [r EXCEPT !.graph = Written(r.graph, w)]
        BY <1>3 DEF Save
    <2> DEFINE h == Written(r.graph, w)
    <2> HIDE DEF h
    <2>2. [r EXCEPT !.graph = h] \in [graph : Graphs, ok : BOOLEAN] /\ [r EXCEPT !.graph = h].graph = h
        BY <1>1, <1>2 DEF h, Sound
    <2> QED BY <1>2, <1>3, <2>1, <2>2 DEF h, Sound
<1>4. CASE ~(r.ok /\ UniqueTitles(Written(r.graph, w)))
    <2>1. Save(r, w) = [r EXCEPT !.ok = FALSE]
        BY <1>4 DEF Save
    <2>2. /\ [r EXCEPT !.ok = FALSE] \in [graph : Graphs, ok : BOOLEAN]
          /\ [r EXCEPT !.ok = FALSE].graph = r.graph
        BY DEF Sound
    <2> QED BY <2>1, <2>2 DEF Sound
<1> QED BY <1>3, <1>4

\* The saves of one list, by induction along the chain.
LEMMA SavedSound ==
    ASSUME NEW g, NEW r, Sound(r, g), NEW s \in Seq(Models), NEW kind
    PROVE  Sound(Saved(r, s, kind), g)
<1>1. Len(s) \in Nat /\ \A i \in 1 .. Len(s) : s[i] \in Models
    BY LenProperties, ElementOfSeq
<1>2. PICK f : /\ f[0] = r /\ f[Len(s)] = Saved(r, s, kind)
               /\ \A i \in 1 .. Len(s) :
                    f[i] = IF s[i].kind = kind THEN Save(f[i - 1], s[i]) ELSE f[i - 1]
    BY SavedIsChain
<1> DEFINE S == {m \in Nat : m <= Len(s) => Sound(f[m], g)}
<1>3. 0 \in S
    BY <1>2
<1>4. ASSUME NEW m \in Nat, m \in S
      PROVE  m + 1 \in S
    <2> SUFFICES ASSUME m + 1 <= Len(s)
                 PROVE  Sound(f[m + 1], g)
        OBVIOUS
    <2>1. Sound(f[m], g) /\ m + 1 \in 1 .. Len(s) /\ (m + 1) - 1 = m
        BY <1>1, <1>4
    <2>2. f[m + 1] = f[m] \/ f[m + 1] = Save(f[m], s[m + 1])
        BY <1>2, <2>1
    <2>3. Sound(Save(f[m], s[m + 1]), g)
        BY <1>1, <2>1, SaveSound
    <2> QED BY <2>1, <2>2, <2>3
<1>5. Len(s) \in S
    <2> HIDE DEF S
    <2> QED BY <1>1, <1>3, <1>4, SetInduction
<1> QED BY <1>1, <1>2, <1>5

-----------------------------------------------------------------------------
(* The calls: what each may rely on where it is. *)
-----------------------------------------------------------------------------
Fields == {"op", "id", "after", "title", "category", "start", "at", "answer", "index", "seen",
           "ch", "order", "members", "titles", "moves", "next"}
Paths  == [place : {"Act", "Characters"} \X Acts, title : Title, temp : {0}]
Moved  == [old : Paths, new : Paths]

\* What a request says.
Asked(r) ==
    /\ r.op \in {"create", "move", "update", "delete", "renumber"}
    /\ r.op # "renumber" => r.id \in Chapters
    /\ r.op \in {"create", "update"} => r.title \in Title
    /\ r.op = "create" => r.category \in {"Chapter", "Character"}
    /\ r.op \in {"create", "move"} => r.after \in Chapters \cup {NoChapter}
    /\ r.op = "renumber" => r.start \in Nat

\* What a step has left for the next one.
Local(r) ==
    /\ r.at = "resolve" => r.op = "create"
    /\ r.at \in {"check", "commit"} => r.op \in {"create", "update"}
    /\ r.at \in {"check", "commit"} /\ r.op = "create" => r.index \in Nat
    /\ r.at \in {"check", "commit"} /\ r.op = "update" => r.ch \in Chapter
    /\ r.at = "load" => r.op \in {"move", "update", "delete"}
    /\ r.at = "rename" => r.op = "update" /\ r.ch \in Chapter
    /\ r.at \in {"list", "adopt", "reorder"} => r.op = "move" /\ r.ch \in Chapter
    /\ r.at \in {"remove", "drop"} => r.op = "delete" /\ r.ch \in Chapter
    /\ r.at = "materialize" => r.op = "create"
    /\ r.at = "plan" => r.op = "renumber"
    /\ r.at = "retitle" => \A x \in DOMAIN r.titles : r.titles[x] \in Title
    /\ r.at \in {"retitle", "moves", "aside", "final", "undo"} => r.moves \in Seq(Moved)
    /\ r.at \in {"aside", "final"} => r.next \in 1 .. Len(r.moves)
    /\ r.at = "undo" => r.next \in Nat \ {0}

CallOK(r) == DOMAIN r = Fields /\ (r.at # "idle" => Asked(r) /\ Local(r))
CallsOK   == call = [c \in Clients |-> call[c]] /\ \A c \in Clients : CallOK(call[c])

IndInv ==
    /\ TypeOK
    /\ held \in Seq(Models)
    /\ script \in [Clients -> Seq(Requests)]
    /\ CallsOK
    /\ "unlisted" \in gone \/ IndexesApart(chapters)

LEMMA IdleFields == DOMAIN Idle = Fields
BY DEF Idle, Fields

LEMMA GotoOK ==
    ASSUME CallsOK, NEW c \in Clients, NEW r, Goto(c, r), CallOK(r)
    PROVE  CallsOK'
BY DEF CallsOK, Goto

\* A call that ends.
LEMMA DoneOK ==
    ASSUME CallsOK, NEW c \in Clients, NEW answer, Done(c, answer)
    PROVE  CallsOK'
<1> DEFINE r == [Idle EXCEPT !.op = call[c].op, !.answer = answer]
<1>1. DOMAIN r = Fields /\ r.at = "idle"
    BY IdleFields DEF Idle
<1>2. CallOK(r) /\ Goto(c, r)
    BY <1>1 DEF CallOK, Done
<1> HIDE DEF r
<1> QED BY <1>2, GotoOK

\* A call that goes on with the variables it has.
LEMMA StepOK ==
    ASSUME CallsOK, NEW c \in Clients, NEW step, Step(c, step), Asked(call[c]),
           Local([call[c] EXCEPT !.at = step])
    PROVE  CallsOK'
<1> DEFINE r == [call[c] EXCEPT !.at = step]
<1>1. DOMAIN call[c] = Fields
    BY DEF CallsOK, CallOK
<1>2. DOMAIN r = Fields /\ \A f \in Fields : f # "at" => r[f] = call[c][f]
    BY <1>1
<1>3. Asked(r)
    BY <1>2 DEF Asked, Fields
<1>4. CallOK(r) /\ Goto(c, r)
    BY <1>2, <1>3 DEF CallOK, Step
<1> HIDE DEF r
<1> QED BY <1>4, GotoOK

\* A chapter's path, and the one under another title.
LEMMA PathOK ==
    ASSUME NEW ch \in Chapter
    PROVE  /\ Path(ch) \in Paths /\ Path(ch).title = ch.title /\ Path(ch).place = Place(ch)
           /\ \A t \in Title : /\ [ch EXCEPT !.title = t] \in Chapter
                               /\ [ch EXCEPT !.title = t].title = t
                               /\ Place([ch EXCEPT !.title = t]) = Place(ch)
<1>1. Place(ch) \in {"Act", "Characters"} \X Acts
    BY ActsAssumption DEF Place, Chapter
<1>2. Path(ch) \in Paths /\ Path(ch).title = ch.title /\ Path(ch).place = Place(ch)
    BY <1>1 DEF Path, Paths, Chapter
<1>3. ASSUME NEW t \in Title
      PROVE  /\ [ch EXCEPT !.title = t] \in Chapter
             /\ [ch EXCEPT !.title = t].title = t
             /\ Place([ch EXCEPT !.title = t]) = Place(ch)
    BY DEF Chapter, Place
<1> QED BY <1>2, <1>3

\* A listing holds chapters of the document, each once.
LEMMA ListingsOK ==
    ASSUME NEW g \in Graphs, NEW s \in Listings(g)
    PROVE  /\ s \in Seq(Chapters) /\ Len(s) \in Nat /\ Ids(s) \subseteq Live(g) /\ NoRepeats(s)
           /\ Len(s) = Cardinality(Live(g))
<1> DEFINE n == Cardinality(Live(g))
<1>1. IsFiniteSet(Live(g)) /\ n \in Nat
    <2>1. Live(g) \subseteq Chapters
        BY DEF Live
    <2> QED BY <2>1, FiniteAssumption, FS_Subset, FS_CardinalityType
<1>2. s \in [1 .. n -> Live(g)] /\ \A i, j \in 1 .. n : i # j => s[i] # s[j]
    BY DEF Listings, SetToSeqs
<1> HIDE DEF n
<1>3. s \in Seq(Live(g)) /\ Len(s) = n
    BY <1>1, <1>2
<1>4. s \in Seq(Chapters)
    BY <1>1, <1>2 DEF Live
<1> QED BY <1>1, <1>2, <1>3, <1>4 DEF Ids, NoRepeats, n

\* An element of a sequence is where Position says.
LEMMA PositionOK ==
    ASSUME NEW s, NEW x \in Ids(s)
    PROVE  Position(s, x) \in 1 .. Len(s) /\ s[Position(s, x)] = x
<1>1. \E i \in 1 .. Len(s) : s[i] = x
    BY DEF Ids
<1> QED BY <1>1 DEF Position

-----------------------------------------------------------------------------
(* The steps. *)
-----------------------------------------------------------------------------
\* A step that touches neither the graph nor the unit of work.
LEMMA OtherStep ==
    ASSUME IndInv, CallsOK', \A p \in DOMAIN files' : files'[p] \in File,
           faults' \in 0 .. MaxFaults, UNCHANGED <<chapters, held, script>>,
           gone' \in {gone, gone \cup {"crossed"}}
    PROVE  IndInv'
<1>1. TypeOK'
    BY DEF IndInv, TypeOK
<1> QED BY <1>1 DEF IndInv

LEMMA CallStep ==
    ASSUME IndInv, CallsOK', UNCHANGED <<chapters, files, held, script, faults, gone>>
    PROVE  IndInv'
<1>1. faults' \in 0 .. MaxFaults /\ \A p \in DOMAIN files' : files'[p] \in File
    BY DEF IndInv, TypeOK
<1> QED BY <1>1, OtherStep

\* A commit: whatever is registered, and the call's own model.
LEMMA CommitStep ==
    ASSUME IndInv, NEW c \in Clients, NEW w \in Models, NEW step, Commit(c, w, step),
           step # "done" => Local([call[c] EXCEPT !.at = step]), Asked(call[c]),
           UNCHANGED <<files, script, faults>>, gone' \in {gone, gone \cup {"adopted"}}
    PROVE  IndInv'
<1> DEFINE all    == Append(held, w)
           start  == [graph |-> chapters, ok |-> TRUE]
           new    == Saved(start, all, "new")
           result == Saved(Saved(new, all, "changed"), all, "deleted")
<1>1. all \in Seq(Models)
    BY DEF IndInv
<1>2. Sound(start, chapters)
    <2>1. start \in [graph : Graphs, ok : BOOLEAN] /\ start.graph = chapters
        BY DEF IndInv, TypeOK, Graphs
    <2> HIDE DEF start
    <2> QED BY <2>1 DEF Sound, IndInv, TypeOK
<1>3. Sound(result, chapters)
    <2> HIDE DEF all, start
    <2>1. Sound(new, chapters)
        BY <1>1, <1>2, SavedSound
    <2> HIDE DEF new
    <2>2. Sound(Saved(new, all, "changed"), chapters)
        BY <1>1, <2>1, SavedSound
    <2> QED BY <1>1, <2>2, SavedSound
<1>4. /\ chapters' = result.graph
      /\ IF result.ok
         THEN held' = << >> /\ (IF step = "done" THEN Done(c, "ok") ELSE Step(c, step))
         ELSE held' = all /\ Done(c, "error")
    BY DEF Commit
<1> HIDE DEF result, all
<1>5. chapters' \in Graphs /\ UniqueTitles(chapters') /\ (IndexesApart(chapters) => IndexesApart(chapters'))
    BY <1>3, <1>4 DEF Sound
<1>6. held' \in Seq(Models)
    <2>1. held' = << >> \/ held' = all
        BY <1>4
    <2> QED BY <1>1, <2>1, EmptySeq
<1>7. CallsOK'
    <2>1. CallsOK
        BY DEF IndInv
    <2>2. CASE Done(c, "ok") \/ Done(c, "error")
        BY <2>1, <2>2, DoneOK
    <2>3. CASE step # "done" /\ Step(c, step)
        BY <2>1, <2>3, StepOK
    <2> QED BY <1>4, <2>2, <2>3
<1>8. Seq(Models) \subseteq Seq(Write)
    <2>1. Models \subseteq Write
        BY DEF Models
    <2> QED BY <2>1, SeqMonotonic
<1>9. TypeOK'
    <2>1. gone' \subseteq {"unlisted", "adopted", "overlap", "crossed"}
        BY DEF IndInv, TypeOK
    <2>2. held' \in Seq(Write)
        BY <1>6, <1>8
    <2> QED BY <1>5, <2>1, <2>2 DEF TypeOK, Graphs, IndInv, UniqueTitles, Live
<1>10. "unlisted" \in gone' \/ IndexesApart(chapters')
    BY <1>5 DEF IndInv
<1>11. script' \in [Clients -> Seq(Requests)]
    BY DEF IndInv
<1> QED BY <1>6, <1>7, <1>9, <1>10, <1>11 DEF IndInv, IndexesApart, Live

\* What is known of a call that is somewhere.
LEMMA CallIs ==
    ASSUME IndInv, NEW c \in Clients
    PROVE  /\ DOMAIN call[c] = Fields
           /\ call[c].at # "idle" => Asked(call[c]) /\ Local(call[c])
BY DEF IndInv, CallsOK, CallOK

LEMMA InitIndInv == Init => IndInv
<1> SUFFICES ASSUME Init PROVE IndInv
    OBVIOUS
<1>1. PICK d \in Documents :
        /\ chapters = d.chapters
        /\ files = [p \in {Path(d.chapters[x]) : x \in d.opened} |->
                      LET x == CHOOSE x \in d.opened : p = Path(d.chapters[x])
                      IN  [id |-> x, title |-> d.chapters[x].title, tracked |-> TRUE]]
    BY DEF Init
<1>2. /\ d.chapters \in Graphs /\ d.opened \subseteq Live(d.chapters)
      /\ UniqueTitles(chapters) /\ IndexesApart(chapters)
    BY <1>1, DocumentsAssumption DEF Graphs
<1>3. ASSUME NEW p \in DOMAIN files
      PROVE  files[p] \in File
    <2> DEFINE x == CHOOSE x \in d.opened : p = Path(d.chapters[x])
    <2>1. \E y \in d.opened : p = Path(d.chapters[y])
        BY <1>1, <1>3
    <2>2. x \in d.opened
        BY <2>1
    <2>3. files[p] = [id |-> x, title |-> d.chapters[x].title, tracked |-> TRUE]
        BY <1>1, <1>3
    <2> HIDE DEF x
    <2>4. x \in Chapters /\ d.chapters[x] \in Chapter
        BY <1>2, <2>2 DEF Live, Graphs
    <2> QED BY <2>3, <2>4 DEF File, Chapter
<1>4. held = << >> /\ held \in Seq(Models) /\ held \in Seq(Write)
    BY EmptySeq DEF Init
<1>5. faults \in 0 .. MaxFaults /\ gone = {}
    BY NumberAssumption DEF Init
<1>6. TypeOK
    BY <1>1, <1>2, <1>3, <1>4, <1>5 DEF TypeOK, Graphs
<1>7. script \in [Clients -> Seq(Requests)]
    BY ScriptsAssumption DEF Init
<1>8. CallsOK
    <2>1. call = [c \in Clients |-> Idle]
        BY DEF Init
    <2>2. CallOK(Idle)
        <3>1. Idle.at = "idle"
            BY DEF Idle
        <3> QED BY <3>1, IdleFields DEF CallOK
    <2> QED BY <2>1, <2>2 DEF CallsOK
<1> QED BY <1>2, <1>4, <1>6, <1>7, <1>8 DEF IndInv

LEMMA BeginKeeps ==
    ASSUME IndInv, NEW c \in Clients, Begin(c)
    PROVE  IndInv'
<1> DEFINE do == Head(script[c])
           at == CASE do.op = "create" -> "resolve" [] do.op = "renumber" -> "plan" [] OTHER -> "load"
           V(f) == IF f = "at" THEN at ELSE IF f \in DOMAIN do THEN do[f] ELSE Idle[f]
           r  == [f \in DOMAIN Idle |-> V(f)]
<1>1. script[c] \in Seq(Requests) /\ script[c] # << >>
    BY DEF Begin, IndInv
<1>2. do \in Requests /\ Tail(script[c]) \in Seq(Requests)
    BY <1>1
<1>3. Goto(c, r)
    BY DEF Begin
<1>4. script' \in [Clients -> Seq(Requests)]
    BY <1>2 DEF Begin, IndInv
<1> HIDE DEF do
<1>5. DOMAIN r = Fields /\ r.at = at
    <2> HIDE DEF at
    <2>1. DOMAIN r = Fields
        BY IdleFields
    <2>2. "at" \in DOMAIN Idle
        BY IdleFields DEF Fields
    <2>3. V("at") = at
        OBVIOUS
    <2> HIDE DEF V
    <2> QED BY <2>1, <2>2, <2>3
<1>6. \A f \in Fields : f # "at" /\ f \in DOMAIN do => r[f] = do[f]
    BY IdleFields
<1> HIDE DEF r
<1>7. Asked(r) /\ r.op = do.op
    <2>1. CASE do \in [op : {"create"}, id : Chapters, after : Chapters \cup {NoChapter},
                       title : Title, category : {"Chapter", "Character"}]
        <3>1. DOMAIN do = {"op", "id", "after", "title", "category"}
            BY <2>1
        <3>2. /\ r.op = do.op /\ r.id = do.id /\ r.after = do.after /\ r.title = do.title
              /\ r.category = do.category
            BY <1>6, <3>1 DEF Fields
        <3> QED BY <2>1, <3>2 DEF Asked
    <2>2. CASE do \in [op : {"move"}, id : Chapters, after : Chapters \cup {NoChapter}]
        <3>1. DOMAIN do = {"op", "id", "after"}
            BY <2>2
        <3>2. r.op = do.op /\ r.id = do.id /\ r.after = do.after
            BY <1>6, <3>1 DEF Fields
        <3> QED BY <2>2, <3>2 DEF Asked
    <2>3. CASE do \in [op : {"update"}, id : Chapters, title : Title]
        <3>1. DOMAIN do = {"op", "id", "title"}
            BY <2>3
        <3>2. r.op = do.op /\ r.id = do.id /\ r.title = do.title
            BY <1>6, <3>1 DEF Fields
        <3> QED BY <2>3, <3>2 DEF Asked
    <2>4. CASE do \in [op : {"delete"}, id : Chapters]
        <3>1. DOMAIN do = {"op", "id"}
            BY <2>4
        <3>2. r.op = do.op /\ r.id = do.id
            BY <1>6, <3>1 DEF Fields
        <3> QED BY <2>4, <3>2 DEF Asked
    <2>5. CASE do \in [op : {"renumber"}, start : Nat]
        <3>1. DOMAIN do = {"op", "start"}
            BY <2>5
        <3>2. r.op = do.op /\ r.start = do.start
            BY <1>6, <3>1 DEF Fields
        <3> QED BY <2>5, <3>2 DEF Asked
    <2> QED BY <1>2, <2>1, <2>2, <2>3, <2>4, <2>5 DEF Requests
<1>8. Local(r)
    <2>1. \/ r.op = "create" /\ r.at = "resolve"
          \/ r.op = "renumber" /\ r.at = "plan"
          \/ r.op \in {"move", "update", "delete"} /\ r.at = "load"
        BY <1>5, <1>7 DEF Asked
    <2> QED BY <2>1 DEF Local
<1>9. CallsOK'
    BY <1>3, <1>5, <1>7, <1>8, GotoOK DEF CallOK, IndInv
<1>10. TypeOK' /\ ("unlisted" \in gone' \/ IndexesApart(chapters'))
    <2>1. UNCHANGED <<chapters, files, held, faults>> /\ gone' \in {gone, gone \cup {"overlap"}}
        BY DEF Begin
    <2>2. gone' \subseteq {"unlisted", "adopted", "overlap", "crossed"} /\ gone \subseteq gone'
        BY <2>1 DEF IndInv, TypeOK
    <2> QED BY <2>1, <2>2 DEF IndInv, TypeOK
<1>11. held' \in Seq(Models)
    BY DEF Begin, IndInv
<1> QED BY <1>4, <1>9, <1>10, <1>11 DEF IndInv

LEMMA ResolveKeeps ==
    ASSUME IndInv, NEW c \in Clients, Resolve(c)
    PROVE  IndInv'
<1> DEFINE after == call[c].after
           i == IndexAfter(after)
           seen == IF after = NoChapter THEN 0 ELSE Listed(after)
           r == [call[c] EXCEPT !.at = "check", !.index = i, !.seen = seen]
<1>1. /\ DOMAIN call[c] = Fields /\ Asked(call[c])
      /\ call[c].op = "create" /\ after \in Chapters \cup {NoChapter}
    BY CallIs DEF Resolve, At, Asked, Local
<1>2. Done(c, "no such chapter") \/ (Goto(c, r) /\ (after = NoChapter \/ after \in Live(chapters)))
    BY DEF Resolve
<1>3. after = NoChapter \/ after \in Live(chapters) => i \in Nat
    <2>1. ASSUME after \in Live(chapters)
          PROVE  chapters[after].index \in Nat \cup {NoIndex}
        BY <2>1 DEF Live, IndInv, TypeOK, Chapter
    <2> QED BY <2>1, NumberAssumption DEF IndexAfter, Listed
<1> HIDE DEF i, seen
<1>4. DOMAIN r = Fields /\ r.at = "check" /\ r.index = i
    BY <1>1 DEF Fields
<1>5. \A f \in Fields \ {"at", "index", "seen"} : r[f] = call[c][f]
    BY <1>1
<1> HIDE DEF r
<1>6. Asked(r) /\ r.op = "create"
    BY <1>1, <1>5 DEF Asked, Fields
<1>7. i \in Nat => Local(r)
    BY <1>4, <1>6 DEF Local
<1>8. CallsOK'
    <2>1. CallsOK
        BY DEF IndInv
    <2>2. CASE Done(c, "no such chapter")
        BY <2>1, <2>2, DoneOK
    <2>3. CASE Goto(c, r) /\ i \in Nat
        BY <1>4, <1>6, <1>7, <2>1, <2>3, GotoOK DEF CallOK
    <2> QED BY <1>2, <1>3, <2>2, <2>3
<1> QED BY <1>8, CallStep DEF Resolve

LEMMA CheckKeeps ==
    ASSUME IndInv, NEW c \in Clients, Check(c)
    PROVE  IndInv'
<1>1. DOMAIN call[c] = Fields /\ Asked(call[c]) /\ Local(call[c]) /\ call[c].at = "check"
    BY CallIs DEF Check, At
<1>2. Done(c, "duplicate") \/ Step(c, "commit")
    BY DEF Check
<1> DEFINE r == [call[c] EXCEPT !.at = "commit"]
<1>3. r.at = "commit" /\ \A f \in Fields : f # "at" => r[f] = call[c][f]
    BY <1>1 DEF Fields
<1> HIDE DEF r
<1>4. r.op = call[c].op /\ r.index = call[c].index /\ r.ch = call[c].ch
    BY <1>3 DEF Fields
<1>5. Local(r)
    BY <1>1, <1>3, <1>4 DEF Local
<1>6. CallsOK'
    <2>1. CallsOK
        BY DEF IndInv
    <2>2. CASE Done(c, "duplicate")
        BY <2>1, <2>2, DoneOK
    <2>3. CASE Step(c, "commit")
        BY <1>1, <1>5, <2>1, <2>3, StepOK DEF r
    <2> QED BY <1>2, <2>2, <2>3
<1> QED BY <1>6, CallStep DEF Check

LEMMA LoadKeeps ==
    ASSUME IndInv, NEW c \in Clients, Load(c)
    PROVE  IndInv'
<1> DEFINE ch == chapters[call[c].id]
           at == CASE call[c].op = "update" -> "check"
                   [] call[c].op = "move"   -> "list"
                   [] call[c].op = "delete" -> "remove"
           r == [call[c] EXCEPT !.ch = ch, !.at = at]
<1>1. /\ DOMAIN call[c] = Fields /\ Asked(call[c])
      /\ call[c].op \in {"move", "update", "delete"} /\ call[c].id \in Chapters
    BY CallIs DEF Load, At, Asked, Local
<1>2. \/ Done(c, "no such chapter") \/ Done(c, "ok")
      \/ Goto(c, r) /\ ch # NoChapter
    BY DEF Load
<1>3. ch # NoChapter => ch \in Chapter
    BY <1>1 DEF IndInv, TypeOK
<1>4. \/ call[c].op = "update" /\ at = "check"
      \/ call[c].op = "move" /\ at = "list"
      \/ call[c].op = "delete" /\ at = "remove"
    BY <1>1
<1> HIDE DEF ch, at
<1>5. DOMAIN r = Fields /\ r.at = at /\ r.ch = ch
    BY <1>1 DEF Fields
<1>6. \A f \in Fields \ {"at", "ch"} : r[f] = call[c][f]
    BY <1>1
<1> HIDE DEF r
<1>7. Asked(r) /\ r.op = call[c].op
    BY <1>1, <1>6 DEF Asked, Fields
<1>8. ch \in Chapter => Local(r)
    BY <1>4, <1>5, <1>7 DEF Local
<1>9. CallsOK'
    <2>1. CallsOK
        BY DEF IndInv
    <2>2. CASE Done(c, "no such chapter") \/ Done(c, "ok")
        BY <2>1, <2>2, DoneOK
    <2>3. CASE Goto(c, r) /\ ch \in Chapter
        BY <1>5, <1>7, <1>8, <2>1, <2>3, GotoOK DEF CallOK
    <2> QED BY <1>2, <1>3, <2>2, <2>3
<1> QED BY <1>9, CallStep DEF Load

\* What a call goes on with after its own variables are left alone.
LEMMA SameLocals ==
    ASSUME NEW r, DOMAIN r = Fields, NEW step
    PROVE  LET t == [r EXCEPT !.at = step] IN
           /\ DOMAIN t = Fields /\ t.at = step
           /\ t.op = r.op /\ t.ch = r.ch /\ t.index = r.index /\ t.titles = r.titles
           /\ t.moves = r.moves /\ t.next = r.next
BY DEF Fields

LEMMA CreateKeeps ==
    ASSUME IndInv, NEW c \in Clients, Create(c)
    PROVE  IndInv'
<1> DEFINE ch == [title |-> call[c].title, act |-> "", category |-> call[c].category,
                  index |-> call[c].index]
           w == WriteOf(c, "new", ch)
<1>1. /\ DOMAIN call[c] = Fields /\ Asked(call[c]) /\ call[c].op = "create"
      /\ call[c].id \in Chapters /\ call[c].title \in Title
      /\ call[c].category \in {"Chapter", "Character"} /\ call[c].index \in Nat
    BY CallIs DEF Create, At, Asked, Local
<1>2. ch \in Chapter /\ ch.index \in Nat
    BY <1>1, ActsAssumption DEF Chapter
<1> HIDE DEF ch
<1>3. w \in Models
    BY <1>1, <1>2 DEF WriteOf, Models, Write
<1>4. Local([call[c] EXCEPT !.at = "materialize"])
    BY <1>1, SameLocals DEF Local
<1>5. Commit(c, w, "materialize") /\ UNCHANGED <<files, script, faults, gone>>
    BY DEF Create, ch
<1> HIDE DEF w
<1> QED BY <1>1, <1>3, <1>4, <1>5, CommitStep

LEMMA UpdateKeeps ==
    ASSUME IndInv, NEW c \in Clients, Update(c)
    PROVE  IndInv'
<1> DEFINE ch == [call[c].ch EXCEPT !.title = call[c].title]
           w == WriteOf(c, "changed", ch)
           step == IF call[c].title = call[c].ch.title THEN "done" ELSE "rename"
<1>1. /\ DOMAIN call[c] = Fields /\ Asked(call[c]) /\ call[c].op = "update"
      /\ call[c].id \in Chapters /\ call[c].title \in Title /\ call[c].ch \in Chapter
    BY CallIs DEF Update, At, Asked, Local
<1>2. ch \in Chapter
    BY <1>1, PathOK
<1> HIDE DEF ch
<1>3. w \in Models
    BY <1>1, <1>2 DEF WriteOf, Models, Write
<1>4. step # "done" => Local([call[c] EXCEPT !.at = step])
    BY <1>1, SameLocals DEF Local
<1>5. Commit(c, w, step) /\ UNCHANGED <<files, script, faults, gone>>
    BY DEF Update, ch
<1> HIDE DEF w, step
<1> QED BY <1>1, <1>3, <1>4, <1>5, CommitStep

LEMMA DeleteKeeps ==
    ASSUME IndInv, NEW c \in Clients, Delete(c)
    PROVE  IndInv'
<1> DEFINE w == WriteOf(c, "deleted", call[c].ch)
<1>1. /\ Asked(call[c]) /\ call[c].id \in Chapters /\ call[c].ch \in Chapter
    BY CallIs DEF Delete, At, Asked, Local
<1>2. w \in Models
    BY <1>1 DEF WriteOf, Models, Write
<1>3. Commit(c, w, "done") /\ UNCHANGED <<files, script, faults, gone>>
    BY DEF Delete
<1> HIDE DEF w
<1> QED BY <1>1, <1>2, <1>3, CommitStep

LEMMA AdoptKeeps ==
    ASSUME IndInv, NEW c \in Clients, Adopt(c)
    PROVE  IndInv'
<1> DEFINE w == WriteOf(c, "changed", call[c].ch)
<1>1. /\ DOMAIN call[c] = Fields /\ Asked(call[c]) /\ call[c].op = "move"
      /\ call[c].id \in Chapters /\ call[c].ch \in Chapter
    BY CallIs DEF Adopt, At, Asked, Local
<1>2. w \in Models
    BY <1>1 DEF WriteOf, Models, Write
<1>3. Local([call[c] EXCEPT !.at = "reorder"])
    BY <1>1, SameLocals DEF Local
<1>4. /\ Commit(c, w, "reorder") /\ UNCHANGED <<files, script, faults>>
      /\ gone' = gone \cup {"adopted"}
    BY DEF Adopt
<1> HIDE DEF w
<1> QED BY <1>1, <1>2, <1>3, <1>4, CommitStep

LEMMA ListKeeps ==
    ASSUME IndInv, NEW c \in Clients, List(c)
    PROVE  IndInv'
<1> DEFINE x == call[c].id
           after == call[c].after
<1>1. /\ DOMAIN call[c] = Fields /\ Asked(call[c])
      /\ call[c].op = "move" /\ call[c].ch \in Chapter /\ after \in Chapters \cup {NoChapter}
    BY CallIs DEF List, At, Asked, Local
<1>2. CASE \E answer : Done(c, answer)
    <2>1. CallsOK'
        BY <1>2, DoneOK DEF IndInv
    <2> QED BY <2>1, CallStep DEF List
<1>3. CASE ~ \E answer : Done(c, answer)
    <2>1. PICK s \in Listings(chapters) :
            /\ after = NoChapter \/ after \in Ids(s)
            /\ x \in Ids(s)
            /\ LET neighbor == IF after = NoChapter THEN s[1] ELSE after
                   adopts   == /\ Reordered(s, x, after) # s
                               /\ Category(neighbor) = Category(x)
                               /\ call[c].ch.act # chapters[neighbor].act
               IN  Goto(c, [call[c] EXCEPT
                              !.at = IF adopts THEN "adopt" ELSE "reorder",
                              !.ch.act = IF adopts THEN chapters[neighbor].act ELSE @,
                              !.order = Reordered(s, x, after), !.members = s])
        BY <1>3 DEF List
    <2> DEFINE neighbor == IF after = NoChapter THEN s[1] ELSE after
               adopts   == /\ Reordered(s, x, after) # s
                           /\ Category(neighbor) = Category(x)
                           /\ call[c].ch.act # chapters[neighbor].act
               act == IF adopts THEN chapters[neighbor].act ELSE call[c].ch.act
               at  == IF adopts THEN "adopt" ELSE "reorder"
               ch  == [call[c].ch EXCEPT !.act = act]
               order == Reordered(s, x, after)
               r == [call[c] EXCEPT !.at = at, !.ch = ch, !.order = order, !.members = s]
    <2>2. neighbor \in Ids(s)
        <3>1. Ids(s) # {} => 1 \in 1 .. Len(s)
            <4>1. chapters \in Graphs
                BY DEF IndInv, TypeOK, Graphs
            <4>2. Len(s) \in Nat
                BY <4>1, ListingsOK
            <4> QED BY <4>2 DEF Ids
        <3>2. 1 \in 1 .. Len(s) => s[1] \in Ids(s)
            BY DEF Ids
        <3> QED BY <2>1, <3>1, <3>2
    <2>3. chapters[neighbor] \in Chapter
        <3>1. chapters \in Graphs
            BY DEF IndInv, TypeOK, Graphs
        <3>2. Ids(s) \subseteq Live(chapters)
            BY <3>1, ListingsOK
        <3> HIDE DEF neighbor
        <3> QED BY <2>2, <3>1, <3>2 DEF Live, Graphs
    <2>4. Goto(c, r)
        <3>1. r = [call[c] EXCEPT
                     !.at = at, !.ch.act = IF adopts THEN chapters[neighbor].act ELSE @,
                     !.order = order, !.members = s]
            <4> HIDE DEF neighbor, adopts, order, at
            <4> QED BY <1>1 DEF Fields
        <3> QED BY <2>1, <3>1
    <2>5. ch \in Chapter
        <3>1. act \in Acts
            <4> HIDE DEF neighbor, adopts
            <4> QED BY <1>1, <2>3 DEF Chapter
        <3> HIDE DEF act
        <3> QED BY <1>1, <3>1 DEF Chapter
    <2>6. at \in {"adopt", "reorder"}
        OBVIOUS
    <2> HIDE DEF at, ch, order
    <2>7. DOMAIN r = Fields /\ r.at = at /\ r.ch = ch
        BY <1>1 DEF Fields
    <2>8. \A f \in Fields \ {"at", "ch", "order", "members"} : r[f] = call[c][f]
        BY <1>1
    <2> HIDE DEF r
    <2>9. Asked(r) /\ r.op = "move"
        BY <1>1, <2>8 DEF Asked, Fields
    <2>10. Local(r)
        BY <2>5, <2>6, <2>7, <2>9 DEF Local
    <2>11. CallsOK'
        BY <2>4, <2>7, <2>9, <2>10, GotoOK DEF CallOK, IndInv
    <2> QED BY <2>11, CallStep DEF List
<1> QED BY <1>2, <1>3

\* Rewriting the order: two chapters of the list have two places in it, and
\* one the list misses is recorded.
LEMMA ReorderKeeps ==
    ASSUME IndInv, NEW c \in Clients, Reorder(c)
    PROVE  IndInv'
<1> DEFINE s == call[c].order
<1>1. chapters \in Graphs /\ UniqueTitles(chapters)
    BY DEF IndInv, TypeOK, Graphs
<1>2. chapters' = [x \in Chapters |->
         IF x \in Live(chapters) /\ x \in Ids(s)
         THEN [chapters[x] EXCEPT !.index = Position(s, x) - 1] ELSE chapters[x]]
    BY DEF Reorder
<1>3. gone' = IF Live(chapters) \subseteq Ids(s) THEN gone ELSE gone \cup {"unlisted"}
    BY DEF Reorder
<1> HIDE DEF s
<1>4. \A x \in Ids(s) : /\ Position(s, x) \in Int /\ Position(s, x) - 1 \in Nat
                         /\ s[Position(s, x)] = x
    BY PositionOK
<1>5. \A x \in Live(chapters) : chapters[x] \in Chapter
    BY <1>1 DEF Live, Graphs
<1>6. \A x \in Chapters :
        IF x \in Live(chapters) /\ x \in Ids(s)
        THEN /\ chapters'[x] \in Chapter /\ chapters'[x].title = chapters[x].title
             /\ chapters'[x].index = Position(s, x) - 1
        ELSE chapters'[x] = chapters[x]
    <2> SUFFICES ASSUME NEW x \in Chapters
                 PROVE  IF x \in Live(chapters) /\ x \in Ids(s)
                        THEN /\ chapters'[x] \in Chapter /\ chapters'[x].title = chapters[x].title
                             /\ chapters'[x].index = Position(s, x) - 1
                        ELSE chapters'[x] = chapters[x]
        OBVIOUS
    <2>1. CASE x \in Live(chapters) /\ x \in Ids(s)
        <3>1. chapters'[x] = [chapters[x] EXCEPT !.index = Position(s, x) - 1]
            BY <1>2, <2>1
        <3>2. Position(s, x) - 1 \in Nat \cup {NoIndex}
            BY <1>4, <2>1
        <3> QED BY <1>5, <2>1, <3>1, <3>2, IndexedChapter
    <2>2. CASE ~(x \in Live(chapters) /\ x \in Ids(s))
        BY <1>2, <2>2
    <2> QED BY <2>1, <2>2
<1>7. chapters' \in Graphs
    <2>1. \A x \in Chapters : chapters'[x] \in Chapter \cup {NoChapter}
        BY <1>1, <1>6 DEF Graphs
    <2> QED BY <1>2, <2>1 DEF Graphs
<1>8. \A x \in Live(chapters') : x \in Live(chapters) /\ chapters'[x].title = chapters[x].title
    BY <1>6 DEF Live
<1>9. UniqueTitles(chapters')
    BY <1>1, <1>8 DEF UniqueTitles
<1>10. "unlisted" \in gone' \/ IndexesApart(chapters')
    <2>1. CASE ~(Live(chapters) \subseteq Ids(s))
        BY <1>3, <2>1
    <2>2. CASE Live(chapters) \subseteq Ids(s)
        <3>1. \A x \in Live(chapters') : x \in Ids(s) /\ chapters'[x].index = Position(s, x) - 1
            BY <1>6, <1>8, <2>2 DEF Live
        <3>2. ASSUME NEW x \in Live(chapters'), NEW y \in Live(chapters'), x # y,
                     chapters'[x].index = chapters'[y].index
              PROVE  FALSE
            <4>1. Position(s, x) - 1 = Position(s, y) - 1
                BY <3>1, <3>2
            <4>2. Position(s, x) = Position(s, y)
                BY <1>4, <3>1, <4>1
            <4> QED BY <1>4, <3>1, <3>2, <4>2
        <3> QED BY <3>2 DEF IndexesApart
    <2> QED BY <2>1, <2>2
<1>11. CallsOK'
    BY DoneOK DEF Reorder, IndInv
<1>12. TypeOK'
    <2>1. gone' \subseteq {"unlisted", "adopted", "overlap", "crossed"}
        BY <1>3 DEF IndInv, TypeOK
    <2>2. UNCHANGED <<files, held, faults>>
        BY DEF Reorder
    <2> QED BY <1>7, <1>9, <2>1, <2>2 DEF IndInv, TypeOK, Graphs
<1>13. held' \in Seq(Models) /\ script' \in [Clients -> Seq(Requests)]
    BY DEF Reorder, IndInv
<1> QED BY <1>10, <1>11, <1>12, <1>13 DEF IndInv

\* A git command that fails is one of the bounded number.
LEMMA LockedOK ==
    ASSUME IndInv, NEW c \in Clients, Locked(c)
    PROVE  faults' \in 0 .. MaxFaults
BY NumberAssumption DEF Locked, IndInv, TypeOK

\* A file moved is a file.
LEMMA MvToOK ==
    ASSUME IndInv, NEW p \in DOMAIN files, NEW q, NEW title \in Title
    PROVE  /\ DOMAIN MvTo(p, q, title) = (DOMAIN files \ {p}) \cup {q}
           /\ \A r \in DOMAIN MvTo(p, q, title) : MvTo(p, q, title)[r] \in File
<1>1. \A r \in DOMAIN files : files[r] \in File
    BY DEF IndInv, TypeOK
<1>2. [files[p] EXCEPT !.title = title] \in File
    BY <1>1 DEF File
<1> QED BY <1>1, <1>2 DEF MvTo

LEMMA MaterializeKeeps ==
    ASSUME IndInv, NEW c \in Clients, Materialize(c)
    PROVE  IndInv'
<1> DEFINE path == Path([title |-> call[c].title, act |-> "", category |-> call[c].category])
           known == Tree(path) /\ files[path].tracked
           file == [id |-> call[c].id, title |-> call[c].title, tracked |-> known]
<1>1. /\ DOMAIN call[c] = Fields /\ Asked(call[c]) /\ call[c].op = "create"
      /\ call[c].id \in Chapters /\ call[c].title \in Title
    BY CallIs DEF Materialize, At, Asked, Local
<1>2. \A p \in DOMAIN files : files[p] \in File /\ files[p].tracked \in BOOLEAN
    BY DEF IndInv, TypeOK, File
<1>3. known \in BOOLEAN
    <2> HIDE DEF path
    <2> QED BY <1>2 DEF Tree
<1>4. files' = With(path, file)
    BY DEF Materialize
<1> HIDE DEF path, known
<1>5. file \in File
    BY <1>1, <1>3 DEF File
<1> HIDE DEF file
<1>6. \A p \in DOMAIN files' : files'[p] \in File
    BY <1>2, <1>4, <1>5 DEF With
<1>7. Local([call[c] EXCEPT !.at = "snap"])
    BY <1>1, SameLocals DEF Local
<1>8. CallsOK'
    BY <1>1, <1>7, StepOK DEF Materialize, IndInv
<1>9. faults' \in 0 .. MaxFaults
    BY DEF Materialize, IndInv, TypeOK
<1> QED BY <1>6, <1>8, <1>9, OtherStep DEF Materialize, Crossed

LEMMA SnapKeeps ==
    ASSUME IndInv, NEW c \in Clients, Snap(c)
    PROVE  IndInv'
<1> DEFINE added == [p \in DOMAIN files |-> [files[p] EXCEPT !.tracked = TRUE]]
<1>1. /\ files' \in {files, added}
      /\ \/ Done(c, "ok") /\ UNCHANGED faults
         \/ Locked(c) /\ Done(c, "error")
    BY DEF Snap
<1>2. \A p \in DOMAIN files : files[p] \in File /\ [files[p] EXCEPT !.tracked = TRUE] \in File
    BY DEF IndInv, TypeOK, File
<1>3. \A p \in DOMAIN files' : files'[p] \in File
    BY <1>1, <1>2
<1>4. faults' \in 0 .. MaxFaults
    BY <1>1, LockedOK DEF IndInv, TypeOK
<1>5. CallsOK'
    BY <1>1, DoneOK DEF IndInv
<1> QED BY <1>3, <1>4, <1>5, OtherStep DEF Snap

LEMMA RenameKeeps ==
    ASSUME IndInv, NEW c \in Clients, Rename(c)
    PROVE  IndInv'
<1> DEFINE old == Path(call[c].ch)
           new == Path([call[c].ch EXCEPT !.title = call[c].title])
<1>1. /\ DOMAIN call[c] = Fields /\ Asked(call[c]) /\ call[c].op = "update" /\ call[c].title \in Title
    BY CallIs DEF Rename, At, Asked, Local
<1>2. \/ (\E answer : Done(c, answer)) /\ files' = files /\ (faults' = faults \/ Locked(c))
      \/ Tree(old) /\ files' = MvTo(old, new, call[c].title) /\ Step(c, "snap") /\ UNCHANGED faults
    BY DEF Rename
<1> HIDE DEF old, new
<1>3. \A p \in DOMAIN files : files[p] \in File
    BY DEF IndInv, TypeOK
<1>4. \A p \in DOMAIN files' : files'[p] \in File
    BY <1>1, <1>2, <1>3, MvToOK DEF Tree
<1>5. faults' \in 0 .. MaxFaults
    BY <1>2, LockedOK DEF IndInv, TypeOK
<1>6. Local([call[c] EXCEPT !.at = "snap"])
    BY <1>1, SameLocals DEF Local
<1>7. CallsOK'
    BY <1>1, <1>2, <1>6, DoneOK, StepOK DEF IndInv
<1> QED BY <1>4, <1>5, <1>7, OtherStep DEF Rename, Crossed

LEMMA RemoveFileKeeps ==
    ASSUME IndInv, NEW c \in Clients, RemoveFile(c)
    PROVE  IndInv'
<1> DEFINE old == Path(call[c].ch)
<1>1. /\ DOMAIN call[c] = Fields /\ Asked(call[c]) /\ call[c].op = "delete" /\ call[c].ch \in Chapter
    BY CallIs DEF RemoveFile, At, Asked, Local
<1>2. /\ files' \in {files, Without(old)}
      /\ \/ Step(c, "drop") /\ UNCHANGED faults
         \/ Locked(c) /\ Done(c, "error")
    BY DEF RemoveFile
<1> HIDE DEF old
<1>3. \A p \in DOMAIN files : files[p] \in File
    BY DEF IndInv, TypeOK
<1>4. \A p \in DOMAIN files' : files'[p] \in File
    BY <1>2, <1>3 DEF Without
<1>5. faults' \in 0 .. MaxFaults
    BY <1>2, LockedOK DEF IndInv, TypeOK
<1>6. Local([call[c] EXCEPT !.at = "drop"])
    BY <1>1, SameLocals DEF Local
<1>7. CallsOK'
    BY <1>1, <1>2, <1>6, DoneOK, StepOK DEF IndInv
<1> QED BY <1>4, <1>5, <1>7, OtherStep DEF RemoveFile, Crossed

\* A renumbered title is a title: the number counts from start.
LEMMA NewTitleOK ==
    ASSUME IndInv, NEW s \in Listings(chapters), NEW start \in Nat, NEW x \in Ids(s)
    PROVE  NewTitle(s, x, start) \in Title /\ chapters[x] \in Chapter
<1>1. chapters \in Graphs
    BY DEF IndInv, TypeOK, Graphs
<1>2. s \in Seq(Chapters) /\ Ids(s) \subseteq Live(chapters)
    BY <1>1, ListingsOK
<1>3. chapters[x] \in Chapter /\ chapters[x].title \in Title /\ chapters[x].title.words \in Words
    BY <1>1, <1>2 DEF Live, Graphs, Chapter, Title
<1> DEFINE k == Position(Numbered(s), x)
<1>4. x \in Ids(Numbered(s)) => k \in Nat /\ k >= 1
    BY PositionOK
<1> HIDE DEF k
<1>5. x \in Ids(Numbered(s)) => start + k - 1 \in Nat
    BY <1>4
<1>6. CASE x \in Ids(Numbered(s))
    <2>1. NewTitle(s, x, start) = [words |-> chapters[x].title.words, letter |-> "", number |-> start + k - 1]
        BY <1>6 DEF NewTitle, k
    <2> DEFINE v == start + k - 1
               words == chapters[x].title.words
    <2>2. v \in Nat /\ words \in Words
        BY <1>3, <1>5, <1>6
    <2>3. NewTitle(s, x, start) = [words |-> words, letter |-> "", number |-> v]
        BY <2>1
    <2> HIDE DEF v, words
    <2>4. [words |-> words, letter |-> "", number |-> v] \in Title
        BY <2>2 DEF Title
    <2>5. NewTitle(s, x, start) \in Title
        BY <2>3, <2>4
    <2> QED BY <1>3, <2>5
<1>7. CASE x \notin Ids(Numbered(s))
    BY <1>3, <1>7 DEF NewTitle
<1> QED BY <1>3, <1>6, <1>7

LEMMA PlanKeeps ==
    ASSUME IndInv, NEW c \in Clients, Plan(c)
    PROVE  IndInv'
<1>1. DOMAIN call[c] = Fields /\ Asked(call[c]) /\ call[c].op = "renumber" /\ call[c].start \in Nat
    BY CallIs DEF Plan, At, Asked, Local
<1>2. CASE \E answer : Done(c, answer)
    <2>1. CallsOK'
        BY <1>2, DoneOK DEF IndInv
    <2> QED BY <2>1, CallStep DEF Plan
<1>3. CASE ~ \E answer : Done(c, answer)
    <2>1. PICK s \in Listings(chapters) :
            LET new == [x \in Ids(s) |-> NewTitle(s, x, call[c].start)]
                changing == Picked(Numbered(s), {x \in Ids(s) : new[x] # chapters[x].title})
            IN Goto(c, [call[c] EXCEPT
                          !.at = "retitle", !.members = s,
                          !.titles = [x \in Ids(changing) |-> new[x]],
                          !.moves = [i \in 1 .. Len(changing) |->
                            LET ch == chapters[changing[i]] IN
                            [old |-> Path(ch), new |-> Path([ch EXCEPT !.title = new[changing[i]]])]]])
        BY <1>3 DEF Plan
    <2> DEFINE new == [x \in Ids(s) |-> NewTitle(s, x, call[c].start)]
               changing == Picked(Numbered(s), {x \in Ids(s) : new[x] # chapters[x].title})
               titles == [x \in Ids(changing) |-> new[x]]
               move(i) == LET ch == chapters[changing[i]] IN
                          [old |-> Path(ch), new |-> Path([ch EXCEPT !.title = new[changing[i]]])]
               moves == [i \in 1 .. Len(changing) |-> move(i)]
               r == [call[c] EXCEPT !.at = "retitle", !.members = s, !.titles = titles, !.moves = moves]
    <2>2. Goto(c, r)
        BY <2>1
    <2>3. \A x \in Ids(s) : new[x] \in Title /\ chapters[x] \in Chapter
        BY <1>1, NewTitleOK
    <2>4. changing \in Seq(Chapters) /\ Ids(changing) \subseteq Ids(s)
        <3>1. chapters \in Graphs
            BY DEF IndInv, TypeOK, Graphs
        <3>2. s \in Seq(Chapters)
            BY <3>1, ListingsOK
        <3>3. Numbered(s) \in Seq(Chapters)
            BY <3>2, PickedProperties DEF Numbered
        <3> HIDE DEF new
        <3> QED BY <3>3, PickedProperties
    <2> HIDE DEF new, changing
    <2>5. \A x \in DOMAIN titles : titles[x] \in Title
        BY <2>3, <2>4
    <2>6. moves \in Seq(Moved)
        <3>1. Len(changing) \in Nat
            BY <2>4, LenProperties
        <3>2. ASSUME NEW i \in 1 .. Len(changing)
              PROVE  move(i) \in Moved
            <4> DEFINE ch == chapters[changing[i]]
                       t == new[changing[i]]
            <4>1. changing[i] \in Ids(s)
                BY <2>4 DEF Ids
            <4>2. ch \in Chapter /\ t \in Title
                BY <2>3, <4>1
            <4> HIDE DEF ch, t
            <4>3. Path(ch) \in Paths /\ Path([ch EXCEPT !.title = t]) \in Paths
                BY <4>2, PathOK
            <4> QED BY <4>3 DEF Moved, ch, t
        <3> HIDE DEF move
        <3>3. moves \in [1 .. Len(changing) -> Moved]
            BY <3>2
        <3> QED BY <3>1, <3>3, SeqDef
    <2> HIDE DEF titles, moves
    <2>7. /\ DOMAIN r = Fields /\ r.at = "retitle" /\ r.titles = titles /\ r.moves = moves
          /\ r.op = "renumber" /\ r.start = call[c].start
        BY <1>1 DEF Fields
    <2> HIDE DEF r
    <2>8. Asked(r) /\ Local(r)
        BY <1>1, <2>5, <2>6, <2>7 DEF Asked, Local
    <2>9. CallsOK'
        BY <2>2, <2>7, <2>8, GotoOK DEF CallOK, IndInv
    <2> QED BY <2>9, CallStep DEF Plan
<1> QED BY <1>2, <1>3

\* The titles change in one transaction, which the constraint refuses or not.
LEMMA RetitleKeeps ==
    ASSUME IndInv, NEW c \in Clients, Retitle(c)
    PROVE  IndInv'
<1> DEFINE titles == call[c].titles
           after  == [x \in Chapters |-> IF x \in Live(chapters) \cap DOMAIN titles
                        THEN [chapters[x] EXCEPT !.title = titles[x]] ELSE chapters[x]]
<1>1. /\ DOMAIN call[c] = Fields /\ Asked(call[c]) /\ call[c].moves \in Seq(Moved)
      /\ \A x \in DOMAIN titles : titles[x] \in Title
    BY CallIs DEF Retitle, At, Local
<1>2. \/ UniqueTitles(after) /\ chapters' = after /\ Step(c, "moves")
      \/ Done(c, "error") /\ UNCHANGED chapters
    BY DEF Retitle
<1>3. chapters \in Graphs
    BY DEF IndInv, TypeOK, Graphs
<1>4. \A x \in Live(chapters), t \in Title :
         /\ [chapters[x] EXCEPT !.title = t] \in Chapter
         /\ [chapters[x] EXCEPT !.title = t].index = chapters[x].index
    BY <1>3 DEF Live, Graphs, Chapter
<1>5. after \in Graphs
    BY <1>1, <1>3, <1>4 DEF Graphs
<1>6. \A x \in Live(after) : x \in Live(chapters) /\ after[x].index = chapters[x].index
    BY <1>1, <1>4 DEF Live
<1> HIDE DEF after
<1>7. IndexesApart(chapters) => IndexesApart(after)
    BY <1>6 DEF IndexesApart
<1>8. CallsOK'
    <2>1. Local([call[c] EXCEPT !.at = "moves"])
        BY <1>1, SameLocals DEF Local
    <2> QED BY <1>1, <1>2, <2>1, DoneOK, StepOK DEF IndInv
<1>9. chapters' \in Graphs /\ UniqueTitles(chapters') /\ (IndexesApart(chapters) => IndexesApart(chapters'))
    BY <1>2, <1>5, <1>7 DEF IndInv, TypeOK, UniqueTitles, IndexesApart, Live, Graphs
<1>10. UNCHANGED <<files, held, script, faults, gone>>
    BY DEF Retitle
<1>11. TypeOK'
    BY <1>9, <1>10 DEF IndInv, TypeOK, Graphs
<1> QED BY <1>8, <1>9, <1>10, <1>11 DEF IndInv

LEMMA MovesKeeps ==
    ASSUME IndInv, NEW c \in Clients, Moves(c)
    PROVE  IndInv'
<1> DEFINE moves == Picked(call[c].moves, {m \in Ids(call[c].moves) : Tree(m.old)})
           r == [call[c] EXCEPT !.at = "aside", !.moves = moves, !.next = 1]
<1>1. DOMAIN call[c] = Fields /\ Asked(call[c]) /\ call[c].moves \in Seq(Moved)
    BY CallIs DEF Moves, At, Local
<1>2. (\E answer : Done(c, answer)) \/ (Goto(c, r) /\ moves # << >>)
    BY DEF Moves
<1>3. moves \in Seq(Moved)
    BY <1>1, PickedProperties
<1> HIDE DEF moves
<1>4. moves # << >> => 1 \in 1 .. Len(moves)
    BY <1>3, EmptySeq, LenProperties
<1>5. DOMAIN r = Fields /\ r.at = "aside" /\ r.moves = moves /\ r.next = 1
    BY <1>1 DEF Fields
<1>6. \A f \in Fields \ {"at", "moves", "next"} : r[f] = call[c][f]
    BY <1>1
<1> HIDE DEF r
<1>7. Asked(r)
    BY <1>1, <1>6 DEF Asked, Fields
<1>8. moves # << >> => Local(r)
    BY <1>3, <1>4, <1>5 DEF Local
<1>9. CallsOK'
    BY <1>2, <1>5, <1>7, <1>8, DoneOK, GotoOK DEF CallOK, IndInv
<1> QED BY <1>9, CallStep DEF Moves

\* The request is the same wherever the passes are.
LEMMA SameRequest ==
    ASSUME NEW r, NEW t, Asked(r),
           t.op = r.op, t.id = r.id, t.after = r.after, t.title = r.title,
           t.category = r.category, t.start = r.start
    PROVE  Asked(t)
BY DEF Asked

\* A git mv of either pass, and the rollback it may begin.
LEMMA MvKeeps ==
    ASSUME IndInv, NEW c \in Clients, NEW p, NEW q, NEW title, Tree(p) => title \in Title,
           NEW n \in 0 .. Len(call[c].moves), NEW next \in {"final", "snap"},
           call[c].at \in {"aside", "final"}, Mv(c, p, q, title, n, next),
           Crossed(c), UNCHANGED <<chapters, held, script>>
    PROVE  IndInv'
<1>1. /\ DOMAIN call[c] = Fields /\ Asked(call[c]) /\ Local(call[c])
      /\ call[c].moves \in Seq(Moved) /\ call[c].next \in 1 .. Len(call[c].moves)
      /\ Len(call[c].moves) \in Nat
    BY CallIs, LenProperties DEF Local
<1> DEFINE back == [call[c] EXCEPT !.at = "undo", !.next = 1, !.moves = SubSeq(call[c].moves, 1, n)]
           on   == [call[c] EXCEPT !.next = call[c].next + 1]
           last == [call[c] EXCEPT !.next = 1, !.at = next]
<1>2. \/ Goto(c, back) /\ UNCHANGED files /\ (UNCHANGED faults \/ Locked(c))
      \/ /\ Tree(p) /\ files' = MvTo(p, q, title) /\ UNCHANGED faults
         /\ \/ call[c].next < Len(call[c].moves) /\ Goto(c, on)
            \/ Goto(c, last)
    BY DEF Mv, MvRefused, Rollback
<1>3. \A f \in DOMAIN files' : files'[f] \in File
    <2>1. \A f \in DOMAIN files : files[f] \in File
        BY DEF IndInv, TypeOK
    <2> QED BY <1>2, <2>1, MvToOK DEF Tree
<1>4. faults' \in 0 .. MaxFaults
    BY <1>2, LockedOK DEF IndInv, TypeOK
<1>5. CallOK(back)
    <2>1. SubSeq(call[c].moves, 1, n) \in Seq(Moved)
        BY <1>1, SubSeqProperties
    <2> DEFINE t == SubSeq(call[c].moves, 1, n)
    <2> HIDE DEF t
    <2>2. DOMAIN back = Fields /\ back.at = "undo" /\ back.next = 1 /\ back.moves = t
        BY <1>1 DEF Fields, t
    <2>3. /\ back.op = call[c].op /\ back.id = call[c].id /\ back.after = call[c].after
          /\ back.title = call[c].title /\ back.category = call[c].category
          /\ back.start = call[c].start
        BY <1>1 DEF Fields
    <2> HIDE DEF back
    <2>4. Asked(back)
        BY <1>1, <2>3, SameRequest
    <2> QED BY <2>1, <2>2, <2>4 DEF CallOK, Local, t
<1>6. call[c].next < Len(call[c].moves) => CallOK(on)
    <2>1. DOMAIN on = Fields /\ on.at = call[c].at /\ on.next = call[c].next + 1 /\ on.moves = call[c].moves
        BY <1>1 DEF Fields
    <2>2. /\ on.op = call[c].op /\ on.id = call[c].id /\ on.after = call[c].after
          /\ on.title = call[c].title /\ on.category = call[c].category
          /\ on.start = call[c].start
        BY <1>1 DEF Fields
    <2> HIDE DEF on
    <2>3. Asked(on)
        BY <1>1, <2>2, SameRequest
    <2>4. call[c].next < Len(call[c].moves) => on.next \in 1 .. Len(on.moves)
        BY <1>1, <2>1
    <2> QED BY <1>1, <2>1, <2>3, <2>4 DEF CallOK, Local
<1>7. CallOK(last)
    <2>1. DOMAIN last = Fields /\ last.at = next /\ last.next = 1 /\ last.moves = call[c].moves
        BY <1>1 DEF Fields
    <2>2. /\ last.op = call[c].op /\ last.id = call[c].id /\ last.after = call[c].after
          /\ last.title = call[c].title /\ last.category = call[c].category
          /\ last.start = call[c].start
        BY <1>1 DEF Fields
    <2> HIDE DEF last
    <2>3. Asked(last)
        BY <1>1, <2>2, SameRequest
    <2>4. 1 \in 1 .. Len(last.moves)
        BY <1>1, <2>1
    <2> QED BY <1>1, <2>1, <2>3, <2>4 DEF CallOK, Local
<1>8. CallsOK'
    <2> HIDE DEF back, on, last
    <2>1. CallsOK
        BY DEF IndInv
    <2> QED BY <1>2, <1>5, <1>6, <1>7, <2>1, GotoOK
<1> QED BY <1>3, <1>4, <1>8, OtherStep DEF Crossed

LEMMA AsideKeeps ==
    ASSUME IndInv, NEW c \in Clients, Aside(c)
    PROVE  IndInv'
<1> DEFINE i == call[c].next
           old == call[c].moves[i].old
           title == IF Tree(old) THEN files[old].title ELSE old.title
<1>1. call[c].at = "aside" /\ Mv(c, old, TempOf(c, i), title, i - 1, "final")
    BY DEF Aside, At
<1>2. i \in 1 .. Len(call[c].moves) /\ Len(call[c].moves) \in Nat
    BY <1>1, CallIs, LenProperties DEF Local
<1>3. i - 1 \in 0 .. Len(call[c].moves)
    <2> HIDE DEF i
    <2> QED BY <1>2
<1>4. Tree(old) => title \in Title
    BY DEF Tree, IndInv, TypeOK, File
<1> HIDE DEF title, old, i
<1>5. Crossed(c) /\ UNCHANGED <<chapters, held, script>>
    BY DEF Aside
<1> QED BY <1>1, <1>3, <1>4, <1>5, MvKeeps

LEMMA FinishKeeps ==
    ASSUME IndInv, NEW c \in Clients, Finish(c)
    PROVE  IndInv'
<1> DEFINE i == call[c].next
           new == call[c].moves[i].new
<1>1. call[c].at = "final" /\ Mv(c, TempOf(c, i), new, new.title, Len(call[c].moves), "snap")
    BY DEF Finish, At
<1>2. call[c].moves \in Seq(Moved) /\ i \in 1 .. Len(call[c].moves) /\ Len(call[c].moves) \in Nat
    BY <1>1, CallIs, LenProperties DEF Local
<1>3. new.title \in Title
    <2>1. call[c].moves[i] \in Moved
        <3> HIDE DEF i
        <3> QED BY <1>2, ElementOfSeq
    <2> QED BY <2>1 DEF Moved, Paths
<1>4. Len(call[c].moves) \in 0 .. Len(call[c].moves)
    BY <1>2
<1> HIDE DEF new, i
<1>5. Crossed(c) /\ UNCHANGED <<chapters, held, script>>
    BY DEF Finish
<1> QED BY <1>1, <1>3, <1>4, <1>5, MvKeeps

LEMMA UndoKeeps ==
    ASSUME IndInv, NEW c \in Clients, Undo(c)
    PROVE  IndInv'
<1> DEFINE i == call[c].next
           temp == TempOf(c, i)
           old == call[c].moves[i].old
           on == [call[c] EXCEPT !.next = i + 1]
<1>1. /\ DOMAIN call[c] = Fields /\ Asked(call[c]) /\ call[c].at = "undo"
      /\ call[c].moves \in Seq(Moved) /\ i \in Nat \ {0}
    BY CallIs DEF Undo, At, Local
<1>2. \/ Done(c, "error") /\ UNCHANGED files /\ (UNCHANGED faults \/ Locked(c))
      \/ Goto(c, on) /\ UNCHANGED <<files, faults>>
      \/ /\ Tree(temp) /\ files' = MvTo(temp, old, files[temp].title)
         /\ Goto(c, on) /\ UNCHANGED faults
    BY DEF Undo, Stranded
<1>3. \A f \in DOMAIN files' : files'[f] \in File
    <2>1. \A f \in DOMAIN files : files[f] \in File /\ files[f].title \in Title
        BY DEF IndInv, TypeOK, File
    <2> HIDE DEF temp, old
    <2> QED BY <1>2, <2>1, MvToOK DEF Tree
<1>4. faults' \in 0 .. MaxFaults
    BY <1>2, LockedOK DEF IndInv, TypeOK
<1>5. CallOK(on)
    <2>1. DOMAIN on = Fields /\ on.at = "undo" /\ on.next = i + 1 /\ on.moves = call[c].moves
        BY <1>1 DEF Fields
    <2>2. /\ on.op = call[c].op /\ on.id = call[c].id /\ on.after = call[c].after
          /\ on.title = call[c].title /\ on.category = call[c].category
          /\ on.start = call[c].start
        BY <1>1 DEF Fields
    <2> HIDE DEF on
    <2>3. Asked(on)
        BY <1>1, <2>2, SameRequest
    <2>4. on.next \in Nat \ {0}
        BY <1>1, <2>1
    <2> QED BY <1>1, <2>1, <2>3, <2>4 DEF CallOK, Local
<1>6. CallsOK'
    <2> HIDE DEF on
    <2> QED BY <1>2, <1>5, DoneOK, GotoOK DEF IndInv
<1> QED BY <1>3, <1>4, <1>6, OtherStep DEF Undo, Crossed

-----------------------------------------------------------------------------
(* The theorems. *)
-----------------------------------------------------------------------------
LEMMA NextKeeps ==
    ASSUME IndInv, [Next]_vars
    PROVE  IndInv'
<1>1. CASE UNCHANGED vars
    <2> USE <1>1 DEF vars
    <2>1. TypeOK'
        BY DEF IndInv, TypeOK, UniqueTitles, Live
    <2>2. CallsOK'
        BY DEF IndInv, CallsOK
    <2> QED BY <2>1, <2>2 DEF IndInv, IndexesApart, Live
<1>2. ASSUME NEW c \in Clients,
             \/ Begin(c) \/ Resolve(c) \/ Check(c) \/ Load(c)
             \/ Create(c) \/ Update(c) \/ Delete(c)
             \/ List(c) \/ Adopt(c) \/ Reorder(c)
             \/ Materialize(c) \/ Snap(c) \/ Rename(c) \/ RemoveFile(c)
             \/ Plan(c) \/ Retitle(c) \/ Moves(c) \/ Aside(c) \/ Finish(c) \/ Undo(c)
      PROVE  IndInv'
    <2>1. CASE Begin(c) \/ Resolve(c) \/ Check(c) \/ Load(c)
        BY <2>1, BeginKeeps, ResolveKeeps, CheckKeeps, LoadKeeps
    <2>2. CASE Create(c) \/ Update(c) \/ Delete(c)
        BY <2>2, CreateKeeps, UpdateKeeps, DeleteKeeps
    <2>3. CASE List(c) \/ Adopt(c) \/ Reorder(c)
        BY <2>3, ListKeeps, AdoptKeeps, ReorderKeeps
    <2>4. CASE Materialize(c) \/ Snap(c) \/ Rename(c) \/ RemoveFile(c)
        BY <2>4, MaterializeKeeps, SnapKeeps, RenameKeeps, RemoveFileKeeps
    <2>5. CASE Plan(c) \/ Retitle(c) \/ Moves(c)
        BY <2>5, PlanKeeps, RetitleKeeps, MovesKeeps
    <2>6. CASE Aside(c) \/ Finish(c) \/ Undo(c)
        BY <2>6, AsideKeeps, FinishKeeps, UndoKeeps
    <2> QED BY <1>2, <2>1, <2>2, <2>3, <2>4, <2>5, <2>6
<1> QED BY <1>1, <1>2 DEF Next

\* What every call relies on holds in every reachable state.
LEMMA IndInvHolds == Spec => []IndInv
<1>1. IndInv /\ [Next]_vars => IndInv'
    BY NextKeeps
<1> QED BY <1>1, InitIndInv, PTL DEF Spec

\* Types, and no two chapters of the document with one title in whatever
\* case, through calls that check a title in one query and write it in another.
THEOREM TypesHold == Spec => []TypeOK
<1>1. IndInv => TypeOK
    BY DEF IndInv
<1> QED BY <1>1, IndInvHolds, PTL

\* Two chapters never share an index, however many clients create, move,
\* update and delete at once, until a move writes an order that misses a
\* chapter (DistinctIndexes).
THEOREM IndexesStayApart == Spec => []DistinctIndexes
<1>1. IndInv => DistinctIndexes
    BY DEF IndInv, DistinctIndexes
<1> QED BY <1>1, IndInvHolds, PTL

\* Temporary names are nobody's path, and those of a rollback are all different.
LEMMA TempsDiffer ==
    ASSUME NEW p \in Paths, NEW q \in Paths, NEW i \in Nat \ {0}, NEW j \in Nat \ {0}
    PROVE  Temp(i, p) # q /\ (Temp(i, p) = Temp(j, q) => i = j /\ p = q)
<1>1. Temp(i, p).temp = i /\ Temp(j, q).temp = j /\ p.temp = 0 /\ q.temp = 0
    BY DEF Temp, Paths
<1>2. ASSUME Temp(i, p) = Temp(j, q)
      PROVE  p = q
    <2>1. Temp(i, p).place = p.place /\ Temp(i, p).title = p.title
        BY DEF Temp, Paths
    <2>2. Temp(j, q).place = q.place /\ Temp(j, q).title = q.title
        BY DEF Temp, Paths
    <2>3. p.place = q.place /\ p.title = q.title
        BY <1>2, <2>1, <2>2
    <2> QED BY <1>1, <2>3 DEF Paths
<1> QED BY <1>1, <1>2

StepOf(d) == \/ Begin(d) \/ Resolve(d) \/ Check(d) \/ Load(d)
             \/ Create(d) \/ Update(d) \/ Delete(d)
             \/ List(d) \/ Adopt(d) \/ Reorder(d)
             \/ Materialize(d) \/ Snap(d) \/ Rename(d) \/ RemoveFile(d)
             \/ Plan(d) \/ Retitle(d) \/ Moves(d) \/ Aside(d) \/ Finish(d) \/ Undo(d)

\* A call changes by its own steps only.
LEMMA OnlyItself ==
    ASSUME IndInv, NEW c \in Clients, NEW d \in Clients, StepOf(d), call'[c] # call[c]
    PROVE  c = d
<1>1. call = [x \in Clients |-> call[x]]
    BY DEF IndInv, CallsOK
<1>2. ASSUME NEW r, Goto(d, r)
      PROVE  c = d
    BY <1>1, <1>2 DEF Goto
<1>3. CASE Begin(d) \/ Resolve(d) \/ Check(d) \/ Load(d)
    BY <1>2, <1>3 DEF Begin, Resolve, Check, Load, Done, Step
<1>4. CASE Create(d) \/ Update(d) \/ Delete(d) \/ Adopt(d)
    BY <1>2, <1>4 DEF Create, Update, Delete, Adopt, Commit, Done, Step
<1>5. CASE List(d) \/ Reorder(d) \/ Plan(d)
    BY <1>2, <1>5 DEF List, Reorder, Plan, Done
<1>6. CASE Materialize(d) \/ Snap(d) \/ Rename(d) \/ RemoveFile(d)
    BY <1>2, <1>6 DEF Materialize, Snap, Rename, RemoveFile, Done, Step
<1>7. CASE Retitle(d) \/ Moves(d)
    BY <1>2, <1>7 DEF Retitle, Moves, Done, Step
<1>8. CASE Aside(d) \/ Finish(d) \/ Undo(d)
    BY <1>2, <1>8 DEF Aside, Finish, Undo, Mv, Rollback, Done
<1> QED BY <1>3, <1>4, <1>5, <1>6, <1>7, <1>8 DEF StepOf

LEMMA OwnSteps ==
    ASSUME IndInv, NEW c \in Clients, Next, call'[c] # call[c]
    PROVE  StepOf(c)
<1>1. PICK d \in Clients : StepOf(d)
    BY DEF Next, StepOf
<1> QED BY <1>1, OnlyItself

-----------------------------------------------------------------------------
(* One call at a time: where every file is while the call runs. *)
-----------------------------------------------------------------------------
FilesThere(g, f) ==
    \A p \in DOMAIN f : LET x == f[p].id IN
      x \in Live(g) /\ p = Path(g[x]) /\ f[p].title = g[x].title
Tracked(f) == \A p \in DOMAIN f : f[p].tracked
FilesOK(g, f) == FilesThere(g, f) /\ Tracked(f)

\* An update that has committed the new title r.title: the file of its
\* chapter is at the old path, any other where its chapter says.
Renaming(r, g, f) ==
    /\ Tracked(f)
    /\ r.id \in Live(g) /\ g[r.id].title = r.title /\ r.title # r.ch.title
    /\ Path(g[r.id]) = Path([r.ch EXCEPT !.title = r.title])
    /\ \A p \in DOMAIN f : LET x == f[p].id IN
         /\ x \in Live(g)
         /\ IF x = r.id THEN p = Path(r.ch)
            ELSE p = Path(g[x]) /\ f[p].title = g[x].title
    /\ Path(r.ch) \in DOMAIN f => f[Path(r.ch)].id = r.id

\* A renumber that has planned: s lists the chapters whose titles change.
Planned(r, g) ==
    \E s \in Seq(Chapters) :
      /\ NoRepeats(s) /\ Ids(s) = DOMAIN r.titles /\ Ids(s) \subseteq Live(g)
      /\ Len(r.moves) = Len(s)
      /\ \A i \in 1 .. Len(s) :
           /\ r.moves[i].old = Path(g[s[i]])
           /\ r.moves[i].new = Path([g[s[i]] EXCEPT !.title = r.titles[s[i]]])

\* Renumbered titles in the graph: the file that move i will bring to its new
\* path is at at[i] so far, any other file where its chapter says.
Between(moves, at, g, f) ==
    /\ Tracked(f)
    /\ \A i, j \in 1 .. Len(moves) : moves[i].new = moves[j].new => i = j
    /\ \A p \in DOMAIN f : LET x == f[p].id IN
         /\ x \in Live(g)
         /\ \/ \E i \in 1 .. Len(moves) : moves[i].new = Path(g[x]) /\ p = at[i]
            \/ /\ \A i \in 1 .. Len(moves) : moves[i].new # Path(g[x])
               /\ p = Path(g[x]) /\ f[p].title = g[x].title
    /\ \A i \in 1 .. Len(moves) :
         at[i] \in DOMAIN f => Path(g[f[at[i]].id]) = moves[i].new

\* The files of the moves: at their old paths; aside, up to the next one; at
\* the new paths, up to the next one.
AtOld(r)   == [i \in 1 .. Len(r.moves) |-> r.moves[i].old]
AtAside(r) == [i \in 1 .. Len(r.moves) |->
                 IF i < r.next THEN Temp(i, r.moves[i].old) ELSE r.moves[i].old]
AtFinal(r) == [i \in 1 .. Len(r.moves) |->
                 IF i < r.next THEN r.moves[i].new ELSE Temp(i, r.moves[i].old)]
AllThere(at, f) == \A i \in DOMAIN at : at[i] \in DOMAIN f

\* Where the files are while the call r runs, and what it knows of its chapter.
Stage(r, g, f, s) ==
    /\ r.at \notin {"rename", "snap", "moves", "aside", "final"} => FilesOK(g, f)
    /\ r.at = "snap" => FilesThere(g, f)
    /\ r.at = "rename" => Renaming(r, g, f)
    /\ r.at = "retitle" => Planned(r, g)
    /\ r.at = "moves" => Between(r.moves, AtOld(r), g, f)
    /\ r.at = "aside" => Between(r.moves, AtAside(r), g, f) /\ AllThere(AtAside(r), f)
    /\ r.at = "final" => /\ Between(r.moves, AtFinal(r), g, f) /\ AllThere(AtFinal(r), f)
                         /\ \A i \in 1 .. r.next - 1 : f[r.moves[i].new].title = r.moves[i].new.title
    /\ r.at # "undo"
    /\ r.at \in {"resolve", "check", "commit"} /\ r.op = "create" =>
         /\ r.id \notin Live(g)
         /\ \A d \in Clients : \A i \in 1 .. Len(s[d]) :
              s[d][i].op = "create" => s[d][i].id # r.id
    /\ r.at = "commit" =>
         \A x \in Live(g) \ IF r.op = "update" THEN {r.id} ELSE {} : Key(g[x].title) # Key(r.title)
    /\ r.at = "materialize" =>
         /\ r.id \in Live(g) /\ \A p \in DOMAIN f : f[p].id # r.id
         /\ Path(g[r.id]) = Path([title |-> r.title, act |-> "", category |-> r.category])
         /\ g[r.id].title = r.title
    /\ \/ r.at \in {"check", "commit"} /\ r.op = "update"
       \/ r.at \in {"remove", "drop"}
       => r.id \in Live(g) /\ r.ch = g[r.id]
    /\ r.at = "drop" => \A p \in DOMAIN f : f[p].id # r.id

Serial ==
    /\ \A c, d \in Busy : c = d
    /\ held = << >>
    /\ Fresh(script, chapters)
    /\ Busy = {} => FilesOK(chapters, files)
    /\ \A c \in Busy : Stage(call[c], chapters, files, script)

SerialInv == gone = {} => Serial

\* The only call: nobody meets it at the index lock.
LEMMA AloneOK ==
    ASSUME Serial, NEW c \in Clients, call[c].at # "idle"
    PROVE  /\ Busy = {c} /\ Stage(call[c], chapters, files, script) /\ ~Locked(c)
           /\ held = << >> /\ Fresh(script, chapters)
<1>1. c \in Busy
    BY DEF Busy, At
<1>2. Busy = {c}
    BY <1>1 DEF Serial
<1>3. ~Locked(c)
    <2> SUFFICES ASSUME NEW d \in Clients \ {c}, call[d].at \in GitSteps
                 PROVE  FALSE
        BY DEF Locked
    <2>1. d \in Busy
        BY DEF Busy, At, GitSteps
    <2> QED BY <1>2, <2>1
<1> QED BY <1>1, <1>2, <1>3 DEF Serial

\* A step of the only call that ends it leaves every file in its place; one
\* that goes on leaves the files where the next step expects them.
LEMMA SerialStep ==
    ASSUME CallsOK, Serial, NEW c \in Clients, call[c].at # "idle", NEW r, Goto(c, r),
           held' = << >>, Fresh(script, chapters)',
           r.at = "idle" => FilesOK(chapters', files'),
           r.at # "idle" => Stage(r, chapters', files', script')
    PROVE  Serial'
<1>1. Busy = {c}
    BY AloneOK
<1>2. \A d \in Clients : call'[d] = IF d = c THEN r ELSE call[d]
    BY DEF CallsOK, Goto
<1>3. Busy' = IF r.at = "idle" THEN {} ELSE {c}
    BY <1>1, <1>2 DEF Busy, At
<1>4. CASE r.at = "idle"
    BY <1>3, <1>4 DEF Serial
<1>5. CASE r.at # "idle"
    <2>1. call'[c] = r
        BY <1>2
    <2> QED BY <1>3, <1>5, <2>1 DEF Serial
<1> QED BY <1>4, <1>5

\* Chapters with unique titles have paths of their own.
LEMMA SamePath ==
    ASSUME NEW g \in Graphs, UniqueTitles(g), NEW x \in Live(g), NEW y \in Live(g),
           g[x].title = g[y].title \/ Path(g[x]) = Path(g[y])
    PROVE  x = y
<1>1. g[x].title = g[y].title
    BY DEF Path
<1> QED BY <1>1 DEF UniqueTitles

LEMMA FreshStays ==
    ASSUME NEW s, NEW g, NEW h, Fresh(s, g), Live(h) \subseteq Live(g)
    PROVE  Fresh(s, h)
BY DEF Fresh

\* A call that ends with the files in their places.
LEMMA SerialDone ==
    ASSUME CallsOK, Serial, NEW c \in Clients, call[c].at # "idle", NEW answer, Done(c, answer),
           held' = << >>, Fresh(script, chapters)', FilesOK(chapters', files')
    PROVE  Serial'
<1> DEFINE r == [Idle EXCEPT !.op = call[c].op, !.answer = answer]
<1>1. Goto(c, r)
    BY DEF Done
<1>2. r.at = "idle"
    BY DEF Idle
<1> HIDE DEF r
<1> QED BY <1>1, <1>2, SerialStep

\* A call that only reads, or only writes files, keeps ids fresh.
LEMMA FreshSame ==
    ASSUME Serial, UNCHANGED <<script, chapters>>
    PROVE  Fresh(script, chapters)'
BY DEF Serial, Fresh, Live

\* What the only call knows when it takes a step.
LEMMA StageIs ==
    ASSUME IndInv, Serial, NEW c \in Clients, NEW at, at # "idle", At(c, at)
    PROVE  /\ call[c].at = at /\ call[c].at # "idle" /\ CallsOK
           /\ DOMAIN call[c] = Fields /\ Asked(call[c]) /\ Local(call[c])
           /\ Stage(call[c], chapters, files, script) /\ ~Locked(c) /\ held = << >>
           /\ chapters \in Graphs /\ UniqueTitles(chapters)
<1>1. call[c].at = at /\ CallsOK /\ chapters \in Graphs /\ UniqueTitles(chapters)
    BY DEF At, IndInv, TypeOK, Graphs
<1> QED BY <1>1, AloneOK, CallIs

LEMMA InitSerial ==
    ASSUME Init
    PROVE  Serial
<1>1. PICK d \in Documents :
        /\ chapters = d.chapters
        /\ files = [p \in {Path(d.chapters[x]) : x \in d.opened} |->
                      LET x == CHOOSE x \in d.opened : p = Path(d.chapters[x])
                      IN  [id |-> x, title |-> d.chapters[x].title, tracked |-> TRUE]]
    BY DEF Init
<1>2. script \in Scripts /\ held = << >> /\ call = [c \in Clients |-> Idle]
    BY DEF Init
<1>3. d.opened \subseteq Live(chapters)
    BY <1>1, DocumentsAssumption
<1>4. ASSUME NEW p \in DOMAIN files
      PROVE  /\ files[p].id \in Live(chapters) /\ p = Path(chapters[files[p].id])
             /\ files[p].title = chapters[files[p].id].title /\ files[p].tracked
    <2> DEFINE x == CHOOSE x \in d.opened : p = Path(d.chapters[x])
    <2>1. \E y \in d.opened : p = Path(d.chapters[y])
        BY <1>1, <1>4
    <2>2. x \in d.opened /\ p = Path(d.chapters[x])
        BY <2>1
    <2>3. files[p] = [id |-> x, title |-> d.chapters[x].title, tracked |-> TRUE]
        BY <1>1, <1>4
    <2> HIDE DEF x
    <2> QED BY <1>1, <1>3, <2>2, <2>3
<1>5. FilesOK(chapters, files)
    BY <1>4 DEF FilesOK, FilesThere, Tracked
<1>6. Busy = {}
    BY <1>2 DEF Busy, At, Idle
<1>7. Fresh(script, chapters)
    BY <1>1, <1>2, FreshAssumption
<1> QED BY <1>2, <1>5, <1>6, <1>7 DEF Serial

LEMMA BeginSerial ==
    ASSUME IndInv, Serial, NEW c \in Clients, Begin(c), gone' = {}
    PROVE  Serial'
<1> DEFINE do == Head(script[c])
           at == CASE do.op = "create" -> "resolve" [] do.op = "renumber" -> "plan" [] OTHER -> "load"
           V(f) == IF f = "at" THEN at ELSE IF f \in DOMAIN do THEN do[f] ELSE Idle[f]
           r  == [f \in DOMAIN Idle |-> V(f)]
<1>1. Busy = {} /\ UNCHANGED <<chapters, files, held>>
    BY DEF Begin
<1>2. Goto(c, r) /\ script' = [script EXCEPT ![c] = Tail(script[c])] /\ script[c] # << >>
    BY DEF Begin
<1>3. script[c] \in Seq(Requests) /\ script \in [Clients -> Seq(Requests)]
    BY DEF IndInv
<1>4. do \in Requests /\ do = script[c][1] /\ Len(script[c]) \in Nat /\ 1 \in 1 .. Len(script[c])
    BY <1>2, <1>3, EmptySeq, LenProperties
<1>5. /\ Len(Tail(script[c])) = Len(script[c]) - 1
      /\ \A i \in 1 .. Len(Tail(script[c])) : Tail(script[c])[i] = script[c][i + 1]
    BY <1>2, <1>3, HeadTailProperties
<1>6. \A d \in Clients : \A i \in 1 .. Len(script'[d]) :
        LET k == IF d = c THEN i + 1 ELSE i IN
        k \in 1 .. Len(script[d]) /\ script'[d][i] = script[d][k] /\ (d = c => k # 1)
    <2> SUFFICES ASSUME NEW d \in Clients, NEW i \in 1 .. Len(script'[d])
                 PROVE  LET k == IF d = c THEN i + 1 ELSE i IN
                        k \in 1 .. Len(script[d]) /\ script'[d][i] = script[d][k] /\ (d = c => k # 1)
        OBVIOUS
    <2>1. CASE d = c
        <3>1. script'[d] = Tail(script[c])
            BY <1>2, <1>3, <2>1
        <3>2. i \in Int /\ 1 <= i /\ i <= Len(script[c]) - 1
            BY <1>4, <1>5, <3>1
        <3>3. i + 1 \in 1 .. Len(script[c]) /\ i + 1 # 1
            BY <1>4, <3>2
        <3> QED BY <1>5, <2>1, <3>1, <3>3
    <2>2. CASE d # c
        BY <1>2, <1>3, <2>2
    <2> QED BY <2>1, <2>2
<1>7. Fresh(script, chapters)
    BY DEF Serial
<1>8. Fresh(script, chapters)'
    <2>1. Fresh(script', chapters)
        <3> SUFFICES ASSUME NEW a \in Clients, NEW b \in Clients,
                            NEW i \in 1 .. Len(script'[a]), NEW j \in 1 .. Len(script'[b]),
                            script'[a][i].op = "create"
                     PROVE  /\ script'[a][i].id \notin Live(chapters)
                            /\ script'[b][j].op = "create" /\ script'[b][j].id = script'[a][i].id
                               => a = b /\ i = j
            BY DEF Fresh
        <3> DEFINE k == IF a = c THEN i + 1 ELSE i
                   l == IF b = c THEN j + 1 ELSE j
        <3>1. k \in 1 .. Len(script[a]) /\ script'[a][i] = script[a][k]
            BY <1>6
        <3>2. l \in 1 .. Len(script[b]) /\ script'[b][j] = script[b][l]
            BY <1>6
        <3>3. a = b /\ k = l => i = j
            OBVIOUS
        <3> HIDE DEF k, l
        <3> QED BY <1>7, <3>1, <3>2, <3>3 DEF Fresh
    <2> QED BY <1>1, <2>1 DEF Fresh, Live
<1>9. do.op = "create" => \A d \in Clients : \A i \in 1 .. Len(script'[d]) :
                            script'[d][i].op = "create" => script'[d][i].id # do.id
    <2> SUFFICES ASSUME do.op = "create", NEW d \in Clients, NEW i \in 1 .. Len(script'[d]),
                        script'[d][i].op = "create", script'[d][i].id = do.id
                 PROVE  FALSE
        OBVIOUS
    <2> DEFINE k == IF d = c THEN i + 1 ELSE i
    <2>1. k \in 1 .. Len(script[d]) /\ script'[d][i] = script[d][k] /\ (d = c => k # 1)
        BY <1>6
    <2> HIDE DEF k, do
    <2> QED BY <1>4, <1>7, <2>1 DEF Fresh
<1>10. do.op = "create" => do.id \notin Live(chapters)
    <2> HIDE DEF do
    <2> QED BY <1>4, <1>7 DEF Fresh
<1> HIDE DEF do
<1>11. DOMAIN r = Fields /\ r.at = at
    <2>1. DOMAIN r = Fields /\ "at" \in DOMAIN Idle /\ V("at") = at
        BY IdleFields DEF Fields
    <2> HIDE DEF V, at
    <2> QED BY <2>1
<1>12. r.op = do.op /\ (do.op = "create" => r.id = do.id)
    <2>1. "op" \in DOMAIN do /\ (do.op = "create" => "id" \in DOMAIN do)
        BY <1>4 DEF Requests
    <2>2. "op" \in DOMAIN Idle /\ "id" \in DOMAIN Idle
        BY IdleFields DEF Fields
    <2>3. V("op") = do.op /\ (do.op = "create" => V("id") = do.id)
        BY <2>1
    <2> HIDE DEF V
    <2> QED BY <2>2, <2>3
<1>13. at \in {"resolve", "plan", "load"} /\ (at = "resolve" => do.op = "create")
    OBVIOUS
<1> HIDE DEF r, at
<1>14. FilesOK(chapters, files)
    BY <1>1 DEF Serial
<1>15. Stage(r, chapters, files, script')
    BY <1>9, <1>10, <1>11, <1>12, <1>13, <1>14 DEF Stage
<1>16. Busy' = {c} /\ call'[c] = r
    <2>1. \A d \in Clients : call'[d] = IF d = c THEN r ELSE call[d]
        BY <1>2 DEF Goto, IndInv, CallsOK
    <2>2. r.at # "idle"
        BY <1>11, <1>13
    <2> QED BY <1>1, <2>1, <2>2 DEF Busy, At
<1> QED BY <1>1, <1>8, <1>15, <1>16 DEF Serial

LEMMA ResolveSerial ==
    ASSUME IndInv, Serial, NEW c \in Clients, Resolve(c)
    PROVE  Serial'
<1> DEFINE after == call[c].after
           seen == IF after = NoChapter THEN 0 ELSE Listed(after)
           i == IndexAfter(after)
           r == [call[c] EXCEPT !.at = "check", !.index = i, !.seen = seen]
<1>1. /\ call[c].at = "resolve" /\ CallsOK /\ DOMAIN call[c] = Fields /\ Local(call[c])
      /\ Stage(call[c], chapters, files, script)
    BY StageIs DEF Resolve
<1>2. UNCHANGED <<chapters, files, held, script>> /\ held = << >>
    BY DEF Resolve, Serial
<1>3. FilesOK(chapters', files') /\ Fresh(script, chapters)'
    BY <1>1, <1>2, FreshSame DEF Stage
<1>4. Done(c, "no such chapter") \/ Goto(c, r)
    BY DEF Resolve
<1> HIDE DEF i, seen
<1>5. r.at = "check" /\ r.op = call[c].op /\ r.id = call[c].id /\ call[c].op = "create"
    BY <1>1 DEF Fields, Local
<1> HIDE DEF r
<1>6. Stage(r, chapters, files, script)
    BY <1>1, <1>5 DEF Stage
<1>7. CASE Done(c, "no such chapter")
    BY <1>1, <1>2, <1>3, <1>7, SerialDone
<1>8. CASE Goto(c, r)
    BY <1>1, <1>2, <1>3, <1>5, <1>6, <1>8, SerialStep
<1> QED BY <1>4, <1>7, <1>8

LEMMA CheckSerial ==
    ASSUME IndInv, Serial, NEW c \in Clients, Check(c)
    PROVE  Serial'
<1> DEFINE others == Live(chapters) \ IF call[c].op = "update" THEN {call[c].id} ELSE {}
           r == [call[c] EXCEPT !.at = "commit"]
<1>1. /\ call[c].at = "check" /\ CallsOK /\ DOMAIN call[c] = Fields /\ Local(call[c])
      /\ Stage(call[c], chapters, files, script)
    BY StageIs DEF Check
<1>2. UNCHANGED <<chapters, files, held, script>> /\ held = << >>
    BY DEF Check, Serial
<1>3. FilesOK(chapters', files') /\ Fresh(script, chapters)'
    BY <1>1, <1>2, FreshSame DEF Stage
<1>4. Done(c, "duplicate") \/ (~TitleTaken(call[c].title, others) /\ Goto(c, r))
    BY DEF Check, Step
<1>5. /\ r.at = "commit" /\ r.op = call[c].op /\ r.id = call[c].id /\ r.title = call[c].title
      /\ r.ch = call[c].ch
    BY <1>1 DEF Fields
<1> HIDE DEF r
<1>6. ~TitleTaken(call[c].title, others) => Stage(r, chapters, files, script)
    BY <1>1, <1>5 DEF Stage, TitleTaken
<1>7. CASE Done(c, "duplicate")
    BY <1>1, <1>2, <1>3, <1>7, SerialDone
<1>8. CASE ~TitleTaken(call[c].title, others) /\ Goto(c, r)
    BY <1>1, <1>2, <1>3, <1>5, <1>6, <1>8, SerialStep
<1> QED BY <1>4, <1>7, <1>8

LEMMA LoadSerial ==
    ASSUME IndInv, Serial, NEW c \in Clients, Load(c)
    PROVE  Serial'
<1> DEFINE ch == chapters[call[c].id]
           at == CASE call[c].op = "update" -> "check"
                   [] call[c].op = "move"   -> "list"
                   [] call[c].op = "delete" -> "remove"
           r == [call[c] EXCEPT !.ch = ch, !.at = at]
<1>1. /\ call[c].at = "load" /\ CallsOK /\ DOMAIN call[c] = Fields /\ Asked(call[c]) /\ Local(call[c])
      /\ Stage(call[c], chapters, files, script)
    BY StageIs DEF Load
<1>2. UNCHANGED <<chapters, files, held, script>> /\ held = << >>
    BY DEF Load, Serial
<1>3. FilesOK(chapters', files') /\ Fresh(script, chapters)'
    BY <1>1, <1>2, FreshSame DEF Stage
<1>4. \/ Done(c, "no such chapter") \/ Done(c, "ok")
      \/ Goto(c, r) /\ ch # NoChapter
    BY DEF Load
<1>5. call[c].op \in {"move", "update", "delete"} /\ call[c].id \in Chapters
    BY <1>1 DEF Local, Asked
<1>6. \/ call[c].op = "update" /\ at = "check"
      \/ call[c].op = "move" /\ at = "list"
      \/ call[c].op = "delete" /\ at = "remove"
    BY <1>5
<1> HIDE DEF at
<1>7. r.at = at /\ r.op = call[c].op /\ r.id = call[c].id /\ r.ch = chapters[r.id]
    BY <1>1 DEF Fields
<1>8. ch # NoChapter => r.id \in Live(chapters)
    BY <1>5, <1>7 DEF Live
<1> HIDE DEF r, ch
<1>9. ch # NoChapter => Stage(r, chapters, files, script)
    BY <1>1, <1>6, <1>7, <1>8 DEF Stage
<1>10. CASE Done(c, "no such chapter") \/ Done(c, "ok")
    BY <1>1, <1>2, <1>3, <1>10, SerialDone
<1>11. CASE Goto(c, r) /\ ch # NoChapter
    BY <1>1, <1>2, <1>3, <1>6, <1>7, <1>9, <1>11, SerialStep
<1> QED BY <1>4, <1>10, <1>11

\* A chapter with another index has the same file.
LEMMA IndexedFile ==
    ASSUME NEW ch \in Chapter, NEW i \in Nat \cup {NoIndex}
    PROVE  /\ [ch EXCEPT !.index = i] # NoChapter
           /\ [ch EXCEPT !.index = i].title = ch.title
           /\ Path([ch EXCEPT !.index = i]) = Path(ch)
<1>1. [ch EXCEPT !.index = i] \in Chapter /\ [ch EXCEPT !.index = i].title = ch.title
    BY IndexedChapter
<1>2. Place([ch EXCEPT !.index = i]) = Place(ch)
    BY DEF Chapter, Place
<1> QED BY <1>1, <1>2, NoneAssumption DEF Path

\* Files stay where they belong when a chapter keeps its path.
LEMMA SameFiles ==
    ASSUME NEW g, NEW h, NEW f,
           \A p \in DOMAIN f : f[p].id \in Live(g) =>
              /\ f[p].id \in Live(h)
              /\ Path(h[f[p].id]) = Path(g[f[p].id]) /\ h[f[p].id].title = g[f[p].id].title
    PROVE  FilesOK(g, f) => FilesOK(h, f)
BY DEF FilesOK, FilesThere

\* A list of one model.
LEMMA SavedOne ==
    ASSUME NEW r, NEW w, NEW kind
    PROVE  Saved(r, <<w>>, kind) = IF w.kind = kind THEN Save(r, w) ELSE r
<1> DEFINE s == <<w>>
<1>1. s \in Seq({w}) /\ Len(s) = 1 /\ s[1] = w
    OBVIOUS
<1> HIDE DEF s
<1>2. PICK f : /\ f[0] = r /\ f[Len(s)] = Saved(r, s, kind)
               /\ \A i \in 1 .. Len(s) :
                    f[i] = IF s[i].kind = kind THEN Save(f[i - 1], s[i]) ELSE f[i - 1]
    BY <1>1, SavedIsChain
<1>3. 1 \in 1 .. Len(s) /\ 1 - 1 = 0
    BY <1>1
<1>4. f[1] = IF s[1].kind = kind THEN Save(f[0], s[1]) ELSE f[0]
    BY <1>2, <1>3
<1> QED BY <1>1, <1>2, <1>4 DEF s

\* A commit with nothing else registered writes its model, when the titles
\* stay unique.
LEMMA CommitAlone ==
    ASSUME held = << >>, NEW c \in Clients, NEW w, w.kind \in {"new", "changed", "deleted"},
           NEW step, Commit(c, w, step), UniqueTitles(Written(chapters, w))
    PROVE  /\ chapters' = Written(chapters, w) /\ held' = << >>
           /\ IF step = "done" THEN Done(c, "ok") ELSE Step(c, step)
<1> DEFINE start  == [graph |-> chapters, ok |-> TRUE]
           end    == [graph |-> Written(chapters, w), ok |-> TRUE]
           first  == Saved(start, <<w>>, "new")
           second == Saved(first, <<w>>, "changed")
           outcome == Saved(second, <<w>>, "deleted")
<1>0. \A r, kind : Saved(r, <<w>>, kind) = IF w.kind = kind THEN Save(r, w) ELSE r
    BY SavedOne
<1>1. Append(held, w) = <<w>>
    OBVIOUS
<1>2. Save(start, w) = end
    BY DEF Save
<1> HIDE DEF start
<1>3. first = IF w.kind = "new" THEN Save(start, w) ELSE start
    BY <1>0
<1> HIDE DEF first
<1>4. second = IF w.kind = "changed" THEN Save(first, w) ELSE first
    BY <1>0
<1> HIDE DEF second
<1>5. outcome = IF w.kind = "deleted" THEN Save(second, w) ELSE second
    BY <1>0
<1>6. outcome = end
    <2> HIDE DEF outcome, end
    <2> QED BY <1>2, <1>3, <1>4, <1>5
<1>7. /\ chapters' = outcome.graph
      /\ IF outcome.ok
         THEN held' = << >> /\ (IF step = "done" THEN Done(c, "ok") ELSE Step(c, step))
         ELSE held' = Append(held, w) /\ Done(c, "error")
    BY <1>1 DEF Commit, outcome, second, first, start
<1>8. outcome.graph = Written(chapters, w) /\ outcome.ok = TRUE
    BY <1>6
<1> HIDE DEF outcome
<1> QED BY <1>7, <1>8

\* The new chapter is in the graph, and its file is not there yet.
LEMMA CreateSerial ==
    ASSUME IndInv, Serial, NEW c \in Clients, Create(c)
    PROVE  Serial'
<1> DEFINE t == call[c].title
           ch == [title |-> t, act |-> "", category |-> call[c].category, index |-> call[c].index]
           id == call[c].id
           w == WriteOf(c, "new", ch)
           h == Created(chapters, w)
           r == [call[c] EXCEPT !.at = "materialize"]
<1>1. /\ call[c].at = "commit" /\ CallsOK /\ DOMAIN call[c] = Fields
      /\ Asked(call[c]) /\ Local(call[c]) /\ call[c].op = "create"
      /\ Stage(call[c], chapters, files, script) /\ held = << >>
      /\ chapters \in Graphs /\ UniqueTitles(chapters)
    BY StageIs DEF Create
<1>2. id \in Chapters /\ t \in Title /\ call[c].category \in {"Chapter", "Character"} /\ call[c].index \in Nat
    BY <1>1 DEF Asked, Local
<1>3. ch \in Chapter /\ ch.title = t /\ ch.index \in Nat
    BY <1>2, ActsAssumption DEF Chapter
<1>4. Path(ch) = Path([title |-> t, act |-> "", category |-> call[c].category])
    BY DEF Path, Place
<1> HIDE DEF ch, t
<1>5. w.kind = "new" /\ w.id = id /\ w.ch = ch
    BY DEF WriteOf
<1>6. Commit(c, w, "materialize") /\ UNCHANGED <<files, script, faults, gone>>
    BY DEF Create, ch, t
<1> HIDE DEF w
<1>7. /\ FilesOK(chapters, files) /\ id \notin Live(chapters)
      /\ \A d \in Clients : \A i \in 1 .. Len(script[d]) :
           script[d][i].op = "create" => script[d][i].id # id
      /\ \A x \in Live(chapters) : Key(chapters[x].title) # Key(t)
    BY <1>1 DEF Stage, t
<1>8. ASSUME NEW x \in Live(chapters)
      PROVE  /\ x # id /\ h[x] # NoChapter /\ h[x].title = chapters[x].title
             /\ Path(h[x]) = Path(chapters[x])
    <2>1. x # id /\ x \in Chapters /\ chapters[x] \in Chapter /\ chapters[x] # NoChapter
        BY <1>1, <1>7 DEF Live, Graphs
    <2>2. h[x] = chapters[x] \/ (chapters[x].index >= ch.index /\ h[x] = [chapters[x] EXCEPT !.index = chapters[x].index + 1])
        BY <1>5, <2>1 DEF Created
    <2>3. chapters[x].index \in Nat \cup {NoIndex}
        BY <2>1 DEF Chapter
    <2>4. chapters[x].index >= ch.index => chapters[x].index + 1 \in Nat
        BY <1>3, <2>3, NumberAssumption
    <2> HIDE DEF h
    <2> QED BY <2>1, <2>2, <2>4, IndexedFile
<1>9. h[id] = ch /\ ch # NoChapter
    BY <1>2, <1>3, <1>5, NoneAssumption DEF Created
<1>10. Live(h) = Live(chapters) \cup {id}
    <2>1. \A x \in Chapters \ {id} : chapters[x] = NoChapter => h[x] = NoChapter
        BY <1>5 DEF Created, Live
    <2> HIDE DEF h
    <2> QED BY <1>2, <1>8, <1>9, <2>1 DEF Live
<1>11. Written(chapters, w) = h
    BY <1>5 DEF Written
<1> HIDE DEF h
<1>12. UniqueTitles(h)
    BY <1>1, <1>3, <1>7, <1>8, <1>9, <1>10 DEF UniqueTitles
<1>13. chapters' = h /\ held' = << >> /\ Step(c, "materialize")
    BY <1>1, <1>5, <1>6, <1>11, <1>12, CommitAlone
<1>14. Goto(c, r)
    BY <1>13 DEF Step
<1>15. /\ r.at = "materialize" /\ r.id = id /\ r.title = t /\ r.category = call[c].category
    BY <1>1 DEF Fields, t
<1> HIDE DEF r, id
<1>16. FilesOK(h, files)
    BY <1>7, <1>8, <1>10, SameFiles
<1>17. \A p \in DOMAIN files : files[p].id # id
    BY <1>7 DEF FilesOK, FilesThere
<1>18. Stage(r, h, files, script)
    BY <1>3, <1>4, <1>9, <1>10, <1>15, <1>16, <1>17 DEF Stage
<1>19. Fresh(script, h)
    BY <1>1, <1>7, <1>10, AloneOK DEF Fresh
<1>20. Fresh(script, chapters)'
    BY <1>6, <1>13, <1>19 DEF Fresh, Live
<1> QED BY <1>1, <1>6, <1>13, <1>14, <1>15, <1>18, <1>20, SerialStep


\* A title that stays ends the call; a new one has its file to rename.
LEMMA UpdateSerial ==
    ASSUME IndInv, Serial, NEW c \in Clients, Update(c)
    PROVE  Serial'
<1> DEFINE t == call[c].title
           id == call[c].id
           old == call[c].ch
           ch == [old EXCEPT !.title = t]
           i == chapters[id].index
           now == [ch EXCEPT !.index = i]
           w == WriteOf(c, "changed", ch)
           h == [chapters EXCEPT ![id] = now]
           step == IF t = old.title THEN "done" ELSE "rename"
           r == [call[c] EXCEPT !.at = "rename"]
<1>1. /\ call[c].at = "commit" /\ CallsOK /\ DOMAIN call[c] = Fields
      /\ Asked(call[c]) /\ Local(call[c]) /\ call[c].op = "update"
      /\ Stage(call[c], chapters, files, script) /\ held = << >>
      /\ chapters \in Graphs /\ UniqueTitles(chapters)
    BY StageIs DEF Update
<1>2. id \in Chapters /\ t \in Title
    BY <1>1 DEF Asked
<1>3. /\ FilesOK(chapters, files) /\ id \in Live(chapters) /\ old = chapters[id]
      /\ \A x \in Live(chapters) \ {id} : Key(chapters[x].title) # Key(t)
    BY <1>1 DEF Stage
<1>4. old \in Chapter /\ i \in Nat \cup {NoIndex}
    BY <1>1, <1>2, <1>3 DEF Live, Graphs, Chapter
<1>5. ch \in Chapter /\ ch.title = t
    BY <1>2, <1>4, PathOK
<1>6. t = old.title => Path(ch) = Path(old)
    BY <1>2, <1>4, <1>5, PathOK DEF Path
<1>7. Commit(c, w, step) /\ UNCHANGED <<files, script, faults, gone>>
    BY DEF Update
<1>8. w.kind = "changed" /\ w.id = id /\ w.ch = ch
    BY DEF WriteOf
<1> HIDE DEF w, ch
<1>9. now # NoChapter /\ now.title = t /\ Path(now) = Path(ch)
    BY <1>4, <1>5, IndexedFile
<1>10. Written(chapters, w) = h
    BY <1>3, <1>8 DEF Written, Changed
<1> HIDE DEF now, step
<1>11. \A x \in Chapters : h[x] = IF x = id THEN now ELSE chapters[x]
    BY <1>1 DEF Graphs
<1> HIDE DEF h
<1>12. Live(h) = Live(chapters)
    BY <1>3, <1>9, <1>11 DEF Live
<1> HIDE DEF t, id, old
<1>13. UniqueTitles(h)
    <2>1. \A x \in Live(h) : x \in Live(chapters) /\ x \in Chapters
        BY <1>12 DEF Live
    <2> QED BY <1>1, <1>3, <1>9, <1>11, <2>1 DEF UniqueTitles
<1>14. chapters' = h /\ held' = << >> /\ IF step = "done" THEN Done(c, "ok") ELSE Step(c, step)
    BY <1>1, <1>7, <1>8, <1>10, <1>13, CommitAlone
<1>15. Fresh(script, chapters)'
    <2>1. Fresh(script, h)
        BY <1>1, <1>12, AloneOK DEF Fresh
    <2> QED BY <1>7, <1>14, <2>1 DEF Fresh, Live
<1>16. \A p \in DOMAIN files : /\ files[p].id \in Live(chapters) /\ files[p].id \in Chapters
                               /\ p = Path(chapters[files[p].id])
                               /\ files[p].title = chapters[files[p].id].title /\ files[p].tracked
    BY <1>3 DEF FilesOK, FilesThere, Tracked, Live
<1>17. CASE t = old.title
    <2>1. \A p \in DOMAIN files : /\ files[p].id \in Live(h)
                                  /\ p = Path(h[files[p].id])
                                  /\ files[p].title = h[files[p].id].title
        BY <1>3, <1>6, <1>9, <1>11, <1>12, <1>16, <1>17
    <2>2. FilesOK(h, files)
        BY <1>16, <2>1 DEF FilesOK, FilesThere, Tracked
    <2>3. Done(c, "ok")
        BY <1>14, <1>17 DEF step
    <2> QED BY <1>1, <1>7, <1>14, <1>15, <2>2, <2>3, SerialDone
<1>18. CASE t # old.title
    <2>1. r.at = "rename" /\ r.id = id /\ r.title = t /\ r.ch = old
        BY <1>1 DEF Fields, id, t, old
    <2>2. Goto(c, r)
        BY <1>14, <1>18 DEF Step, step
    <2> HIDE DEF r
    <2>3. Path(h[id]) = Path([r.ch EXCEPT !.title = r.title]) /\ h[id].title = t
        BY <1>2, <1>9, <1>11, <2>1 DEF ch, id
    <2>4. \A p \in DOMAIN files : LET x == files[p].id IN
            /\ x \in Live(h)
            /\ IF x = id THEN p = Path(old) ELSE p = Path(h[x]) /\ files[p].title = h[x].title
        BY <1>3, <1>11, <1>12, <1>16
    <2>5. Path(old) \in DOMAIN files => files[Path(old)].id = id
        BY <1>1, <1>3, <1>16, SamePath
    <2>6. Renaming(r, h, files)
        BY <1>3, <1>12, <1>16, <1>18, <2>1, <2>3, <2>4, <2>5 DEF Renaming, Tracked
    <2>7. Stage(r, h, files, script)
        BY <2>1, <2>6 DEF Stage
    <2> QED BY <1>1, <1>7, <1>14, <1>15, <2>1, <2>2, <2>7, SerialStep
<1> QED BY <1>17, <1>18

\* The file went first, so no other file loses its chapter.
LEMMA DeleteSerial ==
    ASSUME IndInv, Serial, NEW c \in Clients, Delete(c)
    PROVE  Serial'
<1> DEFINE id == call[c].id
           w == WriteOf(c, "deleted", call[c].ch)
           h == [chapters EXCEPT ![id] = NoChapter]
<1>1. /\ call[c].at = "drop" /\ CallsOK
      /\ Stage(call[c], chapters, files, script) /\ held = << >>
      /\ chapters \in Graphs /\ UniqueTitles(chapters)
    BY StageIs DEF Delete
<1>2. FilesOK(chapters, files) /\ \A p \in DOMAIN files : files[p].id # id
    BY <1>1 DEF Stage
<1>3. Commit(c, w, "done") /\ UNCHANGED <<files, script, faults, gone>>
    BY DEF Delete
<1>4. w.kind = "deleted" /\ w.id = id
    BY DEF WriteOf
<1> HIDE DEF w
<1>5. Written(chapters, w) = h
    BY <1>4 DEF Written
<1> HIDE DEF id
<1>6. \A x \in Chapters : x # id => h[x] = chapters[x]
    BY <1>1 DEF Graphs
<1>7. Live(h) \subseteq Live(chapters) /\ \A x \in Live(h) : h[x] = chapters[x]
    BY <1>1 DEF Live, Graphs
<1> HIDE DEF h
<1>8. UniqueTitles(h)
    BY <1>1, <1>7 DEF UniqueTitles
<1>9. chapters' = h /\ held' = << >> /\ Done(c, "ok")
    BY <1>1, <1>3, <1>4, <1>5, <1>8, CommitAlone
<1>10. FilesOK(h, files)
    <2>1. \A p \in DOMAIN files : files[p].id \in Live(chapters) =>
            files[p].id \in Live(h) /\ h[files[p].id] = chapters[files[p].id]
        BY <1>2, <1>6 DEF Live
    <2> QED BY <1>2, <2>1, SameFiles
<1>11. Fresh(script, chapters)'
    <2>1. Fresh(script, h)
        BY <1>1, <1>7, AloneOK, FreshStays
    <2> QED BY <1>3, <1>9, <2>1 DEF Fresh, Live
<1> QED BY <1>1, <1>3, <1>9, <1>10, <1>11, SerialDone

LEMMA ListSerial ==
    ASSUME IndInv, Serial, NEW c \in Clients, List(c)
    PROVE  Serial'
<1>1. /\ call[c].at = "list" /\ CallsOK /\ DOMAIN call[c] = Fields /\ Local(call[c])
      /\ Stage(call[c], chapters, files, script)
    BY StageIs DEF List
<1>2. UNCHANGED <<chapters, files, held, script>> /\ held = << >>
    BY DEF List, Serial
<1>3. FilesOK(chapters', files') /\ Fresh(script, chapters)'
    BY <1>1, <1>2, FreshSame DEF Stage
<1>4. \/ \E answer : Done(c, answer)
      \/ \E at \in {"adopt", "reorder"} : \E act, order, s :
           Goto(c, [call[c] EXCEPT !.at = at, !.ch.act = act, !.order = order, !.members = s])
    BY DEF List
<1>5. CASE \E answer : Done(c, answer)
    BY <1>1, <1>2, <1>3, <1>5, SerialDone
<1>6. ASSUME NEW at \in {"adopt", "reorder"}, NEW act, NEW order, NEW s,
             Goto(c, [call[c] EXCEPT !.at = at, !.ch.act = act, !.order = order, !.members = s])
      PROVE  Serial'
    <2> DEFINE r == [call[c] EXCEPT !.at = at, !.ch.act = act, !.order = order, !.members = s]
    <2>1. r.at = at
        BY <1>1 DEF Fields
    <2>2. Goto(c, r)
        BY <1>6
    <2> HIDE DEF r
    <2>3. Stage(r, chapters, files, script)
        BY <1>1, <2>1 DEF Stage
    <2> QED BY <1>1, <1>2, <1>3, <2>1, <2>2, <2>3, SerialStep
<1> QED BY <1>4, <1>5, <1>6

\* A new order renames nothing.
LEMMA ReorderSerial ==
    ASSUME IndInv, Serial, NEW c \in Clients, Reorder(c)
    PROVE  Serial'
<1> DEFINE s == call[c].order
<1>1. /\ call[c].at = "reorder" /\ CallsOK
      /\ Stage(call[c], chapters, files, script) /\ chapters \in Graphs
    BY StageIs DEF Reorder
<1>2. chapters' = [x \in Chapters |->
         IF x \in Live(chapters) /\ x \in Ids(s)
         THEN [chapters[x] EXCEPT !.index = Position(s, x) - 1] ELSE chapters[x]]
    BY DEF Reorder
<1> HIDE DEF s
<1>3. \A x \in Ids(s) : Position(s, x) - 1 \in Nat
    BY PositionOK
<1>4. \A x \in Live(chapters) :
        chapters'[x] # NoChapter /\ chapters'[x].title = chapters[x].title /\ Path(chapters'[x]) = Path(chapters[x])
    <2> SUFFICES ASSUME NEW x \in Live(chapters)
                 PROVE  chapters'[x] # NoChapter /\ chapters'[x].title = chapters[x].title /\ Path(chapters'[x]) = Path(chapters[x])
        OBVIOUS
    <2>1. x \in Chapters /\ chapters[x] \in Chapter /\ chapters[x] # NoChapter
        BY <1>1 DEF Live, Graphs
    <2>2. CASE x \in Ids(s)
        <3>1. chapters'[x] = [chapters[x] EXCEPT !.index = Position(s, x) - 1]
            BY <1>2, <2>1, <2>2
        <3>2. Position(s, x) - 1 \in Nat \cup {NoIndex}
            BY <1>3, <2>2
        <3> QED BY <2>1, <3>1, <3>2, IndexedFile
    <2>3. CASE x \notin Ids(s)
        BY <1>2, <2>1, <2>3
    <2> QED BY <2>2, <2>3
<1>5. Live(chapters') = Live(chapters)
    BY <1>2, <1>4 DEF Live
<1>6. UNCHANGED <<files, held, script>> /\ held = << >> /\ Done(c, "ok")
    BY DEF Reorder, Serial
<1>7. FilesOK(chapters', files)
    <2>1. FilesOK(chapters, files)
        BY <1>1 DEF Stage
    <2> QED BY <1>4, <1>5, <2>1, SameFiles
<1>8. Fresh(script, chapters)'
    <2>1. Fresh(script, chapters)
        BY DEF Serial
    <2> QED BY <1>5, <1>6, <2>1 DEF Fresh, Live
<1> QED BY <1>1, <1>6, <1>7, <1>8, SerialDone


\* A call that goes on with the variables it has, in the same graph.
LEMMA SerialGoesOn ==
    ASSUME CallsOK, Serial, NEW c \in Clients, call[c].at # "idle", NEW step, step # "idle",
           Step(c, step), UNCHANGED <<chapters, held, script>>,
           [call[c] EXCEPT !.at = step].at = step,
           Stage([call[c] EXCEPT !.at = step], chapters, files', script)
    PROVE  Serial'
<1> DEFINE r == [call[c] EXCEPT !.at = step]
<1>1. Goto(c, r) /\ r.at = step
    BY DEF Step
<1>2. held' = << >> /\ Fresh(script, chapters)'
    BY FreshSame DEF Serial
<1>3. Stage(r, chapters', files', script')
    OBVIOUS
<1> HIDE DEF r
<1> QED BY <1>1, <1>2, <1>3, SerialStep

\* A call that ends, in the same graph, with every file in its place.
LEMMA SerialEnds ==
    ASSUME CallsOK, Serial, NEW c \in Clients, call[c].at # "idle", NEW answer, Done(c, answer),
           UNCHANGED <<chapters, held, script>>, FilesOK(chapters, files')
    PROVE  Serial'
<1>1. held' = << >> /\ Fresh(script, chapters)' /\ FilesOK(chapters', files')
    BY FreshSame DEF Serial
<1> QED BY <1>1, SerialDone

\* The new chapter's file, at a path where there is none.
LEMMA MaterializeSerial ==
    ASSUME IndInv, Serial, NEW c \in Clients, Materialize(c)
    PROVE  Serial'
<1> DEFINE path == Path([title |-> call[c].title, act |-> "", category |-> call[c].category])
           file == [id |-> call[c].id, title |-> call[c].title,
                    tracked |-> Tree(path) /\ files[path].tracked]
           r == [call[c] EXCEPT !.at = "snap"]
<1>1. /\ call[c].at = "materialize" /\ CallsOK /\ DOMAIN call[c] = Fields
      /\ Stage(call[c], chapters, files, script)
    BY StageIs DEF Materialize
<1>2. /\ FilesOK(chapters, files) /\ call[c].id \in Live(chapters)
      /\ Path(chapters[call[c].id]) = path /\ chapters[call[c].id].title = call[c].title
    BY <1>1 DEF Stage
<1>3. files' = With(path, file) /\ Step(c, "snap") /\ UNCHANGED <<chapters, held, script>>
    BY DEF Materialize
<1>4. file.id = call[c].id /\ file.title = call[c].title
    OBVIOUS
<1> HIDE DEF path, file
<1>5. FilesThere(chapters, files')
    BY <1>2, <1>3, <1>4 DEF With, FilesOK, FilesThere
<1>6. r.at = "snap"
    BY <1>1 DEF Fields
<1>7. Stage(r, chapters, files', script)
    <2> HIDE DEF r
    <2> QED BY <1>5, <1>6 DEF Stage
<1> QED BY <1>1, <1>3, <1>6, <1>7, SerialGoesOn

\* The git commit that ends a call.
LEMMA SnapSerial ==
    ASSUME IndInv, Serial, NEW c \in Clients, Snap(c)
    PROVE  Serial'
<1> DEFINE added == [p \in DOMAIN files |-> [files[p] EXCEPT !.tracked = TRUE]]
<1>1. /\ call[c].at = "snap" /\ CallsOK /\ ~Locked(c) /\ Stage(call[c], chapters, files, script)
    BY StageIs DEF Snap
<1>2. files' = added /\ Done(c, "ok") /\ UNCHANGED <<chapters, held, script>>
    BY <1>1 DEF Snap
<1>3. FilesThere(chapters, files)
    BY <1>1 DEF Stage
<1>4. ASSUME NEW p \in DOMAIN files
      PROVE  added[p].id = files[p].id /\ added[p].title = files[p].title /\ added[p].tracked
    BY DEF IndInv, TypeOK, File
<1>5. DOMAIN added = DOMAIN files
    OBVIOUS
<1> HIDE DEF added
<1>6. FilesOK(chapters, files')
    BY <1>2, <1>3, <1>4, <1>5 DEF FilesOK, FilesThere, Tracked
<1> QED BY <1>1, <1>2, <1>6, SerialEnds

\* The file of a retitled chapter moves to the path its chapter has now.
LEMMA RenameSerial ==
    ASSUME IndInv, Serial, NEW c \in Clients, Rename(c)
    PROVE  Serial'
<1> DEFINE old == Path(call[c].ch)
           new == Path([call[c].ch EXCEPT !.title = call[c].title])
           id == call[c].id
           t == call[c].title
           r == [call[c] EXCEPT !.at = "snap"]
<1>1. /\ call[c].at = "rename" /\ CallsOK /\ DOMAIN call[c] = Fields /\ Asked(call[c]) /\ Local(call[c])
      /\ ~Locked(c) /\ Stage(call[c], chapters, files, script)
      /\ chapters \in Graphs /\ UniqueTitles(chapters)
    BY StageIs DEF Rename
<1>2. call[c].ch \in Chapter /\ t \in Title
    BY <1>1 DEF Asked, Local
<1>3. Renaming(call[c], chapters, files)
    BY <1>1 DEF Stage
<1>4. /\ Tracked(files) /\ id \in Live(chapters) /\ chapters[id].title = t
      /\ Path(chapters[id]) = new /\ t # call[c].ch.title
      /\ Tree(old) => files[old].id = id
    BY <1>3 DEF Renaming, Tree
<1>5. \A p \in DOMAIN files :
        /\ files[p].id \in Live(chapters)
        /\ files[p].id = id => p = old
        /\ files[p].id # id => p = Path(chapters[files[p].id]) /\ files[p].title = chapters[files[p].id].title
    BY <1>3 DEF Renaming
<1>6. old # new
    <2> DEFINE ch  == call[c].ch
               ch2 == [ch EXCEPT !.title = t]
    <2>1. ch \in Chapter /\ ch2 \in Chapter /\ ch2.title = t
        <3> HIDE DEF ch, t
        <3> QED BY <1>2, PathOK DEF ch
    <2>2. old = Path(ch) /\ new = Path(ch2)
        OBVIOUS
    <2> HIDE DEF ch, ch2, old, new
    <2>3. old.title = ch.title /\ new.title = t
        BY <2>1, <2>2, PathOK
    <2> QED BY <1>4, <2>3 DEF ch
<1>7. UNCHANGED <<chapters, held, script>>
    BY DEF Rename
<1> HIDE DEF id, t
<1>8. CASE ~Tree(old)
    <2>1. Done(c, "ok") /\ files' = files
        BY <1>8 DEF Rename
    <2> HIDE DEF old, new
    <2>2. FilesOK(chapters, files)
        BY <1>4, <1>5, <1>8 DEF FilesOK, FilesThere, Tree
    <2> QED BY <1>1, <1>7, <2>1, <2>2, SerialEnds
<1>9. CASE Tree(old)
    <2> HIDE DEF old, new
    <2>1. ~Tree(new)
        <3> SUFFICES ASSUME new \in DOMAIN files
                     PROVE  FALSE
            BY DEF Tree
        <3>1. files[new].id # id
            BY <1>5, <1>6
        <3>2. new = Path(chapters[files[new].id]) /\ files[new].id \in Live(chapters)
            BY <1>5, <3>1
        <3> QED BY <1>1, <1>4, <3>1, <3>2, SamePath
    <2>2. ~MvRefused(old, new)
        BY <1>4, <1>9, <2>1 DEF MvRefused, Tracked, Tree
    <2>3. files' = MvTo(old, new, t) /\ Step(c, "snap")
        BY <1>1, <1>9, <2>2 DEF Rename, old, new, t
    <2>4. DOMAIN files' = (DOMAIN files \ {old}) \cup {new}
        BY <2>3 DEF MvTo
    <2>5. files[old] \in File
        BY <1>9 DEF IndInv, TypeOK, Tree
    <2>6. files'[new].id = id /\ files'[new].title = t
        <3>1. files'[new] = [files[old] EXCEPT !.title = t]
            BY <2>3 DEF MvTo
        <3> QED BY <1>4, <1>9, <2>5, <3>1 DEF File
    <2>7. \A p \in DOMAIN files' : p # new => files'[p] = files[p] /\ p \in DOMAIN files /\ files[p].id # id
        BY <1>5, <2>3, <2>4 DEF MvTo
    <2>8. FilesThere(chapters, files')
        BY <1>4, <1>5, <2>6, <2>7 DEF FilesThere
    <2>9. r.at = "snap"
        BY <1>1 DEF Fields
    <2>10. Stage(r, chapters, files', script)
        <3> HIDE DEF r
        <3> QED BY <2>8, <2>9 DEF Stage
    <2> QED BY <1>1, <1>7, <2>3, <2>9, <2>10, SerialGoesOn
<1> QED BY <1>8, <1>9

\* No file of the chapter is left when it goes.
LEMMA RemoveFileSerial ==
    ASSUME IndInv, Serial, NEW c \in Clients, RemoveFile(c)
    PROVE  Serial'
<1> DEFINE old == Path(call[c].ch)
           id == call[c].id
           r == [call[c] EXCEPT !.at = "drop"]
<1>1. /\ call[c].at = "remove" /\ CallsOK /\ DOMAIN call[c] = Fields /\ ~Locked(c)
      /\ Stage(call[c], chapters, files, script)
    BY StageIs DEF RemoveFile
<1>2. FilesOK(chapters, files) /\ id \in Live(chapters) /\ call[c].ch = chapters[id]
    BY <1>1 DEF Stage
<1>3. files' = Without(old) /\ Step(c, "drop") /\ UNCHANGED <<chapters, held, script>>
    BY <1>1 DEF RemoveFile
<1>4. FilesOK(chapters, files') /\ \A p \in DOMAIN files' : files'[p].id # id
    <2>1. \A p \in DOMAIN files' : p # old /\ p \in DOMAIN files /\ files'[p] = files[p]
        BY <1>3 DEF Without
    <2> QED BY <1>2, <2>1 DEF FilesOK, FilesThere, Tracked
<1>5. r.at = "drop" /\ r.id = id /\ r.ch = call[c].ch
    BY <1>1 DEF Fields
<1>6. Stage(r, chapters, files', script)
    <2> HIDE DEF r
    <2> QED BY <1>2, <1>4, <1>5 DEF Stage
<1> QED BY <1>1, <1>3, <1>5, <1>6, SerialGoesOn


\* A renumber plans on the titles and the files as they are.
LEMMA PlanSerial ==
    ASSUME IndInv, Serial, NEW c \in Clients, Plan(c)
    PROVE  Serial'
<1>1. /\ call[c].at = "plan" /\ CallsOK /\ DOMAIN call[c] = Fields /\ Asked(call[c]) /\ Local(call[c])
      /\ Stage(call[c], chapters, files, script) /\ chapters \in Graphs
    BY StageIs DEF Plan
<1>2. UNCHANGED <<chapters, files, held, script>> /\ held = << >>
    BY DEF Plan, Serial
<1>3. FilesOK(chapters, files') /\ FilesOK(chapters', files') /\ Fresh(script, chapters)'
    BY <1>1, <1>2, FreshSame DEF Stage
<1>4. CASE \E answer : Done(c, answer)
    BY <1>1, <1>2, <1>3, <1>4, SerialEnds
<1>5. CASE ~ \E answer : Done(c, answer)
    <2>1. PICK s \in Listings(chapters) :
            LET new == [x \in Ids(s) |-> NewTitle(s, x, call[c].start)]
                changing == Picked(Numbered(s), {x \in Ids(s) : new[x] # chapters[x].title})
            IN Goto(c, [call[c] EXCEPT
                          !.at = "retitle", !.members = s,
                          !.titles = [x \in Ids(changing) |-> new[x]],
                          !.moves = [i \in 1 .. Len(changing) |->
                            LET ch == chapters[changing[i]] IN
                            [old |-> Path(ch), new |-> Path([ch EXCEPT !.title = new[changing[i]]])]]])
        BY <1>5 DEF Plan
    <2> DEFINE new == [x \in Ids(s) |-> NewTitle(s, x, call[c].start)]
               changing == Picked(Numbered(s), {x \in Ids(s) : new[x] # chapters[x].title})
               titles == [x \in Ids(changing) |-> new[x]]
               moves == [i \in 1 .. Len(changing) |->
                          LET ch == chapters[changing[i]] IN
                          [old |-> Path(ch), new |-> Path([ch EXCEPT !.title = new[changing[i]]])]]
               r == [call[c] EXCEPT !.at = "retitle", !.members = s, !.titles = titles, !.moves = moves]
    <2>2. Goto(c, r)
        BY <2>1
    <2>3. /\ changing \in Seq(Chapters) /\ Ids(changing) \subseteq Live(chapters) /\ NoRepeats(changing)
        <3>1. s \in Seq(Chapters) /\ Ids(s) \subseteq Live(chapters) /\ NoRepeats(s)
            BY <1>1, ListingsOK
        <3>2. Numbered(s) \in Seq(Chapters) /\ NoRepeats(Numbered(s)) /\ Ids(Numbered(s)) \subseteq Ids(s)
            BY <3>1, PickedProperties DEF Numbered
        <3> HIDE DEF new
        <3> QED BY <3>1, <3>2, PickedProperties
    <2> HIDE DEF new, changing
    <2>4. Len(changing) \in Nat /\ \A i \in 1 .. Len(changing) : changing[i] \in Ids(changing)
        BY <2>3, LenProperties DEF Ids
    <2>5. DOMAIN titles = Ids(changing) /\ \A i \in 1 .. Len(changing) : titles[changing[i]] = new[changing[i]]
        BY <2>4
    <2>6. /\ Len(moves) = Len(changing)
          /\ \A i \in 1 .. Len(changing) :
               /\ moves[i].old = Path(chapters[changing[i]])
               /\ moves[i].new = Path([chapters[changing[i]] EXCEPT !.title = titles[changing[i]]])
        BY <2>4, <2>5
    <2> HIDE DEF titles, moves
    <2>7. r.at = "retitle" /\ r.titles = titles /\ r.moves = moves /\ r.op = call[c].op
        BY <1>1 DEF Fields
    <2> HIDE DEF r
    <2>8. Planned(r, chapters)
        BY <2>3, <2>5, <2>6, <2>7 DEF Planned
    <2>9. Stage(r, chapters', files', script')
        BY <1>1, <1>2, <2>7, <2>8 DEF Stage
    <2> QED BY <1>1, <1>2, <1>3, <2>2, <2>7, <2>9, SerialStep
<1> QED BY <1>4, <1>5

\* The new titles are in the graph: each file of a move is at its old path.
LEMMA RetitleSerial ==
    ASSUME IndInv, Serial, NEW c \in Clients, Retitle(c)
    PROVE  Serial'
<1> DEFINE titles == call[c].titles
           moves == call[c].moves
           h == [x \in Chapters |-> IF x \in Live(chapters) \cap DOMAIN titles
                        THEN [chapters[x] EXCEPT !.title = titles[x]] ELSE chapters[x]]
           r == [call[c] EXCEPT !.at = "moves"]
<1>1. /\ call[c].at = "retitle" /\ CallsOK /\ DOMAIN call[c] = Fields /\ Local(call[c])
      /\ Stage(call[c], chapters, files, script)
      /\ chapters \in Graphs /\ UniqueTitles(chapters)
    BY StageIs DEF Retitle
<1>2. FilesOK(chapters, files) /\ Planned(call[c], chapters)
    BY <1>1 DEF Stage
<1>3. UNCHANGED <<files, held, script>> /\ held = << >>
    BY DEF Retitle, Serial
<1>4. \/ UniqueTitles(h) /\ chapters' = h /\ Step(c, "moves")
      \/ Done(c, "error") /\ UNCHANGED chapters
    BY DEF Retitle
<1>5. CASE Done(c, "error") /\ UNCHANGED chapters
    BY <1>1, <1>2, <1>3, <1>5, SerialEnds
<1>6. CASE UniqueTitles(h) /\ chapters' = h /\ Step(c, "moves")
    <2>1. PICK s \in Seq(Chapters) :
            /\ NoRepeats(s) /\ Ids(s) = DOMAIN titles /\ Ids(s) \subseteq Live(chapters)
            /\ Len(moves) = Len(s)
            /\ \A i \in 1 .. Len(s) :
                 /\ moves[i].old = Path(chapters[s[i]])
                 /\ moves[i].new = Path([chapters[s[i]] EXCEPT !.title = titles[s[i]]])
        BY <1>2 DEF Planned
    <2>2. \A x \in DOMAIN titles : titles[x] \in Title
        BY <1>1 DEF Local
    <2>3. Len(s) \in Nat /\ \A i \in 1 .. Len(s) : s[i] \in Ids(s)
        BY <2>1, LenProperties DEF Ids
    <2>4. \A x \in Live(chapters) : x \in Chapters /\ chapters[x] \in Chapter
        BY <1>1 DEF Live, Graphs
    <2> HIDE DEF titles, moves
    <2>5. \A x \in Chapters : h[x] = IF x \in Ids(s) THEN [chapters[x] EXCEPT !.title = titles[x]]
                                     ELSE chapters[x]
        BY <2>1
    <2> HIDE DEF h
    <2>6. ASSUME NEW x \in Ids(s)
          PROVE  h[x] \in Chapter /\ h[x] # NoChapter
        <3> DEFINE ch == chapters[x]
                   t  == titles[x]
        <3>1. ch \in Chapter /\ t \in Title /\ h[x] = [ch EXCEPT !.title = t]
            BY <2>1, <2>2, <2>4, <2>5
        <3> HIDE DEF ch, t
        <3>2. [ch EXCEPT !.title = t] \in Chapter
            BY <3>1, PathOK
        <3> QED BY <3>1, <3>2, NoneAssumption
    <2>7. h \in Graphs
        <3>1. \A x \in Chapters : h[x] \in Chapter \cup {NoChapter}
            BY <1>1, <2>5, <2>6 DEF Graphs
        <3>2. h = [x \in Chapters |-> h[x]]
            BY DEF h
        <3> QED BY <3>1, <3>2 DEF Graphs
    <2>8. Live(h) = Live(chapters)
        BY <2>1, <2>5, <2>6 DEF Live
    <2>9. \A i \in 1 .. Len(s) : moves[i].new = Path(h[s[i]]) /\ s[i] \in Live(h)
        BY <2>1, <2>3, <2>4, <2>5, <2>8
    <2>10. ASSUME NEW i \in 1 .. Len(moves), NEW x \in Live(h), moves[i].new = Path(h[x])
           PROVE  x = s[i]
        BY <1>6, <2>1, <2>7, <2>9, <2>10, SamePath
    <2>11. \A i, j \in 1 .. Len(moves) : moves[i].new = moves[j].new => i = j
        <3> SUFFICES ASSUME NEW i \in 1 .. Len(moves), NEW j \in 1 .. Len(moves),
                            moves[i].new = moves[j].new
                     PROVE  i = j
            OBVIOUS
        <3>1. s[i] = s[j]
            BY <2>1, <2>9, <2>10
        <3> QED BY <2>1, <3>1 DEF NoRepeats
    <2> DEFINE at == [i \in 1 .. Len(moves) |-> moves[i].old]
    <2>12. \A p \in DOMAIN files : /\ files[p].id \in Live(chapters)
                                   /\ p = Path(chapters[files[p].id])
                                   /\ files[p].title = chapters[files[p].id].title
        BY <1>2 DEF FilesOK, FilesThere
    <2>13. ASSUME NEW p \in DOMAIN files
           PROVE  LET x == files[p].id IN
                  /\ x \in Live(h)
                  /\ \/ \E i \in 1 .. Len(moves) : moves[i].new = Path(h[x]) /\ p = at[i]
                     \/ /\ \A i \in 1 .. Len(moves) : moves[i].new # Path(h[x])
                        /\ p = Path(h[x]) /\ files[p].title = h[x].title
        <3> DEFINE x == files[p].id
        <3>1. x \in Live(h) /\ x \in Chapters /\ p = Path(chapters[x]) /\ files[p].title = chapters[x].title
            BY <2>4, <2>8, <2>12
        <3> HIDE DEF x
        <3>2. CASE x \in Ids(s)
            <4>1. PICK i \in 1 .. Len(s) : s[i] = x
                BY <3>2 DEF Ids
            <4>2. moves[i].new = Path(h[x]) /\ p = at[i]
                BY <2>1, <2>9, <3>1, <4>1
            <4> QED BY <2>1, <3>1, <4>2 DEF x
        <3>3. CASE x \notin Ids(s)
            <4>1. h[x] = chapters[x]
                BY <2>5, <3>1, <3>3
            <4>2. \A i \in 1 .. Len(moves) : moves[i].new # Path(h[x])
                BY <2>1, <2>3, <2>10, <3>1, <3>3
            <4> QED BY <3>1, <4>1, <4>2 DEF x
        <3> QED BY <3>2, <3>3
    <2>14. ASSUME NEW i \in 1 .. Len(moves), at[i] \in DOMAIN files
           PROVE  Path(h[files[at[i]].id]) = moves[i].new
        <3>1. at[i] = Path(chapters[s[i]]) /\ s[i] \in Live(chapters)
            BY <2>1, <2>3
        <3>2. files[at[i]].id \in Live(chapters) /\ at[i] = Path(chapters[files[at[i]].id])
            BY <2>12, <2>14
        <3> HIDE DEF at
        <3>3. files[at[i]].id = s[i]
            BY <1>1, <3>1, <3>2, SamePath
        <3> QED BY <2>1, <2>9, <3>3
    <2>15. Between(moves, at, h, files)
        <3> HIDE DEF at
        <3>1. Tracked(files)
            BY <1>2 DEF FilesOK
        <3> QED BY <2>11, <2>13, <2>14, <3>1 DEF Between
    <2>16. r.at = "moves" /\ r.moves = moves
        BY <1>1 DEF Fields, moves
    <2>17. Goto(c, r)
        BY <1>6 DEF Step
    <2> HIDE DEF r
    <2>18. Stage(r, h, files, script)
        BY <2>15, <2>16 DEF Stage, AtOld
    <2>19. Fresh(script, chapters)'
        <3>1. Fresh(script, h)
            BY <1>1, <2>8, AloneOK DEF Fresh
        <3> QED BY <1>3, <1>6, <3>1 DEF Fresh, Live
    <2> QED BY <1>1, <1>3, <1>6, <2>16, <2>17, <2>18, <2>19, SerialStep
<1> QED BY <1>4, <1>5, <1>6


\* The moves of the files that are there; no target is another chapter's file.
LEMMA MovesSerial ==
    ASSUME IndInv, Serial, NEW c \in Clients, Moves(c)
    PROVE  Serial'
<1> DEFINE all     == call[c].moves
           moves   == Picked(all, {m \in Ids(all) : Tree(m.old)})
           sources == {moves[i].old : i \in 1 .. Len(moves)}
           r       == [call[c] EXCEPT !.at = "aside", !.moves = moves, !.next = 1]
           at      == [i \in 1 .. Len(moves) |-> moves[i].old]
<1>1. /\ call[c].at = "moves" /\ CallsOK /\ DOMAIN call[c] = Fields /\ Local(call[c])
      /\ Stage(call[c], chapters, files, script)
    BY StageIs DEF Moves
<1>2. UNCHANGED <<chapters, files, held, script>> /\ held = << >> /\ Fresh(script, chapters)'
    BY FreshSame DEF Moves, Serial
<1>3. \/ moves = << >> /\ Done(c, "ok")
      \/ \E i \in 1 .. Len(moves) : moves[i].new \notin sources /\ Tree(moves[i].new)
      \/ Goto(c, r)
    BY DEF Moves
<1>4. all \in Seq(Moved)
    BY <1>1 DEF Local
<1>5. /\ Tracked(files)
      /\ \A i, j \in 1 .. Len(all) : all[i].new = all[j].new => i = j
      /\ \A p \in DOMAIN files : LET x == files[p].id IN
           /\ x \in Live(chapters)
           /\ \/ \E i \in 1 .. Len(all) : all[i].new = Path(chapters[x]) /\ p = all[i].old
              \/ /\ \A i \in 1 .. Len(all) : all[i].new # Path(chapters[x])
                 /\ p = Path(chapters[x]) /\ files[p].title = chapters[x].title
      /\ \A i \in 1 .. Len(all) :
           all[i].old \in DOMAIN files => Path(chapters[files[all[i].old].id]) = all[i].new
    BY <1>1 DEF Stage, Between, AtOld
<1> HIDE DEF all
<1>6. NoRepeats(all)
    BY <1>5 DEF NoRepeats
<1>7. /\ moves \in Seq(Moved) /\ NoRepeats(moves)
      /\ Ids(moves) = {m \in Ids(all) : Tree(m.old)}
    BY <1>4, <1>6, PickedProperties
<1> HIDE DEF moves
<1>8. \A i \in 1 .. Len(all) : all[i].old \in DOMAIN files =>
        \E j \in 1 .. Len(moves) : moves[j] = all[i]
    BY <1>7 DEF Ids, Tree
<1>9. \A j \in 1 .. Len(moves) : moves[j].old \in DOMAIN files
        /\ \E i \in 1 .. Len(all) : moves[j] = all[i]
    BY <1>7 DEF Ids, Tree
<1>10. CASE moves = << >> /\ Done(c, "ok")
    <2>1. \A i \in 1 .. Len(all) : all[i].old \notin DOMAIN files
        BY <1>8, <1>10
    <2>2. FilesOK(chapters, files)
        BY <1>5, <2>1 DEF FilesOK, FilesThere
    <2> QED BY <1>1, <1>2, <1>10, <2>2, SerialEnds
<1>11. ASSUME NEW i \in 1 .. Len(moves), moves[i].new \notin sources, Tree(moves[i].new)
       PROVE  FALSE
    <2> DEFINE p == moves[i].new
               x == files[p].id
    <2>1. p \in DOMAIN files
        BY <1>11 DEF Tree
    <2>2. PICK k \in 1 .. Len(all) : moves[i] = all[k]
        BY <1>9
    <2>3. CASE \E j \in 1 .. Len(all) : p = all[j].old
        <3>1. PICK j \in 1 .. Len(all) : p = all[j].old
            BY <2>3
        <3>2. PICK l \in 1 .. Len(moves) : moves[l] = all[j]
            BY <1>8, <2>1, <3>1
        <3> QED BY <1>11, <3>1, <3>2
    <2>4. CASE ~ \E j \in 1 .. Len(all) : p = all[j].old
        <3>1. p = Path(chapters[x]) /\ \A j \in 1 .. Len(all) : all[j].new # Path(chapters[x])
            BY <1>5, <2>1, <2>4
        <3> QED BY <2>2, <3>1
    <2> QED BY <2>3, <2>4
<1>12. CASE Goto(c, r)
    <2>1. r.at = "aside" /\ r.moves = moves /\ r.next = 1
        BY <1>1 DEF Fields
    <2> HIDE DEF r
    <2>2. Len(moves) \in Nat
        BY <1>7, LenProperties
    <2>3. AtAside(r) = at
        BY <2>1, <2>2 DEF AtAside
    <2>4. \A i, j \in 1 .. Len(moves) : moves[i].new = moves[j].new => i = j
        <3> SUFFICES ASSUME NEW i \in 1 .. Len(moves), NEW j \in 1 .. Len(moves),
                            moves[i].new = moves[j].new
                     PROVE  i = j
            OBVIOUS
        <3>1. PICK k \in 1 .. Len(all) : moves[i] = all[k]
            BY <1>9
        <3>2. PICK l \in 1 .. Len(all) : moves[j] = all[l]
            BY <1>9
        <3>3. k = l
            BY <1>5, <3>1, <3>2
        <3> QED BY <1>7, <3>1, <3>2, <3>3 DEF NoRepeats
    <2>5. ASSUME NEW p \in DOMAIN files
          PROVE  LET x == files[p].id IN
                 /\ x \in Live(chapters)
                 /\ \/ \E i \in 1 .. Len(moves) : moves[i].new = Path(chapters[x]) /\ p = at[i]
                    \/ /\ \A i \in 1 .. Len(moves) : moves[i].new # Path(chapters[x])
                       /\ p = Path(chapters[x]) /\ files[p].title = chapters[x].title
        <3> DEFINE x == files[p].id
        <3>1. CASE \E i \in 1 .. Len(all) : all[i].new = Path(chapters[x]) /\ p = all[i].old
            <4>1. PICK i \in 1 .. Len(all) : all[i].new = Path(chapters[x]) /\ p = all[i].old
                BY <3>1
            <4>2. PICK j \in 1 .. Len(moves) : moves[j] = all[i]
                BY <1>8, <4>1
            <4>3. at[j] = p /\ moves[j].new = Path(chapters[x])
                BY <4>1, <4>2
            <4>4. x \in Live(chapters)
                BY <1>5
            <4> HIDE DEF x, at
            <4> QED BY <4>3, <4>4 DEF x
        <3>2. CASE ~ \E i \in 1 .. Len(all) : all[i].new = Path(chapters[x]) /\ p = all[i].old
            <4>1. /\ x \in Live(chapters) /\ \A i \in 1 .. Len(all) : all[i].new # Path(chapters[x])
                  /\ p = Path(chapters[x]) /\ files[p].title = chapters[x].title
                BY <1>5, <3>2
            <4>2. \A i \in 1 .. Len(moves) : moves[i].new # Path(chapters[x])
                BY <1>9, <4>1
            <4> QED BY <4>1, <4>2
        <3> QED BY <3>1, <3>2
    <2>6. ASSUME NEW i \in 1 .. Len(moves)
          PROVE  /\ at[i] \in DOMAIN files
                 /\ Path(chapters[files[at[i]].id]) = moves[i].new
        BY <1>5, <1>9
    <2>7. DOMAIN at = 1 .. Len(moves)
        OBVIOUS
    <2> HIDE DEF at
    <2>8. Between(moves, at, chapters, files) /\ AllThere(at, files)
        BY <1>5, <2>4, <2>5, <2>6, <2>7 DEF Between, AllThere
    <2>9. Stage(r, chapters', files', script')
        BY <1>2, <2>1, <2>3, <2>8 DEF Stage
    <2> QED BY <1>1, <1>2, <1>12, <2>1, <2>9, SerialStep
<1> QED BY <1>3, <1>10, <1>11, <1>12

\* The file at p goes to q.
MovedTo(f, f2, p, q) ==
    /\ DOMAIN f2 = (DOMAIN f \ {p}) \cup {q}
    /\ f2[q].id = f[p].id /\ f2[q].tracked = f[p].tracked
    /\ \A r \in DOMAIN f2 : r # q => f2[r] = f[r]

\* One file of the moves goes on to a name that is free.
LEMMA MoveOne ==
    ASSUME NEW moves, NEW at, NEW g, NEW f, Between(moves, at, g, f), AllThere(at, f),
           DOMAIN at = 1 .. Len(moves), NEW i \in 1 .. Len(moves), NEW q, q \notin DOMAIN f,
           NEW at2, DOMAIN at2 = 1 .. Len(moves), at2[i] = q,
           \A j \in 1 .. Len(moves) : j # i => at2[j] = at[j],
           NEW f2, MovedTo(f, f2, at[i], q)
    PROVE  Between(moves, at2, g, f2) /\ AllThere(at2, f2)
<1> USE DEF Between, AllThere, MovedTo
<1>1. \A j \in 1 .. Len(moves) : at[j] = at[i] => j = i
    OBVIOUS
<1>2. \A j \in 1 .. Len(moves) : j # i => at2[j] \in DOMAIN f2 /\ at2[j] # q /\ f2[at2[j]] = f[at[j]]
    BY <1>1
<1>3. AllThere(at2, f2)
    BY <1>2
<1>4. Tracked(f2)
    BY DEF Tracked
<1>5. ASSUME NEW p \in DOMAIN f2
      PROVE  LET x == f2[p].id IN
             /\ x \in Live(g)
             /\ \/ \E j \in 1 .. Len(moves) : moves[j].new = Path(g[x]) /\ p = at2[j]
                \/ /\ \A j \in 1 .. Len(moves) : moves[j].new # Path(g[x])
                   /\ p = Path(g[x]) /\ f2[p].title = g[x].title
    <2>1. CASE p = q
        <3>1. f2[p].id \in Live(g) /\ moves[i].new = Path(g[f2[p].id]) /\ p = at2[i]
            BY <2>1
        <3> QED BY <3>1
    <2>2. CASE p # q
        <3>1. p \in DOMAIN f /\ p # at[i] /\ f2[p] = f[p]
            BY <2>2
        <3>2. \A j \in 1 .. Len(moves) : p = at[j] => p = at2[j]
            BY <3>1
        <3> QED BY <3>1, <3>2
    <2> QED BY <2>1, <2>2
<1>6. \A j \in 1 .. Len(moves) : at2[j] \in DOMAIN f2 => Path(g[f2[at2[j]].id]) = moves[j].new
    BY <1>2
<1> QED BY <1>3, <1>4, <1>5, <1>6


\* A git mv of the only call: it is not refused, and the file goes to its
\* next name.
LEMMA MvGoes ==
    ASSUME IndInv, NEW c \in Clients, ~Locked(c), NEW p \in DOMAIN files, Tracked(files),
           NEW q, q \notin DOMAIN files, NEW title, NEW n, NEW next, Mv(c, p, q, title, n, next)
    PROVE  /\ MovedTo(files, files', p, q) /\ files'[q].title = title
           /\ IF call[c].next < Len(call[c].moves)
              THEN Goto(c, [call[c] EXCEPT !.next = call[c].next + 1])
              ELSE Goto(c, [call[c] EXCEPT !.next = 1, !.at = next])
<1>1. p \in DOMAIN files /\ files[p].tracked
    BY DEF Tracked
<1>2. ~MvRefused(p, q)
    BY <1>1 DEF MvRefused, Tree
<1>3. /\ files' = MvTo(p, q, title)
      /\ IF call[c].next < Len(call[c].moves)
         THEN Goto(c, [call[c] EXCEPT !.next = call[c].next + 1])
         ELSE Goto(c, [call[c] EXCEPT !.next = 1, !.at = next])
    BY <1>2 DEF Mv
<1>4. files[p] \in File
    BY <1>1 DEF IndInv, TypeOK
<1>5. files'[q] = [files[p] EXCEPT !.title = title]
    BY <1>3 DEF MvTo
<1>6. /\ files'[q].id = files[p].id /\ files'[q].tracked = files[p].tracked
      /\ files'[q].title = title
    BY <1>4, <1>5 DEF File
<1>7. /\ DOMAIN files' = (DOMAIN files \ {p}) \cup {q}
      /\ \A r \in DOMAIN files' : r # q => files'[r] = files[r]
    BY <1>3 DEF MvTo
<1> QED BY <1>3, <1>6, <1>7 DEF MovedTo

\* The paths of the moves.
LEMMA MovedPaths ==
    ASSUME NEW moves \in Seq(Moved)
    PROVE  /\ Len(moves) \in Nat
           /\ \A i \in 1 .. Len(moves) : moves[i].old \in Paths /\ moves[i].new \in Paths
<1>1. Len(moves) \in Nat /\ \A i \in 1 .. Len(moves) : moves[i] \in Moved
    BY LenProperties, ElementOfSeq
<1> QED BY <1>1 DEF Moved

\* The paths of chapters are paths.
LEMMA LivePaths ==
    ASSUME NEW g \in Graphs, NEW x \in Live(g)
    PROVE  Path(g[x]) \in Paths /\ Path(g[x]).title = g[x].title
<1>1. g[x] \in Chapter
    BY DEF Live, Graphs
<1> QED BY <1>1, PathOK

\* One more file is aside.
LEMMA AsideSerial ==
    ASSUME IndInv, Serial, NEW c \in Clients, Aside(c)
    PROVE  Serial'
<1> DEFINE moves == call[c].moves
           i     == call[c].next
           old   == moves[i].old
           temp  == Temp(i, old)
           at    == AtAside(call[c])
           at2   == [j \in 1 .. Len(moves) |-> IF j = i THEN temp ELSE at[j]]
           title == IF Tree(old) THEN files[old].title ELSE old.title
           on    == [call[c] EXCEPT !.next = call[c].next + 1]
           last  == [call[c] EXCEPT !.next = 1, !.at = "final"]
           n     == i - 1
<1>1. /\ call[c].at = "aside" /\ CallsOK /\ DOMAIN call[c] = Fields /\ Local(call[c]) /\ ~Locked(c)
      /\ Stage(call[c], chapters, files, script) /\ chapters \in Graphs
    BY StageIs DEF Aside
<1>2. moves \in Seq(Moved) /\ i \in 1 .. Len(moves)
    BY <1>1 DEF Local
<1>3. Between(moves, at, chapters, files) /\ AllThere(at, files)
    BY <1>1 DEF Stage
<1>4. Mv(c, old, temp, title, n, "final") /\ UNCHANGED <<chapters, held, script>>
    BY DEF Aside, TempOf
<1> HIDE DEF title, n
<1>5. /\ DOMAIN at = 1 .. Len(moves)
      /\ \A j \in 1 .. Len(moves) : at[j] = IF j < i THEN Temp(j, moves[j].old) ELSE moves[j].old
    BY DEF AtAside
<1> HIDE DEF moves, i, at
<1>6. Len(moves) \in Nat /\ \A j \in 1 .. Len(moves) : moves[j].old \in Paths /\ moves[j].new \in Paths
    BY <1>2, MovedPaths
<1>7. i \in Nat \ {0} /\ at[i] = old
    BY <1>2, <1>5, <1>6
<1>8. temp \notin DOMAIN files
    <2> SUFFICES ASSUME temp \in DOMAIN files
                 PROVE  FALSE
        OBVIOUS
    <2>1. CASE \E j \in 1 .. Len(moves) : temp = at[j]
        <3>1. PICK j \in 1 .. Len(moves) : temp = at[j]
            BY <2>1
        <3>2. j \in Nat \ {0} /\ moves[j].old \in Paths /\ old \in Paths
            BY <1>2, <1>6
        <3>3. temp # moves[j].old /\ (temp = Temp(j, moves[j].old) => i = j)
            BY <1>7, <3>2, TempsDiffer
        <3>4. j < i => j # i
            BY <1>7, <3>2
        <3> HIDE DEF temp, old
        <3> QED BY <1>5, <3>1, <3>3, <3>4
    <2>2. CASE ~ \E j \in 1 .. Len(moves) : temp = at[j]
        <3>1. files[temp].id \in Live(chapters) /\ temp = Path(chapters[files[temp].id])
            BY <1>3, <2>2 DEF Between
        <3>2. temp \in Paths
            BY <1>1, <3>1, LivePaths
        <3> QED BY <1>2, <1>6, <1>7, <3>2, TempsDiffer
    <2> QED BY <2>1, <2>2
<1> HIDE DEF temp, old
<1>9. /\ MovedTo(files, files', old, temp)
      /\ IF call[c].next < Len(call[c].moves) THEN Goto(c, on) ELSE Goto(c, last)
    <2>1. old \in DOMAIN files /\ Tracked(files)
        BY <1>2, <1>3, <1>5, <1>7 DEF AllThere, Between
    <2>2. ~Locked(c) /\ Mv(c, old, temp, title, n, "final")
        BY <1>1, <1>4
    <2> QED BY <1>8, <2>1, <2>2, MvGoes
<1>10. DOMAIN at2 = 1 .. Len(moves) /\ at2[i] = temp /\ \A j \in 1 .. Len(moves) : j # i => at2[j] = at[j]
    BY <1>2
<1> HIDE DEF at2
<1>11. Between(moves, at2, chapters, files') /\ AllThere(at2, files')
    <2>1. MovedTo(files, files', at[i], temp)
        BY <1>7, <1>9
    <2> QED BY <1>2, <1>3, <1>5, <1>8, <1>10, <2>1, MoveOne
<1>12. \A j \in 1 .. Len(moves) : at2[j] = IF j < i + 1 THEN Temp(j, moves[j].old) ELSE moves[j].old
    <2> SUFFICES ASSUME NEW j \in 1 .. Len(moves)
                 PROVE  at2[j] = IF j < i + 1 THEN Temp(j, moves[j].old) ELSE moves[j].old
        OBVIOUS
    <2>1. CASE j = i
        BY <1>7, <1>10, <2>1 DEF temp, old
    <2>2. CASE j # i
        <3>1. j < i + 1 <=> j < i
            BY <1>7, <2>2
        <3> QED BY <1>5, <1>10, <2>2, <3>1
    <2> QED BY <2>1, <2>2
<1>13. CASE i < Len(moves)
    <2>1. on.at = "aside" /\ on.moves = moves /\ on.next = i + 1
        BY <1>1 DEF Fields, moves, i
    <2>2. Goto(c, on)
        BY <1>9, <1>13 DEF moves, i
    <2> HIDE DEF on
    <2>3. AtAside(on) = at2
        <3>1. \A j \in 1 .. Len(moves) : AtAside(on)[j] = at2[j]
            BY <1>12, <2>1 DEF AtAside
        <3>2. DOMAIN AtAside(on) = 1 .. Len(moves) /\ AtAside(on) = [j \in 1 .. Len(moves) |-> AtAside(on)[j]]
            BY <2>1 DEF AtAside
        <3>3. at2 = [j \in 1 .. Len(moves) |-> at2[j]]
            BY DEF at2
        <3> QED BY <3>1, <3>2, <3>3
    <2>4. Stage(on, chapters, files', script)
        BY <1>11, <2>1, <2>3 DEF Stage
    <2>5. held' = << >> /\ Fresh(script, chapters)' /\ Stage(on, chapters', files', script')
        BY <1>4, <2>4, FreshSame DEF Serial
    <2> QED BY <1>1, <2>1, <2>2, <2>5, SerialStep
<1>14. CASE ~(i < Len(moves))
    <2>1. last.at = "final" /\ last.moves = moves /\ last.next = 1
        BY <1>1 DEF Fields, moves, i
    <2>2. Goto(c, last)
        BY <1>9, <1>14 DEF moves, i
    <2> HIDE DEF last
    <2>3. AtFinal(last) = at2
        <3>1. \A j \in 1 .. Len(moves) : j < i + 1 /\ ~(j < 1)
            BY <1>2, <1>6, <1>14
        <3>2. \A j \in 1 .. Len(moves) : AtFinal(last)[j] = at2[j]
            BY <1>12, <2>1, <3>1 DEF AtFinal
        <3>3. DOMAIN AtFinal(last) = 1 .. Len(moves) /\ AtFinal(last) = [j \in 1 .. Len(moves) |-> AtFinal(last)[j]]
            BY <2>1 DEF AtFinal
        <3>4. at2 = [j \in 1 .. Len(moves) |-> at2[j]]
            BY DEF at2
        <3> QED BY <3>2, <3>3, <3>4
    <2>4. Stage(last, chapters, files', script)
        BY <1>11, <2>1, <2>3 DEF Stage
    <2>5. held' = << >> /\ Fresh(script, chapters)' /\ Stage(last, chapters', files', script')
        BY <1>4, <2>4, FreshSame DEF Serial
    <2> QED BY <1>1, <2>1, <2>2, <2>5, SerialStep
<1> QED BY <1>13, <1>14


\* One more file is at its new path, with its new title.
LEMMA FinishSerial ==
    ASSUME IndInv, Serial, NEW c \in Clients, Finish(c)
    PROVE  Serial'
<1> DEFINE moves == call[c].moves
           i     == call[c].next
           new   == moves[i].new
           temp  == Temp(i, moves[i].old)
           title == new.title
           n     == Len(call[c].moves)
           at    == AtFinal(call[c])
           at2   == [j \in 1 .. Len(moves) |-> IF j = i THEN new ELSE at[j]]
           on    == [call[c] EXCEPT !.next = call[c].next + 1]
           last  == [call[c] EXCEPT !.next = 1, !.at = "snap"]
<1>1. /\ call[c].at = "final" /\ CallsOK /\ DOMAIN call[c] = Fields /\ Local(call[c]) /\ ~Locked(c)
      /\ Stage(call[c], chapters, files, script) /\ chapters \in Graphs
    BY StageIs DEF Finish
<1>2. moves \in Seq(Moved) /\ i \in 1 .. Len(moves)
    BY <1>1 DEF Local
<1>3. /\ Between(moves, at, chapters, files) /\ AllThere(at, files)
      /\ \A j \in 1 .. i - 1 : files[moves[j].new].title = moves[j].new.title
    BY <1>1 DEF Stage
<1>4. Mv(c, temp, new, title, n, "snap") /\ UNCHANGED <<chapters, held, script>>
    BY DEF Finish, TempOf
<1>5. /\ DOMAIN at = 1 .. Len(moves)
      /\ \A j \in 1 .. Len(moves) : at[j] = IF j < i THEN moves[j].new ELSE Temp(j, moves[j].old)
    BY DEF AtFinal
<1> HIDE DEF moves, i, at, n
<1>6. Len(moves) \in Nat /\ \A j \in 1 .. Len(moves) : moves[j].old \in Paths /\ moves[j].new \in Paths
    BY <1>2, MovedPaths
<1>7. i \in Nat \ {0} /\ at[i] = temp /\ new \in Paths
    BY <1>2, <1>5, <1>6
<1>8. \A j, k \in 1 .. Len(moves) : moves[j].new = moves[k].new => j = k
    BY <1>3 DEF Between
<1>9. \A j \in 1 .. Len(moves) : new # at[j]
    <2> SUFFICES ASSUME NEW j \in 1 .. Len(moves), new = at[j]
                 PROVE  FALSE
        OBVIOUS
    <2>1. j \in Nat \ {0} /\ moves[j].old \in Paths
        BY <1>2, <1>6
    <2>2. Temp(j, moves[j].old) # new
        BY <1>7, <2>1, TempsDiffer
    <2>3. j < i /\ new = moves[j].new
        <3> HIDE DEF new
        <3> QED BY <1>5, <2>2
    <2>4. j = i
        BY <1>2, <1>8, <2>3
    <2> QED BY <1>7, <2>1, <2>3, <2>4
<1>10. new \notin DOMAIN files
    <2> SUFFICES ASSUME new \in DOMAIN files
                 PROVE  FALSE
        OBVIOUS
    <2>1. \A j \in 1 .. Len(moves) : moves[j].new # Path(chapters[files[new].id])
        BY <1>3, <1>9 DEF Between
    <2>2. new = Path(chapters[files[new].id])
        BY <1>3, <1>9 DEF Between
    <2> QED BY <1>2, <2>1, <2>2
<1> HIDE DEF temp, new, title
<1>11. /\ MovedTo(files, files', temp, new) /\ files'[new].title = title
       /\ IF call[c].next < Len(call[c].moves) THEN Goto(c, on) ELSE Goto(c, last)
    <2>1. temp \in DOMAIN files /\ Tracked(files)
        BY <1>2, <1>3, <1>5, <1>7 DEF AllThere, Between
    <2>2. ~Locked(c) /\ Mv(c, temp, new, title, n, "snap")
        BY <1>1, <1>4
    <2> QED BY <1>10, <2>1, <2>2, MvGoes
<1>12. DOMAIN at2 = 1 .. Len(moves) /\ at2[i] = new /\ \A j \in 1 .. Len(moves) : j # i => at2[j] = at[j]
    BY <1>2
<1> HIDE DEF at2
<1>13. Between(moves, at2, chapters, files') /\ AllThere(at2, files')
    <2>1. MovedTo(files, files', at[i], new)
        BY <1>7, <1>11
    <2> QED BY <1>2, <1>3, <1>5, <1>10, <1>12, <2>1, MoveOne
<1>14. \A j \in 1 .. Len(moves) : at2[j] = IF j < i + 1 THEN moves[j].new ELSE Temp(j, moves[j].old)
    <2> SUFFICES ASSUME NEW j \in 1 .. Len(moves)
                 PROVE  at2[j] = IF j < i + 1 THEN moves[j].new ELSE Temp(j, moves[j].old)
        OBVIOUS
    <2>1. CASE j = i
        BY <1>7, <1>12, <2>1 DEF new
    <2>2. CASE j # i
        <3>1. j < i + 1 <=> j < i
            BY <1>7, <2>2
        <3> QED BY <1>5, <1>12, <2>2, <3>1
    <2> QED BY <2>1, <2>2
<1>15. \A j \in 1 .. i : files'[moves[j].new].title = moves[j].new.title
    <2> SUFFICES ASSUME NEW j \in 1 .. i
                 PROVE  files'[moves[j].new].title = moves[j].new.title
        OBVIOUS
    <2>1. CASE j = i
        BY <1>11, <2>1 DEF new, title
    <2>2. CASE j # i
        <3>1. j \in 1 .. i - 1 /\ j \in 1 .. Len(moves) /\ j < i
            BY <1>2, <1>6, <1>7, <2>2
        <3>2. moves[j].new # new /\ moves[j].new = at2[j]
            BY <1>2, <1>5, <1>8, <1>12, <2>2, <3>1 DEF new
        <3>3. moves[j].new \in DOMAIN files'
            BY <1>12, <1>13, <3>1, <3>2 DEF AllThere
        <3>4. files'[moves[j].new] = files[moves[j].new]
            BY <1>11, <3>2, <3>3 DEF MovedTo
        <3> QED BY <1>3, <3>1, <3>4
    <2> QED BY <2>1, <2>2
<1>16. CASE i < Len(moves)
    <2>1. on.at = "final" /\ on.moves = moves /\ on.next = i + 1
        BY <1>1 DEF Fields, moves, i
    <2>2. Goto(c, on)
        BY <1>11, <1>16 DEF moves, i
    <2> HIDE DEF on
    <2>3. AtFinal(on) = at2
        <3>1. \A j \in 1 .. Len(moves) : AtFinal(on)[j] = at2[j]
            BY <1>14, <2>1 DEF AtFinal
        <3>2. DOMAIN AtFinal(on) = 1 .. Len(moves) /\ AtFinal(on) = [j \in 1 .. Len(moves) |-> AtFinal(on)[j]]
            BY <2>1 DEF AtFinal
        <3>3. at2 = [j \in 1 .. Len(moves) |-> at2[j]]
            BY DEF at2
        <3> QED BY <3>1, <3>2, <3>3
    <2>4. \A j \in 1 .. on.next - 1 : files'[on.moves[j].new].title = on.moves[j].new.title
        <3>1. on.next - 1 = i
            BY <1>7, <2>1
        <3> QED BY <1>15, <2>1, <3>1
    <2>5. Stage(on, chapters, files', script)
        BY <1>13, <2>1, <2>3, <2>4 DEF Stage
    <2>6. held' = << >> /\ Fresh(script, chapters)' /\ Stage(on, chapters', files', script')
        BY <1>4, <2>5, FreshSame DEF Serial
    <2> QED BY <1>1, <2>1, <2>2, <2>6, SerialStep
<1>17. CASE ~(i < Len(moves))
    <2>1. last.at = "snap"
        BY <1>1 DEF Fields
    <2>2. Goto(c, last)
        BY <1>11, <1>17 DEF moves, i
    <2> HIDE DEF last
    <2>3. \A j \in 1 .. Len(moves) : at2[j] = moves[j].new /\ files'[moves[j].new].title = moves[j].new.title
        <3>1. \A j \in 1 .. Len(moves) : j < i + 1 /\ j \in 1 .. i
            BY <1>2, <1>6, <1>17
        <3> QED BY <1>14, <1>15, <3>1
    <2>4. ASSUME NEW p \in DOMAIN files'
          PROVE  LET x == files'[p].id IN
                 x \in Live(chapters) /\ p = Path(chapters[x]) /\ files'[p].title = chapters[x].title
        <3> DEFINE x == files'[p].id
        <3>1. x \in Live(chapters)
            BY <1>13 DEF Between
        <3>2. CASE \E j \in 1 .. Len(moves) : moves[j].new = Path(chapters[x]) /\ p = at2[j]
            <4>1. PICK j \in 1 .. Len(moves) : moves[j].new = Path(chapters[x]) /\ p = at2[j]
                BY <3>2
            <4>2. p = Path(chapters[x]) /\ files'[p].title = Path(chapters[x]).title
                BY <2>3, <4>1
            <4>3. Path(chapters[x]).title = chapters[x].title
                <5> HIDE DEF x
                <5> QED BY <1>1, <3>1, LivePaths
            <4> QED BY <3>1, <4>2, <4>3
        <3>3. CASE ~ \E j \in 1 .. Len(moves) : moves[j].new = Path(chapters[x]) /\ p = at2[j]
            BY <1>13, <3>3 DEF Between
        <3> QED BY <3>2, <3>3
    <2>5. FilesThere(chapters, files')
        BY <2>4 DEF FilesThere
    <2>6. Stage(last, chapters, files', script)
        BY <2>1, <2>5 DEF Stage
    <2>7. held' = << >> /\ Fresh(script, chapters)' /\ Stage(last, chapters', files', script')
        BY <1>4, <2>6, FreshSame DEF Serial
    <2> QED BY <1>1, <2>1, <2>2, <2>7, SerialStep
<1> QED BY <1>16, <1>17

\* Calls one at a time, and no act adopted: every step keeps the files
\* where the next step expects them.
LEMMA SerialNext ==
    ASSUME IndInv, SerialInv, [Next]_vars
    PROVE  SerialInv'
<1> SUFFICES ASSUME gone' = {}
             PROVE  Serial'
    BY DEF SerialInv
<1>1. CASE UNCHANGED vars
    <2>1. Serial
        BY <1>1 DEF SerialInv, vars
    <2> QED BY <1>1, <2>1 DEF vars, Serial, Busy, At, Fresh, FilesOK, FilesThere, Tracked, Live
<1>2. ASSUME NEW c \in Clients,
             \/ Begin(c) \/ Resolve(c) \/ Check(c) \/ Load(c)
             \/ Create(c) \/ Update(c) \/ Delete(c)
             \/ List(c) \/ Adopt(c) \/ Reorder(c)
             \/ Materialize(c) \/ Snap(c) \/ Rename(c) \/ RemoveFile(c)
             \/ Plan(c) \/ Retitle(c) \/ Moves(c) \/ Aside(c) \/ Finish(c) \/ Undo(c)
      PROVE  Serial'
    <2>1. Serial
        <3>1. gone = {}
            BY <1>2 DEF Begin, Resolve, Check, Load, Create, Update, Delete, List, Adopt, Reorder, Crossed,
                        Materialize, Snap, Rename, RemoveFile, Plan, Retitle, Moves, Aside, Finish, Undo
        <3> QED BY <3>1 DEF SerialInv
    <2>2. CASE Begin(c) \/ Resolve(c) \/ Check(c) \/ Load(c)
        BY <2>1, <2>2, BeginSerial, ResolveSerial, CheckSerial, LoadSerial
    <2>3. CASE Create(c) \/ Update(c) \/ Delete(c)
        BY <2>1, <2>3, CreateSerial, UpdateSerial, DeleteSerial
    <2>4. CASE List(c) \/ Reorder(c)
        BY <2>1, <2>4, ListSerial, ReorderSerial
    <2>5. CASE Adopt(c)
        BY <2>5 DEF Adopt
    <2>6. CASE Materialize(c) \/ Snap(c) \/ Rename(c) \/ RemoveFile(c)
        BY <2>1, <2>6, MaterializeSerial, SnapSerial, RenameSerial, RemoveFileSerial
    <2>7. CASE Plan(c) \/ Retitle(c) \/ Moves(c)
        BY <2>1, <2>7, PlanSerial, RetitleSerial, MovesSerial
    <2>8. CASE Aside(c) \/ Finish(c)
        BY <2>1, <2>8, AsideSerial, FinishSerial
    <2>9. CASE Undo(c)
        <3>1. call[c].at = "undo" /\ Stage(call[c], chapters, files, script)
            BY <2>1, <2>9, StageIs DEF Undo
        <3> QED BY <3>1 DEF Stage
    <2> QED BY <1>2, <2>2, <2>3, <2>4, <2>5, <2>6, <2>7, <2>8, <2>9
<1> QED BY <1>1, <1>2 DEF Next

LEMMA SerialInvHolds == Spec => []SerialInv
<1>1. IndInv /\ SerialInv /\ [Next]_vars => SerialInv'
    BY SerialNext
<1>2. Init => SerialInv
    BY InitSerial DEF SerialInv
<1> QED BY <1>1, <1>2, IndInvHolds, PTL DEF Spec

\* As long as calls come one at a time and no move adopts an act, every file
\* is where its chapter says, under its title and known to git, after creates,
\* updates, deletes, moves and renumbers that pass files through each other
\* (FilesAgree).
THEOREM FilesStayWithChapters == Spec => []FilesAgree
<1>1. SerialInv => FilesAgree
    BY DEF SerialInv, Serial, FilesAgree, FilesOK, FilesThere, Tracked
<1> QED BY <1>1, SerialInvHolds, PTL

-----------------------------------------------------------------------------
(* The rollback of a renumber: where the files of its moves m are among    *)
(* the files f, as long as no other call writes or moves one.              *)
-----------------------------------------------------------------------------
TempIn(m, i)    == Temp(i, m[i].old)
Hidden(m, f, i) == TempIn(m, i) \in DOMAIN f
Renewed(m, f, i) == ~Hidden(m, f, i) /\ m[i].new \in DOMAIN f /\ f[m[i].new].title = m[i].new.title
Taken(m, f, i)  == \E j \in 1 .. Len(m) : m[j].new = m[i].old /\ Renewed(m, f, j)
Back(m, f, i)   == m[i].old \in DOMAIN f

OldsApart(m) == \A i, j \in 1 .. Len(m) : m[i].old = m[j].old => i = j

\* Files aside leave their old paths; an old path is then only taken by a file
\* that is at its new one; a rollback passes a file when it is back, or when
\* that is so.
Pass(at, n, m, f) ==
    /\ at = "aside" => \A i \in 1 .. Len(m) : i < n => Hidden(m, f, i) /\ ~Back(m, f, i)
    /\ at = "final" => \A i \in 1 .. Len(m) :
                         /\ IF i < n THEN Renewed(m, f, i) ELSE Hidden(m, f, i)
                         /\ Back(m, f, i) => Taken(m, f, i)
    /\ at = "undo"  => \A i \in 1 .. Len(m) :
                         IF i < n THEN /\ Back(m, f, i) \/ Renewed(m, f, i)
                                       /\ Hidden(m, f, i) => Taken(m, f, i)
                         ELSE /\ Hidden(m, f, i) \/ Renewed(m, f, i)
                              /\ Back(m, f, i) => Taken(m, f, i)

InPasses  == {"aside", "final", "undo"}
InMoves   == {"retitle", "moves"} \cup InPasses
PassOf(r, f) == Pass(r.at, r.next, r.moves, f)

PassInv ==
    /\ \A c \in Clients : call[c].at \in InMoves => OldsApart(call[c].moves)
    /\ "crossed" \notin gone => \A c \in Clients : PassOf(call[c], files)

\* The temporary names of a renumber, and its paths, are all different.
LEMMA TempsApart ==
    ASSUME NEW m \in Seq(Moved), NEW i \in 1 .. Len(m), NEW j \in 1 .. Len(m)
    PROVE  /\ TempIn(m, i) # m[j].old /\ TempIn(m, i) # m[j].new
           /\ TempIn(m, i) = TempIn(m, j) => i = j
<1>1. /\ Len(m) \in Nat /\ m[i].old \in Paths /\ m[j].old \in Paths /\ m[j].new \in Paths
    BY MovedPaths
<1>2. i \in Nat \ {0} /\ j \in Nat \ {0}
    BY <1>1
<1> QED BY <1>1, <1>2, TempsDiffer DEF TempIn

\* A file goes from p to q.
Went(f, f2, p, q) ==
    /\ p \in DOMAIN f /\ q \notin DOMAIN f
    /\ DOMAIN f2 = (DOMAIN f \ {p}) \cup {q}
    /\ \A r \in DOMAIN f2 : r # q => f2[r] = f[r]

LEMMA MvToIs ==
    ASSUME IndInv, NEW p, NEW q, NEW title, Tree(p), ~Tree(q), files' = MvTo(p, q, title)
    PROVE  Went(files, files', p, q) /\ files'[q].title = title
<1>1. files[p] \in File
    BY DEF IndInv, TypeOK, Tree
<1>2. files'[q] = [files[p] EXCEPT !.title = title]
    BY DEF MvTo
<1>3. files'[q].title = title
    BY <1>1, <1>2 DEF File
<1>4. /\ DOMAIN files' = (DOMAIN files \ {p}) \cup {q}
      /\ \A r \in DOMAIN files' : r # q => files'[r] = files[r]
    BY DEF MvTo
<1> QED BY <1>3, <1>4 DEF Went, Tree

\* One more file is aside.
LEMMA AsideMoves ==
    ASSUME NEW m \in Seq(Moved), NEW i \in 1 .. Len(m), NEW f, NEW f2,
           Went(f, f2, m[i].old, TempIn(m, i))
    PROVE  /\ Hidden(m, f2, i) /\ ~Back(m, f2, i)
           /\ \A j \in 1 .. Len(m) : Hidden(m, f, j) /\ ~Back(m, f, j) => Hidden(m, f2, j) /\ ~Back(m, f2, j)
<1>1. \A j \in 1 .. Len(m) : TempIn(m, j) # m[i].old /\ TempIn(m, i) # m[j].old
    BY TempsApart
<1> QED BY <1>1 DEF Went, Hidden, Back

\* One more file is under its new title.
LEMMA FinishMoves ==
    ASSUME NEW m \in Seq(Moved), NEW i \in 1 .. Len(m), NEW f, NEW f2,
           Went(f, f2, TempIn(m, i), m[i].new), f2[m[i].new].title = m[i].new.title
    PROVE  /\ Renewed(m, f2, i)
           /\ \A j \in 1 .. Len(m) : /\ Renewed(m, f, j) => Renewed(m, f2, j)
                                     /\ j # i /\ Hidden(m, f, j) => Hidden(m, f2, j)
                                     /\ (Back(m, f, j) => Taken(m, f, j)) => (Back(m, f2, j) => Taken(m, f2, j))
<1>1. \A j \in 1 .. Len(m) : /\ TempIn(m, j) # m[i].new /\ TempIn(m, i) # m[j].new
                             /\ TempIn(m, i) # m[j].old /\ (j # i => TempIn(m, j) # TempIn(m, i))
    BY TempsApart
<1>2. Renewed(m, f2, i)
    BY <1>1 DEF Went, Renewed, Hidden
<1>3. ASSUME NEW j \in 1 .. Len(m), Renewed(m, f, j)
      PROVE  Renewed(m, f2, j)
    BY <1>1, <1>3 DEF Went, Renewed, Hidden
<1>4. ASSUME NEW j \in 1 .. Len(m), j # i, Hidden(m, f, j)
      PROVE  Hidden(m, f2, j)
    BY <1>1, <1>4 DEF Went, Hidden
<1>5. ASSUME NEW j \in 1 .. Len(m), Back(m, f, j) => Taken(m, f, j), Back(m, f2, j)
      PROVE  Taken(m, f2, j)
    <2>1. CASE m[j].old = m[i].new
        BY <1>2, <2>1 DEF Taken
    <2>2. CASE m[j].old # m[i].new
        <3>1. Back(m, f, j)
            BY <1>5, <2>2 DEF Went, Back
        <3> QED BY <1>3, <1>5, <3>1 DEF Taken
    <2> QED BY <2>1, <2>2
<1> QED BY <1>2, <1>3, <1>4, <1>5

\* One more file is back.
LEMMA UndoMoves ==
    ASSUME NEW m \in Seq(Moved), OldsApart(m), NEW i \in 1 .. Len(m), NEW f, NEW f2,
           Went(f, f2, TempIn(m, i), m[i].old)
    PROVE  /\ Back(m, f2, i) /\ ~Hidden(m, f2, i)
           /\ \A j \in 1 .. Len(m) : /\ Renewed(m, f, j) => Renewed(m, f2, j)
                                     /\ Taken(m, f, j) => Taken(m, f2, j)
                                     /\ j # i => /\ Hidden(m, f2, j) <=> Hidden(m, f, j)
                                                 /\ Back(m, f2, j) <=> Back(m, f, j)
<1>1. \A j \in 1 .. Len(m) : /\ TempIn(m, j) # m[i].old /\ TempIn(m, i) # m[j].new
                             /\ TempIn(m, i) # m[j].old /\ (j # i => TempIn(m, j) # TempIn(m, i))
    BY TempsApart
<1>2. \A j \in 1 .. Len(m) : j # i => m[j].old # m[i].old
    BY DEF OldsApart
<1>3. ASSUME NEW j \in 1 .. Len(m), Renewed(m, f, j)
      PROVE  Renewed(m, f2, j)
    BY <1>1, <1>3 DEF Went, Renewed, Hidden
<1>4. ASSUME NEW j \in 1 .. Len(m), Taken(m, f, j)
      PROVE  Taken(m, f2, j)
    BY <1>3, <1>4 DEF Taken
<1>5. ASSUME NEW j \in 1 .. Len(m), j # i
      PROVE  (Hidden(m, f2, j) <=> Hidden(m, f, j)) /\ (Back(m, f2, j) <=> Back(m, f, j))
    BY <1>1, <1>2, <1>5 DEF Went, Hidden, Back
<1>6. Back(m, f2, i) /\ ~Hidden(m, f2, i)
    BY <1>1 DEF Went, Hidden, Back
<1> QED BY <1>3, <1>4, <1>5, <1>6

\* What others do to the files that is no move.
SameTree(f, f2) == DOMAIN f2 = DOMAIN f /\ \A p \in DOMAIN f : f2[p].title = f[p].title

LEMMA SameTreePass ==
    ASSUME NEW at, NEW n, NEW m, NEW f, NEW f2, Pass(at, n, m, f), SameTree(f, f2)
    PROVE  Pass(at, n, m, f2)
<1>1. \A i \in 1 .. Len(m) : (Hidden(m, f2, i) <=> Hidden(m, f, i)) /\ (Back(m, f2, i) <=> Back(m, f, i))
    BY DEF Hidden, Back, SameTree
<1>2. \A i \in 1 .. Len(m) : Renewed(m, f2, i) <=> Renewed(m, f, i)
    BY <1>1 DEF Renewed, SameTree
<1>3. \A i \in 1 .. Len(m) : Taken(m, f2, i) <=> Taken(m, f, i)
    BY <1>2 DEF Taken
<1> QED BY <1>1, <1>2, <1>3 DEF Pass

LEMMA GotoIs ==
    ASSUME IndInv, NEW c \in Clients, NEW r, Goto(c, r)
    PROVE  call'[c] = r /\ \A d \in Clients \ {c} : call'[d] = call[d]
BY DEF Goto, IndInv, CallsOK

\* What a rollback starts from: the first n files of the moves.
LEMMA RollbackPass ==
    ASSUME NEW m \in Seq(Moved), NEW n \in 0 .. Len(m), NEW f,
           \/ \A i \in 1 .. n : Hidden(m, f, i) /\ ~Back(m, f, i)
           \/ /\ n = Len(m)
              /\ \A i \in 1 .. n : /\ Hidden(m, f, i) \/ Renewed(m, f, i)
                                   /\ Back(m, f, i) => Taken(m, f, i)
    PROVE  Pass("undo", 1, SubSeq(m, 1, n), f)
<1> DEFINE t == SubSeq(m, 1, n)
<1>1. Len(m) \in Nat /\ Len(t) = n /\ \A i \in 1 .. n : t[i] = m[i] /\ i \in 1 .. Len(m)
    BY LenProperties, SubSeqProperties
<1> HIDE DEF t
<1>3. \A i \in 1 .. n : /\ Hidden(t, f, i) <=> Hidden(m, f, i)
                        /\ Back(t, f, i) <=> Back(m, f, i)
                        /\ Renewed(t, f, i) <=> Renewed(m, f, i)
    BY <1>1 DEF Hidden, Back, Renewed, TempIn
<1>4. n = Len(m) => \A i \in 1 .. n : Taken(m, f, i) => Taken(t, f, i)
    BY <1>1, <1>3 DEF Taken
<1>5. \A i \in 1 .. n : ~(i < 1)
    OBVIOUS
<1>6. Pass("undo", 1, t, f)
    BY <1>1, <1>3, <1>4, <1>5 DEF Pass
<1> QED BY <1>6 DEF t

LEMMA SubOlds ==
    ASSUME NEW m \in Seq(Moved), OldsApart(m), NEW n \in 0 .. Len(m)
    PROVE  OldsApart(SubSeq(m, 1, n))
<1> DEFINE t == SubSeq(m, 1, n)
<1>1. Len(m) \in Nat /\ Len(t) = n /\ \A i \in 1 .. n : t[i] = m[i] /\ i \in 1 .. Len(m)
    BY LenProperties, SubSeqProperties
<1> HIDE DEF t
<1>2. OldsApart(t)
    BY <1>1 DEF OldsApart
<1> QED BY <1>2 DEF t

\* A call that ends is idle.
LEMMA DoneAt ==
    ASSUME IndInv, NEW c \in Clients, NEW answer, Done(c, answer)
    PROVE  call'[c].at = "idle"
<1> DEFINE r == [Idle EXCEPT !.op = call[c].op, !.answer = answer]
<1>1. r.at = "idle" /\ Goto(c, r)
    BY DEF Idle, Done
<1> HIDE DEF r
<1> QED BY <1>1, GotoIs

\* The calls in a renumber, and what they know of its moves.
LEMMA InPassIs ==
    ASSUME IndInv, PassInv, NEW c \in Clients, call[c].at \in InPasses
    PROVE  /\ DOMAIN call[c] = Fields /\ call[c].moves \in Seq(Moved) /\ OldsApart(call[c].moves)
           /\ Len(call[c].moves) \in Nat /\ call[c].next \in Nat \ {0}
           /\ call[c].at # "undo" => call[c].next \in 1 .. Len(call[c].moves)
           /\ "crossed" \notin gone => Pass(call[c].at, call[c].next, call[c].moves, files)
<1>1. DOMAIN call[c] = Fields /\ Local(call[c])
    BY CallIs DEF InPasses
<1>2. call[c].moves \in Seq(Moved) /\ OldsApart(call[c].moves)
    BY <1>1 DEF Local, InPasses, InMoves, PassInv
<1>3. Len(call[c].moves) \in Nat
    BY <1>2, LenProperties
<1>4. call[c].at # "undo" => call[c].next \in 1 .. Len(call[c].moves)
    BY <1>1 DEF Local, InPasses
<1>5. call[c].at = "undo" => call[c].next \in Nat \ {0}
    BY <1>1 DEF Local
<1>6. "crossed" \notin gone => Pass(call[c].at, call[c].next, call[c].moves, files)
    BY DEF PassInv, PassOf
<1>7. call[c].next \in Nat \ {0}
    BY <1>3, <1>4, <1>5
<1> QED BY <1>1, <1>2, <1>3, <1>4, <1>6, <1>7

\* A git mv of either pass, by what it does to the call.
LEMMA MvOutcome ==
    ASSUME IndInv, PassInv, NEW c \in Clients, call[c].at \in {"aside", "final"},
           NEW p, NEW q, NEW title, NEW n \in 0 .. Len(call[c].moves), NEW next,
           Mv(c, p, q, title, n, next)
    PROVE  \/ /\ UNCHANGED files /\ call'[c].at = "undo" /\ call'[c].next = 1
              /\ call'[c].moves = SubSeq(call[c].moves, 1, n)
           \/ /\ Went(files, files', p, q) /\ files'[q].title = title
              /\ call'[c].moves = call[c].moves
              /\ \/ call'[c].at = call[c].at /\ call'[c].next = call[c].next + 1
                 \/ /\ call[c].next = Len(call[c].moves)
                    /\ call'[c].at = next /\ call'[c].next = 1
<1> DEFINE moves == call[c].moves
           back == [call[c] EXCEPT !.at = "undo", !.next = 1, !.moves = SubSeq(moves, 1, n)]
           on   == [call[c] EXCEPT !.next = call[c].next + 1]
           last == [call[c] EXCEPT !.next = 1, !.at = next]
<1>1. /\ DOMAIN call[c] = Fields /\ Len(moves) \in Nat /\ call[c].next \in 1 .. Len(moves)
    BY InPassIs DEF InPasses
<1>2. \/ UNCHANGED files /\ Goto(c, back)
      \/ /\ Tree(p) /\ ~Tree(q) /\ files' = MvTo(p, q, title)
         /\ IF call[c].next < Len(moves) THEN Goto(c, on) ELSE Goto(c, last)
    BY DEF Mv, MvRefused, Rollback
<1>3. /\ back.at = "undo" /\ back.next = 1 /\ back.moves = SubSeq(moves, 1, n)
      /\ on.at = call[c].at /\ on.next = call[c].next + 1 /\ on.moves = moves
      /\ last.at = next /\ last.next = 1 /\ last.moves = moves
    BY <1>1 DEF Fields
<1> HIDE DEF back, on, last
<1>4. CASE UNCHANGED files /\ Goto(c, back)
    <2>1. call'[c] = back
        BY <1>4, GotoIs
    <2> QED BY <1>3, <1>4, <2>1
<1>5. CASE /\ Tree(p) /\ ~Tree(q) /\ files' = MvTo(p, q, title)
           /\ IF call[c].next < Len(moves) THEN Goto(c, on) ELSE Goto(c, last)
    <2>1. Went(files, files', p, q) /\ files'[q].title = title
        BY <1>5, MvToIs
    <2>2. CASE call[c].next < Len(moves)
        <3>1. call'[c] = on
            BY <1>5, <2>2, GotoIs
        <3> QED BY <1>3, <2>1, <3>1
    <2>3. CASE ~(call[c].next < Len(moves))
        <3>1. call'[c] = last
            BY <1>5, <2>3, GotoIs
        <3>2. call[c].next = Len(moves)
            BY <1>1, <2>3
        <3> QED BY <1>3, <2>1, <3>1, <3>2
    <2> QED BY <2>2, <2>3
<1> QED BY <1>2, <1>4, <1>5

\* What a client's own step makes of its passes.
Carried(c) ==
    /\ call'[c].at \in InMoves => OldsApart(call'[c].moves)
    /\ "crossed" \notin gone => PassOf(call'[c], files')

LEMMA AsidePass ==
    ASSUME IndInv, PassInv, NEW c \in Clients, Aside(c)
    PROVE  Carried(c)
<1> DEFINE m   == call[c].moves
           i   == call[c].next
           old == m[i].old
           title == IF Tree(old) THEN files[old].title ELSE old.title
<1>1. call[c].at = "aside" /\ Mv(c, old, TempOf(c, i), title, i - 1, "final")
    BY DEF Aside, At
<1>2. /\ m \in Seq(Moved) /\ OldsApart(m) /\ Len(m) \in Nat /\ i \in 1 .. Len(m)
      /\ "crossed" \notin gone => Pass("aside", i, m, files)
    BY <1>1, InPassIs DEF InPasses
<1>3. i - 1 \in 0 .. Len(m) /\ TempOf(c, i) = TempIn(m, i)
    <2>1. TempOf(c, i) = TempIn(m, i)
        BY DEF TempOf, TempIn
    <2> HIDE DEF i, m
    <2> QED BY <1>2, <2>1
<1> HIDE DEF title
<1>4. \/ /\ UNCHANGED files /\ call'[c].at = "undo" /\ call'[c].next = 1
         /\ call'[c].moves = SubSeq(m, 1, i - 1)
      \/ /\ Went(files, files', old, TempIn(m, i))
         /\ call'[c].moves = m
         /\ \/ call'[c].at = "aside" /\ call'[c].next = i + 1
            \/ i = Len(m) /\ call'[c].at = "final" /\ call'[c].next = 1
    BY <1>1, <1>3, MvOutcome
<1> HIDE DEF m, i, old
<1>5. "crossed" \notin gone => \A j \in 1 .. Len(m) : j < i => Hidden(m, files, j) /\ ~Back(m, files, j)
    BY <1>2 DEF Pass
<1>6. CASE /\ UNCHANGED files /\ call'[c].at = "undo" /\ call'[c].next = 1
           /\ call'[c].moves = SubSeq(m, 1, i - 1)
    <2> DEFINE t == SubSeq(m, 1, i - 1)
    <2>1. OldsApart(t)
        BY <1>2, <1>3, SubOlds
    <2>2. ASSUME "crossed" \notin gone
          PROVE  Pass("undo", 1, t, files)
        <3>1. \A j \in 1 .. i - 1 : Hidden(m, files, j) /\ ~Back(m, files, j)
            BY <1>2, <1>5, <2>2
        <3> QED BY <1>2, <1>3, <3>1, RollbackPass
    <2> HIDE DEF t
    <2> QED BY <1>6, <2>1, <2>2 DEF Carried, PassOf, t
<1>7. CASE /\ Went(files, files', old, TempIn(m, i))
           /\ call'[c].moves = m
           /\ \/ call'[c].at = "aside" /\ call'[c].next = i + 1
              \/ i = Len(m) /\ call'[c].at = "final" /\ call'[c].next = 1
    <2>1. ASSUME "crossed" \notin gone
          PROVE  \A j \in 1 .. Len(m) : j < i + 1 => Hidden(m, files', j) /\ ~Back(m, files', j)
        <3>1. Hidden(m, files', i) /\ ~Back(m, files', i)
            BY <1>2, <1>7, AsideMoves DEF old
        <3>2. \A j \in 1 .. Len(m) : j < i => Hidden(m, files', j) /\ ~Back(m, files', j)
            BY <1>2, <1>5, <1>7, <2>1, AsideMoves DEF old
        <3>3. \A j \in 1 .. Len(m) : j < i + 1 => j < i \/ j = i
            BY <1>2
        <3> QED BY <3>1, <3>2, <3>3
    <2>2. ASSUME "crossed" \notin gone, call'[c].at = "final", i = Len(m), call'[c].next = 1
          PROVE  Pass("final", 1, m, files')
        <3>1. \A j \in 1 .. Len(m) : j < i + 1 /\ ~(j < 1)
            BY <1>2, <2>2
        <3> QED BY <2>1, <2>2, <3>1 DEF Pass
    <2>3. ASSUME "crossed" \notin gone
          PROVE  Pass("aside", i + 1, m, files')
        BY <2>1, <2>3 DEF Pass
    <2> QED BY <1>2, <1>7, <2>2, <2>3 DEF Carried, PassOf
<1> QED BY <1>4, <1>6, <1>7

LEMMA FinishPass ==
    ASSUME IndInv, PassInv, NEW c \in Clients, Finish(c)
    PROVE  Carried(c)
<1> DEFINE m   == call[c].moves
           i   == call[c].next
           new == m[i].new
<1>1. call[c].at = "final" /\ Mv(c, TempOf(c, i), new, new.title, Len(m), "snap")
    BY DEF Finish, At
<1>2. /\ m \in Seq(Moved) /\ OldsApart(m) /\ Len(m) \in Nat /\ i \in 1 .. Len(m)
      /\ "crossed" \notin gone => Pass("final", i, m, files)
    BY <1>1, InPassIs DEF InPasses
<1>3. Len(m) \in 0 .. Len(m) /\ TempOf(c, i) = TempIn(m, i)
    <2>1. TempOf(c, i) = TempIn(m, i)
        BY DEF TempOf, TempIn
    <2> HIDE DEF i, m
    <2> QED BY <1>2, <2>1
<1>4. \/ /\ UNCHANGED files /\ call'[c].at = "undo" /\ call'[c].next = 1
         /\ call'[c].moves = SubSeq(m, 1, Len(m))
      \/ /\ Went(files, files', TempIn(m, i), new) /\ files'[new].title = new.title
         /\ call'[c].moves = m
         /\ \/ call'[c].at = "final" /\ call'[c].next = i + 1
            \/ call'[c].at = "snap"
    BY <1>1, <1>3, MvOutcome
<1> HIDE DEF m, i, new
<1>5. "crossed" \notin gone =>
        \A j \in 1 .. Len(m) : /\ IF j < i THEN Renewed(m, files, j) ELSE Hidden(m, files, j)
                               /\ Back(m, files, j) => Taken(m, files, j)
    BY <1>2 DEF Pass
<1>6. CASE /\ UNCHANGED files /\ call'[c].at = "undo" /\ call'[c].next = 1
           /\ call'[c].moves = SubSeq(m, 1, Len(m))
    <2> DEFINE t == SubSeq(m, 1, Len(m))
    <2>1. OldsApart(t)
        BY <1>2, <1>3, SubOlds
    <2>2. ASSUME "crossed" \notin gone
          PROVE  Pass("undo", 1, t, files)
        <3>1. \A j \in 1 .. Len(m) : /\ Hidden(m, files, j) \/ Renewed(m, files, j)
                                     /\ Back(m, files, j) => Taken(m, files, j)
            BY <1>5, <2>2
        <3> QED BY <1>2, <1>3, <3>1, RollbackPass
    <2> HIDE DEF t
    <2> QED BY <1>6, <2>1, <2>2 DEF Carried, PassOf, t
<1>7. CASE /\ Went(files, files', TempIn(m, i), new) /\ files'[new].title = new.title
           /\ call'[c].moves = m
           /\ \/ call'[c].at = "final" /\ call'[c].next = i + 1
              \/ call'[c].at = "snap"
    <2>1. ASSUME "crossed" \notin gone
          PROVE  Pass("final", i + 1, m, files')
        <3>1. /\ Renewed(m, files', i)
              /\ \A j \in 1 .. Len(m) :
                   /\ Renewed(m, files, j) => Renewed(m, files', j)
                   /\ j # i /\ Hidden(m, files, j) => Hidden(m, files', j)
                   /\ (Back(m, files, j) => Taken(m, files, j)) => (Back(m, files', j) => Taken(m, files', j))
            BY <1>2, <1>7, FinishMoves DEF new
        <3>2. ASSUME NEW j \in 1 .. Len(m)
              PROVE  /\ IF j < i + 1 THEN Renewed(m, files', j) ELSE Hidden(m, files', j)
                     /\ Back(m, files', j) => Taken(m, files', j)
            <4>1. j < i + 1 <=> j < i \/ j = i
                BY <1>2
            <4>2. /\ IF j < i THEN Renewed(m, files, j) ELSE Hidden(m, files, j)
                  /\ Back(m, files, j) => Taken(m, files, j)
                BY <1>5, <2>1
            <4>3. Back(m, files', j) => Taken(m, files', j)
                BY <3>1, <4>2
            <4>4. CASE j < i
                BY <3>1, <4>1, <4>2, <4>3, <4>4
            <4>5. CASE j = i
                BY <3>1, <4>1, <4>3, <4>5
            <4>6. CASE ~(j < i) /\ j # i
                BY <3>1, <4>1, <4>2, <4>3, <4>6
            <4> QED BY <4>4, <4>5, <4>6
        <3> QED BY <3>2 DEF Pass
    <2>2. Pass("snap", call'[c].next, m, files')
        BY DEF Pass
    <2> QED BY <1>2, <1>7, <2>1, <2>2 DEF Carried, PassOf
<1> QED BY <1>4, <1>6, <1>7

LEMMA UndoPass ==
    ASSUME IndInv, PassInv, NEW c \in Clients, Undo(c)
    PROVE  Carried(c)
<1> DEFINE m    == call[c].moves
           i    == call[c].next
           old  == m[i].old
           temp == TempIn(m, i)
           on   == [call[c] EXCEPT !.next = i + 1]
<1>1. call[c].at = "undo"
    BY DEF Undo, At
<1>2. /\ m \in Seq(Moved) /\ OldsApart(m) /\ Len(m) \in Nat /\ i \in Nat \ {0}
      /\ "crossed" \notin gone => Pass("undo", i, m, files) /\ DOMAIN call[c] = Fields
    BY <1>1, InPassIs DEF InPasses
<1>3. /\ on.at = "undo" /\ on.next = i + 1 /\ on.moves = m
    BY <1>1, InPassIs DEF Fields, InPasses
<1>4. TempOf(c, i) = temp
    BY DEF TempOf, TempIn
<1>5. \/ Done(c, "error")
      \/ /\ i \in 1 .. Len(m) /\ Goto(c, on)
         /\ \/ ~(Hidden(m, files, i) /\ ~Back(m, files, i)) /\ UNCHANGED files
            \/ /\ Hidden(m, files, i) /\ ~Back(m, files, i)
               /\ files' = MvTo(temp, old, files[temp].title)
    <2>1. i <= Len(m) => i \in 1 .. Len(m)
        <3> HIDE DEF i, m
        <3> QED BY <1>2
    <2>2. ~(i > Len(m)) => i <= Len(m)
        <3> HIDE DEF i, m
        <3> QED BY <1>2
    <2>3. /\ Tree(TempOf(c, i)) <=> Hidden(m, files, i)
          /\ Tree(m[i].old) <=> Back(m, files, i)
        BY <1>4 DEF Tree, Hidden, Back
    <2> QED BY <1>4, <2>1, <2>2, <2>3 DEF Undo, Stranded
<1>6. CASE Done(c, "error")
    <2>1. call'[c].at = "idle"
        BY <1>6, DoneAt
    <2> QED BY <2>1 DEF Carried, PassOf, Pass, InMoves, InPasses
<1>7. CASE /\ i \in 1 .. Len(m) /\ Goto(c, on)
           /\ \/ ~(Hidden(m, files, i) /\ ~Back(m, files, i)) /\ UNCHANGED files
              \/ /\ Hidden(m, files, i) /\ ~Back(m, files, i)
                 /\ files' = MvTo(temp, old, files[temp].title)
    <2>1. call'[c].at = "undo" /\ call'[c].next = i + 1 /\ call'[c].moves = m
        <3> HIDE DEF on, i, m
        <3> QED BY <1>3, <1>7, GotoIs
    <2> HIDE DEF on
    <2>2. CASE Hidden(m, files, i) /\ ~Back(m, files, i) /\ files' = MvTo(temp, old, files[temp].title)
        <3>1. Went(files, files', temp, old)
            BY <2>2, MvToIs DEF Tree, Hidden, Back
        <3> HIDE DEF m, i
        <3>2. /\ Back(m, files', i) /\ ~Hidden(m, files', i)
              /\ \A j \in 1 .. Len(m) : /\ Renewed(m, files, j) => Renewed(m, files', j)
                                        /\ Taken(m, files, j) => Taken(m, files', j)
                                        /\ j # i => /\ Hidden(m, files', j) <=> Hidden(m, files, j)
                                                    /\ Back(m, files', j) <=> Back(m, files, j)
            BY <1>2, <1>7, <3>1, UndoMoves
        <3>3. ASSUME "crossed" \notin gone
              PROVE  Pass("undo", i + 1, m, files')
            <4>1. \A j \in 1 .. Len(m) : j < i + 1 <=> j < i \/ j = i
                BY <1>2
            <4>2. ASSUME NEW j \in 1 .. Len(m)
                  PROVE  IF j < i + 1 THEN /\ Back(m, files', j) \/ Renewed(m, files', j)
                                           /\ Hidden(m, files', j) => Taken(m, files', j)
                         ELSE /\ Hidden(m, files', j) \/ Renewed(m, files', j)
                              /\ Back(m, files', j) => Taken(m, files', j)
                <5>1. CASE j = i
                    BY <3>2, <4>1, <5>1
                <5>2. CASE j # i
                    <6>1. IF j < i THEN /\ Back(m, files, j) \/ Renewed(m, files, j)
                                        /\ Hidden(m, files, j) => Taken(m, files, j)
                          ELSE /\ Hidden(m, files, j) \/ Renewed(m, files, j)
                               /\ Back(m, files, j) => Taken(m, files, j)
                        BY <1>2, <3>3 DEF Pass
                    <6>2. j < i + 1 <=> j < i
                        BY <4>1, <5>2
                    <6> QED BY <3>2, <5>2, <6>1, <6>2
                <5> QED BY <5>1, <5>2
            <4> QED BY <4>2 DEF Pass
        <3> QED BY <1>2, <2>1, <3>3 DEF Carried, PassOf
    <2>3. CASE ~(Hidden(m, files, i) /\ ~Back(m, files, i)) /\ UNCHANGED files
        <3> HIDE DEF m, i, old, temp
        <3>1. ASSUME "crossed" \notin gone
              PROVE  Pass("undo", i + 1, m, files)
            <4>1. \A j \in 1 .. Len(m) : j < i + 1 <=> j < i \/ j = i
                BY <1>2
            <4>2. ASSUME NEW j \in 1 .. Len(m)
                  PROVE  IF j < i + 1 THEN /\ Back(m, files, j) \/ Renewed(m, files, j)
                                           /\ Hidden(m, files, j) => Taken(m, files, j)
                         ELSE /\ Hidden(m, files, j) \/ Renewed(m, files, j)
                              /\ Back(m, files, j) => Taken(m, files, j)
                <5>1. IF j < i THEN /\ Back(m, files, j) \/ Renewed(m, files, j)
                                    /\ Hidden(m, files, j) => Taken(m, files, j)
                      ELSE /\ Hidden(m, files, j) \/ Renewed(m, files, j)
                           /\ Back(m, files, j) => Taken(m, files, j)
                    BY <1>2, <3>1 DEF Pass
                <5>2. j = i => ~(j < i)
                    BY <1>2
                <5>3. CASE j = i
                    <6>1. ~(Hidden(m, files, j) /\ ~Back(m, files, j))
                        BY <2>3, <5>3
                    <6> QED BY <4>1, <5>1, <5>2, <5>3, <6>1
                <5>4. CASE j # i
                    BY <4>1, <5>1, <5>4
                <5> QED BY <5>3, <5>4
            <4> QED BY <4>2 DEF Pass
        <3> QED BY <1>2, <2>1, <2>3, <3>1 DEF Carried, PassOf
    <2> QED BY <1>7, <2>2, <2>3
<1> QED BY <1>5, <1>6, <1>7

\* The plan of a renumber, and the moves it has files for: no two are from
\* one path.
LEMMA PlanPass ==
    ASSUME IndInv, NEW c \in Clients, Plan(c)
    PROVE  call'[c].at \in InMoves => call'[c].at = "retitle" /\ OldsApart(call'[c].moves)
<1>1. DOMAIN call[c] = Fields
    BY CallIs DEF Plan, At
<1>2. CASE \E answer : Done(c, answer)
    BY <1>2, DoneAt DEF InMoves, InPasses
<1>3. CASE ~ \E answer : Done(c, answer)
    <2>1. PICK s \in Listings(chapters) :
            LET new == [x \in Ids(s) |-> NewTitle(s, x, call[c].start)]
                changing == Picked(Numbered(s), {x \in Ids(s) : new[x] # chapters[x].title})
            IN Goto(c, [call[c] EXCEPT
                          !.at = "retitle", !.members = s,
                          !.titles = [x \in Ids(changing) |-> new[x]],
                          !.moves = [i \in 1 .. Len(changing) |->
                            LET ch == chapters[changing[i]] IN
                            [old |-> Path(ch), new |-> Path([ch EXCEPT !.title = new[changing[i]]])]]])
        BY <1>3 DEF Plan
    <2> DEFINE new == [x \in Ids(s) |-> NewTitle(s, x, call[c].start)]
               changing == Picked(Numbered(s), {x \in Ids(s) : new[x] # chapters[x].title})
               titles == [x \in Ids(changing) |-> new[x]]
               move(i) == LET ch == chapters[changing[i]] IN
                          [old |-> Path(ch), new |-> Path([ch EXCEPT !.title = new[changing[i]]])]
               moves == [i \in 1 .. Len(changing) |-> move(i)]
               r == [call[c] EXCEPT !.at = "retitle", !.members = s, !.titles = titles, !.moves = moves]
    <2>2. Goto(c, r)
        BY <2>1
    <2>3. chapters \in Graphs /\ UniqueTitles(chapters)
        BY DEF IndInv, TypeOK, Graphs
    <2>4. s \in Seq(Chapters) /\ Ids(s) \subseteq Live(chapters) /\ NoRepeats(s)
        BY <2>3, ListingsOK
    <2>5. Numbered(s) \in Seq(Chapters) /\ Ids(Numbered(s)) \subseteq Ids(s) /\ NoRepeats(Numbered(s))
        BY <2>4, PickedProperties DEF Numbered
    <2>6. changing \in Seq(Chapters) /\ Ids(changing) \subseteq Ids(s) /\ NoRepeats(changing)
        <3> HIDE DEF new
        <3> QED BY <2>5, PickedProperties
    <2> HIDE DEF new, changing, titles
    <2>7. Len(changing) \in Nat /\ \A i \in 1 .. Len(changing) : changing[i] \in Live(chapters)
        BY <2>4, <2>6, LenProperties DEF Ids
    <2>8. Len(moves) = Len(changing) /\ \A i \in 1 .. Len(changing) : moves[i].old = Path(chapters[changing[i]])
        BY <2>7
    <2> HIDE DEF moves
    <2>9. OldsApart(moves)
        <3> SUFFICES ASSUME NEW i \in 1 .. Len(changing), NEW j \in 1 .. Len(changing),
                            moves[i].old = moves[j].old
                     PROVE  i = j
            BY <2>8 DEF OldsApart
        <3>1. changing[i] = changing[j]
            BY <2>3, <2>7, <2>8, SamePath
        <3> QED BY <2>6, <3>1 DEF NoRepeats
    <2>10. r.at = "retitle" /\ r.moves = moves
        BY <1>1 DEF Fields
    <2> HIDE DEF r
    <2>11. call'[c] = r
        BY <2>2, GotoIs
    <2> QED BY <2>9, <2>10, <2>11
<1> QED BY <1>2, <1>3

LEMMA RetitlePass ==
    ASSUME IndInv, PassInv, NEW c \in Clients, Retitle(c)
    PROVE  call'[c].at \in InMoves => call'[c].at = "moves" /\ OldsApart(call'[c].moves)
<1>1. DOMAIN call[c] = Fields /\ call[c].at = "retitle"
    BY CallIs DEF Retitle, At
<1>2. OldsApart(call[c].moves)
    BY <1>1 DEF PassInv, InMoves
<1>3. CASE \E answer : Done(c, answer)
    BY <1>3, DoneAt DEF InMoves, InPasses
<1>4. CASE ~ \E answer : Done(c, answer)
    <2> DEFINE r == [call[c] EXCEPT !.at = "moves"]
    <2>1. Goto(c, r)
        BY <1>4 DEF Retitle, Step
    <2>2. r.at = "moves" /\ r.moves = call[c].moves
        BY <1>1 DEF Fields
    <2> HIDE DEF r
    <2>3. call'[c] = r
        BY <2>1, GotoIs
    <2> QED BY <1>2, <2>2, <2>3
<1> QED BY <1>3, <1>4

LEMMA MovesPass ==
    ASSUME IndInv, PassInv, NEW c \in Clients, Moves(c)
    PROVE  call'[c].at \in InMoves =>
             call'[c].at = "aside" /\ call'[c].next = 1 /\ OldsApart(call'[c].moves)
<1> DEFINE all   == call[c].moves
           moves == Picked(all, {m \in Ids(all) : Tree(m.old)})
           r     == [call[c] EXCEPT !.at = "aside", !.moves = moves, !.next = 1]
<1>1. DOMAIN call[c] = Fields /\ Local(call[c]) /\ call[c].at = "moves"
    BY CallIs DEF Moves, At
<1>2. (\E answer : Done(c, answer)) \/ Goto(c, r)
    BY DEF Moves
<1>3. all \in Seq(Moved) /\ OldsApart(all)
    BY <1>1 DEF Local, PassInv, InMoves
<1> HIDE DEF all
<1>4. NoRepeats(all)
    BY <1>3 DEF OldsApart, NoRepeats
<1>5. moves \in Seq(Moved) /\ NoRepeats(moves) /\ Ids(moves) \subseteq Ids(all)
    BY <1>3, <1>4, PickedProperties
<1> HIDE DEF moves
<1>6. OldsApart(moves)
    <2> SUFFICES ASSUME NEW i \in 1 .. Len(moves), NEW j \in 1 .. Len(moves),
                        moves[i].old = moves[j].old
                 PROVE  i = j
        BY DEF OldsApart
    <2>1. moves[i] \in Ids(all) /\ moves[j] \in Ids(all)
        BY <1>5 DEF Ids
    <2>2. PICK k \in 1 .. Len(all) : moves[i] = all[k]
        BY <2>1 DEF Ids
    <2>3. PICK l \in 1 .. Len(all) : moves[j] = all[l]
        BY <2>1 DEF Ids
    <2>4. k = l
        BY <1>3, <2>2, <2>3 DEF OldsApart
    <2> QED BY <1>5, <2>2, <2>3, <2>4 DEF NoRepeats
<1>7. r.at = "aside" /\ r.next = 1 /\ r.moves = moves
    BY <1>1 DEF Fields
<1> HIDE DEF r
<1>8. CASE \E answer : Done(c, answer)
    BY <1>8, DoneAt DEF InMoves, InPasses
<1>9. CASE Goto(c, r)
    <2>1. call'[c] = r
        BY <1>9, GotoIs
    <2> QED BY <1>6, <1>7, <2>1
<1> QED BY <1>2, <1>8, <1>9

LEMMA StepAt ==
    ASSUME IndInv, NEW c \in Clients, call[c].at # "idle", NEW step, Step(c, step)
    PROVE  call'[c].at = step
<1> DEFINE r == [call[c] EXCEPT !.at = step]
<1>1. r.at = step /\ Goto(c, r)
    BY CallIs DEF Fields, Step
<1> HIDE DEF r
<1> QED BY <1>1, GotoIs

\* No other step enters the passes.
LEMMA OutsidePass ==
    ASSUME IndInv, NEW c \in Clients, Begin(c) \/ Resolve(c) \/ Check(c) \/ Load(c)
             \/ Create(c) \/ Update(c) \/ Delete(c) \/ List(c) \/ Adopt(c) \/ Reorder(c)
             \/ Materialize(c) \/ Snap(c) \/ Rename(c) \/ RemoveFile(c)
    PROVE  call'[c].at \notin InMoves
<1>1. ASSUME NEW answer, Done(c, answer)
      PROVE  call'[c].at \notin InMoves
    BY <1>1, DoneAt DEF InMoves, InPasses
<1>2. ASSUME NEW r, Goto(c, r), r.at \notin InMoves
      PROVE  call'[c].at \notin InMoves
    BY <1>2, GotoIs
<1>3. ASSUME NEW step, step \notin InMoves, Step(c, step), call[c].at # "idle"
      PROVE  call'[c].at \notin InMoves
    BY <1>3, StepAt
<1>4. CASE Begin(c)
    <2> DEFINE do == Head(script[c])
               r == [f \in DOMAIN Idle |->
                  IF f = "at" THEN CASE do.op = "create" -> "resolve"
                                     [] do.op = "renumber" -> "plan" [] OTHER -> "load"
                  ELSE IF f \in DOMAIN do THEN do[f] ELSE Idle[f]]
    <2>1. Goto(c, r)
        BY <1>4 DEF Begin
    <2> HIDE DEF do
    <2>2. r.at \in {"resolve", "plan", "load"}
        BY IdleFields DEF Fields
    <2> HIDE DEF r
    <2> QED BY <1>2, <2>1, <2>2 DEF InMoves, InPasses
<1>5. call[c].at # "idle" => DOMAIN call[c] = Fields
    BY CallIs
<1>6. CASE Resolve(c)
    <2>1. CASE \E answer : Done(c, answer)
        BY <1>1, <2>1
    <2>2. CASE ~ \E answer : Done(c, answer)
        <3> DEFINE r == [call[c] EXCEPT !.at = "check", !.index = IndexAfter(call[c].after),
                       !.seen = IF call[c].after = NoChapter THEN 0 ELSE Listed(call[c].after)]
        <3>1. Goto(c, r) /\ r.at = "check"
            BY <1>5, <1>6, <2>2 DEF Resolve, At, Fields
        <3> HIDE DEF r
        <3> QED BY <1>2, <3>1 DEF InMoves, InPasses
    <2> QED BY <2>1, <2>2
<1>7. CASE Load(c)
    <2>1. CASE \E answer : Done(c, answer)
        BY <1>1, <2>1
    <2>2. CASE ~ \E answer : Done(c, answer)
        <3> DEFINE at == CASE call[c].op = "update" -> "check"
                           [] call[c].op = "move"   -> "list"
                           [] call[c].op = "delete" -> "remove"
                   r == [call[c] EXCEPT !.ch = chapters[call[c].id], !.at = at]
        <3>1. Goto(c, r)
            BY <1>7, <2>2 DEF Load
        <3>2. call[c].op \in {"move", "update", "delete"}
            BY <1>7, CallIs DEF Load, At, Local
        <3>3. at \in {"check", "list", "remove"}
            BY <3>2
        <3> HIDE DEF at
        <3>4. r.at = at
            BY <1>5, <1>7 DEF Load, At, Fields
        <3> HIDE DEF r
        <3> QED BY <1>2, <3>1, <3>3, <3>4 DEF InMoves, InPasses
    <2> QED BY <2>1, <2>2
<1>8. CASE List(c)
    <2>1. CASE \E answer : Done(c, answer)
        BY <1>1, <2>1
    <2>2. CASE ~ \E answer : Done(c, answer)
        <3> DEFINE x == call[c].id
                   after == call[c].after
        <3>1. PICK s \in Listings(chapters) :
                LET neighbor == IF after = NoChapter THEN s[1] ELSE after
                    adopts   == /\ Reordered(s, x, after) # s
                                /\ Category(neighbor) = Category(x)
                                /\ call[c].ch.act # chapters[neighbor].act
                IN  Goto(c, [call[c] EXCEPT
                               !.at = IF adopts THEN "adopt" ELSE "reorder",
                               !.ch.act = IF adopts THEN chapters[neighbor].act ELSE @,
                               !.order = Reordered(s, x, after), !.members = s])
            BY <1>8, <2>2 DEF List
        <3> DEFINE neighbor == IF after = NoChapter THEN s[1] ELSE after
                   adopts   == /\ Reordered(s, x, after) # s
                               /\ Category(neighbor) = Category(x)
                               /\ call[c].ch.act # chapters[neighbor].act
                   at == IF adopts THEN "adopt" ELSE "reorder"
                   r == [call[c] EXCEPT
                           !.at = at,
                           !.ch.act = IF adopts THEN chapters[neighbor].act ELSE @,
                           !.order = Reordered(s, x, after), !.members = s]
        <3>2. Goto(c, r)
            BY <3>1
        <3>3. at \in {"adopt", "reorder"}
            OBVIOUS
        <3>4. DOMAIN call[c] = Fields
            BY <1>5, <1>8 DEF List, At
        <3> HIDE DEF adopts, at, neighbor, x, after
        <3>5. r.at = at
            BY <3>4 DEF Fields
        <3> HIDE DEF r
        <3> QED BY <1>2, <3>2, <3>3, <3>5 DEF InMoves, InPasses
    <2> QED BY <2>1, <2>2
<1>9. CASE Create(c) \/ Update(c) \/ Delete(c) \/ Adopt(c)
    <2>1. ASSUME NEW w, NEW step, Commit(c, w, step), step \notin InMoves
          PROVE  (\E answer : Done(c, answer)) \/ Step(c, step)
        BY <2>1 DEF Commit
    <2>2. call[c].at # "idle"
        BY <1>9 DEF Create, Update, Delete, Adopt, At
    <2>3. ASSUME NEW w, NEW step, Commit(c, w, step), step \notin InMoves
          PROVE  call'[c].at \notin InMoves
        BY <1>1, <1>3, <2>1, <2>2, <2>3
    <2>4. \A step \in {"materialize", "done", "rename", "reorder"} : step \notin InMoves
        BY DEF InMoves, InPasses
    <2>5. CASE Create(c)
        BY <2>3, <2>4, <2>5 DEF Create
    <2>6. CASE Update(c)
        BY <2>3, <2>4, <2>6 DEF Update
    <2>7. CASE Delete(c)
        BY <2>3, <2>4, <2>7 DEF Delete
    <2>8. CASE Adopt(c)
        BY <2>3, <2>4, <2>8 DEF Adopt
    <2> QED BY <1>9, <2>5, <2>6, <2>7, <2>8
<1>10. CASE Check(c) \/ Reorder(c) \/ Materialize(c) \/ Snap(c) \/ Rename(c) \/ RemoveFile(c)
    <2>1. \E step \in {"commit", "snap", "drop"} : (\E answer : Done(c, answer)) \/ Step(c, step)
        BY <1>10 DEF Check, Reorder, Materialize, Snap, Rename, RemoveFile
    <2>2. call[c].at # "idle"
        BY <1>10 DEF Check, Reorder, Materialize, Snap, Rename, RemoveFile, At
    <2> QED BY <1>1, <1>3, <2>1, <2>2 DEF InMoves, InPasses
<1> QED BY <1>4, <1>6, <1>7, <1>8, <1>9, <1>10

\* What a client does keeps its own passes, and those of the others, unless
\* it moves a file while they are under way.
LEMMA OwnPass ==
    ASSUME IndInv, PassInv, NEW c \in Clients, StepOf(c)
    PROVE  Carried(c)
<1>1. CASE Aside(c) \/ Finish(c) \/ Undo(c)
    BY <1>1, AsidePass, FinishPass, UndoPass
<1>2. CASE Plan(c) \/ Retitle(c) \/ Moves(c)
    <2>1. /\ call'[c].at \in InMoves => OldsApart(call'[c].moves)
          /\ call'[c].at \in InPasses => call'[c].at = "aside" /\ call'[c].next = 1
        BY <1>2, PlanPass, RetitlePass, MovesPass DEF InMoves, InPasses
    <2>2. PassOf(call'[c], files')
        <3>1. \A i \in 1 .. Len(call'[c].moves) : ~(i < 1)
            OBVIOUS
        <3> QED BY <2>1, <3>1 DEF PassOf, Pass, InPasses
    <2> QED BY <2>1, <2>2 DEF Carried
<1>3. CASE ~(Aside(c) \/ Finish(c) \/ Undo(c) \/ Plan(c) \/ Retitle(c) \/ Moves(c))
    <2>1. call'[c].at \notin InMoves
        BY <1>3, OutsidePass DEF StepOf
    <2> QED BY <2>1 DEF Carried, PassOf, Pass, InMoves, InPasses
<1> QED BY <1>1, <1>2, <1>3

LEMMA OthersPass ==
    ASSUME IndInv, NEW c \in Clients, NEW d \in Clients, c # d, StepOf(d),
           call[c].at \in InPasses
    PROVE  "crossed" \in gone' \/ SameTree(files, files')
<1>1. c \in Passing /\ ~(Passing \subseteq {d})
    BY DEF Passing, InPasses
<1>2. CASE \/ Materialize(d) \/ Rename(d) \/ RemoveFile(d)
           \/ Aside(d) \/ Finish(d) \/ Undo(d)
    <2>1. Crossed(d)
        BY <1>2 DEF Materialize, Rename, RemoveFile, Aside, Finish, Undo
    <2> QED BY <1>1, <2>1 DEF Crossed
<1>3. CASE Snap(d)
    <2>1. ASSUME NEW p \in DOMAIN files
          PROVE  [files[p] EXCEPT !.tracked = TRUE].title = files[p].title
        BY DEF IndInv, TypeOK, File
    <2> QED BY <1>3, <2>1 DEF Snap, SameTree
<1>4. CASE ~(\/ Materialize(d) \/ Rename(d) \/ RemoveFile(d)
             \/ Aside(d) \/ Finish(d) \/ Undo(d) \/ Snap(d))
    <2>1. UNCHANGED files
        BY <1>4 DEF StepOf, Begin, Resolve, Check, Load, Create, Update, Delete, List, Adopt,
                    Reorder, Plan, Retitle, Moves
    <2> QED BY <2>1 DEF SameTree
<1> QED BY <1>2, <1>3, <1>4

LEMMA PassNext ==
    ASSUME IndInv, PassInv, [Next]_vars
    PROVE  PassInv'
<1>1. CASE UNCHANGED vars
    BY <1>1 DEF vars, PassInv, PassOf, Pass, Hidden, Back, Renewed, Taken
<1>2. ASSUME NEW d \in Clients, StepOf(d)
      PROVE  PassInv'
    <2>1. "crossed" \in gone => "crossed" \in gone'
        BY <1>2 DEF StepOf, Begin, Resolve, Check, Load, Create, Update, Delete, List, Adopt, Reorder,
                    Materialize, Snap, Rename, RemoveFile, Plan, Retitle, Moves, Aside, Finish, Undo, Crossed
    <2>2. ASSUME NEW c \in Clients
          PROVE  /\ call'[c].at \in InMoves => OldsApart(call'[c].moves)
                 /\ "crossed" \notin gone' => PassOf(call'[c], files')
        <3>1. CASE c = d
            BY <1>2, <2>1, <3>1, OwnPass DEF Carried
        <3>2. CASE c # d
            <4>1. call'[c] = call[c]
                BY <1>2, <3>2, OnlyItself
            <4>2. call[c].at \in InMoves => OldsApart(call[c].moves)
                BY DEF PassInv
            <4>3. ASSUME "crossed" \notin gone', call[c].at \in InPasses
                  PROVE  PassOf(call[c], files')
                <5>1. PassOf(call[c], files)
                    BY <2>1, <4>3 DEF PassInv
                <5>2. SameTree(files, files')
                    BY <1>2, <3>2, <4>3, OthersPass
                <5> QED BY <5>1, <5>2, SameTreePass DEF PassOf
            <4>4. call[c].at \notin InPasses => PassOf(call[c], files')
                BY DEF PassOf, Pass, InPasses
            <4> QED BY <4>1, <4>2, <4>3, <4>4
        <3> QED BY <3>1, <3>2
    <2> QED BY <2>2 DEF PassInv
<1> QED BY <1>1, <1>2 DEF Next, StepOf

LEMMA InitPass == Init => PassInv
<1> SUFFICES ASSUME Init
             PROVE  PassInv
    OBVIOUS
<1>1. \A c \in Clients : call[c].at = "idle"
    BY DEF Init, Idle
<1> QED BY <1>1 DEF PassInv, PassOf, Pass, InMoves, InPasses

LEMMA PassInvHolds == Spec => []PassInv
<1>1. IndInv /\ PassInv /\ [Next]_vars => PassInv'
    BY PassNext
<1> QED BY <1>1, InitPass, IndInvHolds, PTL DEF Spec

\* When a rollback has come to its end, whichever git command failed before
\* it, every file the renumber had set aside is back or at its new title, and
\* one is left hidden only where another chapter of the renumber has taken
\* its old title, for any number of chapters, as long as no other call wrote
\* or moved a file meanwhile (RollbackRestores).
THEOREM RollbackBringsBack == Spec => []RollbackRestores
<1>1. ASSUME IndInv, PassInv
      PROVE  RollbackRestores
    <2> SUFFICES ASSUME "crossed" \notin gone, NEW c \in Clients, At(c, "undo"),
                        call[c].next > Len(call[c].moves), NEW i \in 1 .. Len(call[c].moves)
                 PROVE  /\ Tree(call[c].moves[i].old) \/ Finished(c, i)
                        /\ Tree(TempOf(c, i)) =>
                             \E j \in 1 .. Len(call[c].moves) :
                               call[c].moves[j].new = call[c].moves[i].old /\ Finished(c, j)
        BY DEF RollbackRestores
    <2> DEFINE m == call[c].moves
    <2>1. call[c].at = "undo" /\ Len(m) \in Nat /\ call[c].next \in Nat \ {0}
          /\ Pass("undo", call[c].next, m, files)
        BY <1>1, InPassIs DEF At, InPasses
    <2>2. i < call[c].next
        BY <2>1
    <2>3. (Back(m, files, i) \/ Renewed(m, files, i)) /\ (Hidden(m, files, i) => Taken(m, files, i))
        BY <2>1, <2>2 DEF Pass
    <2>4. \A j \in 1 .. Len(m) : Renewed(m, files, j) => Finished(c, j)
        BY DEF Renewed, Finished, Hidden, TempIn, TempOf, Tree
    <2> QED BY <2>3, <2>4 DEF Back, Hidden, Taken, TempIn, TempOf, Tree
<1> QED BY <1>1, IndInvHolds, PassInvHolds, PTL

-----------------------------------------------------------------------------
(* Lists: taking one out, putting one in. *)
-----------------------------------------------------------------------------
\* The one place of an element that is there once.
LEMMA PositionIs ==
    ASSUME NEW s, NoRepeats(s), NEW i \in 1 .. Len(s)
    PROVE  Position(s, s[i]) = i
<1>1. s[i] \in Ids(s)
    BY DEF Ids
<1>2. Position(s, s[i]) \in 1 .. Len(s) /\ s[Position(s, s[i])] = s[i]
    BY <1>1, PositionOK
<1> QED BY <1>2 DEF NoRepeats

\* A list without one of its elements: those after it move up by one.
LEMMA OthersIs ==
    ASSUME NEW W, NEW s \in Seq(W), NoRepeats(s), NEW p \in 1 .. Len(s)
    PROVE  /\ Others(s, s[p]) \in Seq(W) /\ Len(Others(s, s[p])) = Len(s) - 1
           /\ \A i \in 1 .. Len(s) - 1 : Others(s, s[p])[i] = IF i < p THEN s[i] ELSE s[i + 1]
<1> DEFINE x == s[p]
           T == Ids(s) \ {x}
<1>1. Len(s) \in Nat /\ p \in Nat /\ 1 <= p /\ p <= Len(s)
    BY LenProperties
<1>2. \A i \in 1 .. Len(s) : s[i] \in T <=> i # p
    BY DEF Ids, NoRepeats
<1> HIDE DEF x, T
<1>3. PICK r : /\ r[0] = << >> /\ r[Len(s)] = Picked(s, T)
               /\ \A i \in 1 .. Len(s) :
                    r[i] = IF s[i] \in T THEN Append(r[i - 1], s[i]) ELSE r[i - 1]
    BY PickedIsChain
<1> DEFINE P(m) == /\ r[m] \in Seq(W)
                   /\ Len(r[m]) = IF m < p THEN m ELSE m - 1
                   /\ \A i \in 1 .. Len(r[m]) : r[m][i] = IF i < p THEN s[i] ELSE s[i + 1]
           S == {m \in Nat : m <= Len(s) => P(m)}
<1>4. 0 \in S
    <2>1. << >> \in Seq(W) /\ Len(<< >>) = 0
        BY EmptySeq
    <2>2. P(0)
        BY <1>1, <1>3, <2>1
    <2> HIDE DEF P
    <2> QED BY <2>2
<1>5. ASSUME NEW m \in Nat, m \in S
      PROVE  m + 1 \in S
    <2> SUFFICES ASSUME m + 1 <= Len(s)
                 PROVE  P(m + 1)
        OBVIOUS
    <2> DEFINE t == r[m]
    <2>1. P(m) /\ m + 1 \in 1 .. Len(s) /\ (m + 1) - 1 = m /\ s[m + 1] \in W
        BY <1>1, <1>5, ElementOfSeq
    <2>2. r[m + 1] = IF m + 1 # p THEN Append(t, s[m + 1]) ELSE t
        BY <1>2, <1>3, <2>1
    <2>3. CASE m + 1 = p
        BY <1>1, <2>1, <2>2, <2>3
    <2>4. CASE m + 1 # p
        <3>1. t \in Seq(W) /\ Len(t) \in Nat /\ Len(t) = IF m < p THEN m ELSE m - 1
            BY <2>1, LenProperties
        <3> DEFINE u == Append(t, s[m + 1])
        <3>2. /\ u \in Seq(W) /\ Len(u) = Len(t) + 1
              /\ \A i \in 1 .. Len(t) : u[i] = t[i]
              /\ u[Len(t) + 1] = s[m + 1]
            BY SMTT(30), <2>1, <3>1, AppendProperties
        <3>3. \A i \in 1 .. Len(t) : t[i] = IF i < p THEN s[i] ELSE s[i + 1]
            BY <2>1
        <3>4. r[m + 1] = u
            BY <2>2, <2>4
        <3> HIDE DEF t, u
        <3>5. Len(u) = IF m + 1 < p THEN m + 1 ELSE m
            BY <1>1, <2>4, <3>1, <3>2
        <3>6. ASSUME NEW i \in 1 .. Len(u)
              PROVE  u[i] = IF i < p THEN s[i] ELSE s[i + 1]
            <4>1. CASE i \in 1 .. Len(t)
                BY <3>2, <3>3, <4>1
            <4>2. CASE i = Len(t) + 1
                BY <1>1, <2>4, <3>1, <3>2, <4>2
            <4> QED BY <3>1, <3>2, <4>1, <4>2
        <3> QED BY <3>2, <3>4, <3>5, <3>6
    <2> QED BY <2>3, <2>4
<1>6. Len(s) \in S
    <2> HIDE DEF S
    <2> QED BY <1>1, <1>4, <1>5, SetInduction
<1>7. P(Len(s))
    BY <1>1, <1>6
<1>8. Others(s, x) = r[Len(s)]
    BY <1>3 DEF Others, T
<1>9. Len(r[Len(s)]) = Len(s) - 1
    BY <1>1, <1>7
<1> QED BY <1>7, <1>8, <1>9 DEF x

\* What is left has no repeats and everything but the one taken out.
LEMMA OthersHold ==
    ASSUME NEW W, NEW s \in Seq(W), NoRepeats(s), NEW x \in Ids(s)
    PROVE  /\ Others(s, x) \in Seq(W) /\ NoRepeats(Others(s, x))
           /\ Ids(Others(s, x)) = Ids(s) \ {x}
<1>1. Ids(Others(s, x)) = Ids(s) \cap (Ids(s) \ {x})
    BY PickedProperties DEF Others
<1> QED BY <1>1, PickedProperties DEF Others

\* A list with x put in before its i-th element.
LEMMA InsertAtIs ==
    ASSUME NEW W, NEW s \in Seq(W), NEW x \in W, NEW i \in 1 .. Len(s) + 1
    PROVE  /\ InsertAt(s, i, x) \in Seq(W) /\ Len(InsertAt(s, i, x)) = Len(s) + 1
           /\ \A j \in 1 .. Len(s) + 1 :
                InsertAt(s, i, x)[j] = IF j < i THEN s[j] ELSE IF j = i THEN x ELSE s[j - 1]
<1>1. Len(s) \in Nat /\ i \in Nat /\ 1 <= i /\ i <= Len(s) + 1
    BY LenProperties
<1> DEFINE a == SubSeq(s, 1, i - 1)
           b == SubSeq(s, i, Len(s))
           m == a \o <<x>>
<1>2. a \in Seq(W) /\ Len(a) = i - 1 /\ \A j \in 1 .. i - 1 : a[j] = s[j]
    <2>1. \A j \in 1 .. i - 1 : j \in 1 .. Len(s)
        BY <1>1
    <2>2. 1 \in Int /\ i - 1 \in Int /\ (1 <= i - 1 => 1 \in 1 .. Len(s) /\ i - 1 \in 1 .. Len(s))
        BY <1>1
    <2> QED BY <1>1, <2>1, <2>2, SubSeqProperties
<1>3. b \in Seq(W) /\ Len(b) = Len(s) + 1 - i /\ \A j \in 1 .. Len(s) + 1 - i : b[j] = s[i + j - 1]
    BY <1>1, SubSeqProperties
<1>4. <<x>> \in Seq(W) /\ Len(<<x>>) = 1 /\ <<x>>[1] = x
    OBVIOUS
<1> HIDE DEF a, b
<1>5. m \in Seq(W) /\ Len(m) = i /\ \A j \in 1 .. i : m[j] = IF j < i THEN s[j] ELSE x
    <2>1. m \in Seq(W) /\ Len(m) = Len(a) + 1
          /\ \A j \in 1 .. Len(a) + 1 : m[j] = IF j <= Len(a) THEN a[j] ELSE <<x>>[j - Len(a)]
        BY <1>2, <1>4, ConcatProperties
    <2> QED BY <1>1, <1>2, <1>4, <2>1
<1> HIDE DEF m
<1>6. /\ m \o b \in Seq(W) /\ Len(m \o b) = Len(m) + Len(b)
      /\ \A j \in 1 .. Len(m) + Len(b) : (m \o b)[j] = IF j <= Len(m) THEN m[j] ELSE b[j - Len(m)]
    BY <1>3, <1>5, ConcatProperties
<1>7. InsertAt(s, i, x) = m \o b
    BY DEF InsertAt, m, a, b
<1>8. Len(m) + Len(b) = Len(s) + 1
    BY <1>1, <1>3, <1>5
<1>9. ASSUME NEW j \in 1 .. Len(s) + 1
      PROVE  (m \o b)[j] = IF j < i THEN s[j] ELSE IF j = i THEN x ELSE s[j - 1]
    <2>1. CASE j <= i
        BY <1>1, <1>5, <1>6, <1>8, <2>1
    <2>2. CASE j > i
        <3>1. (m \o b)[j] = b[j - i]
            BY <1>1, <1>5, <1>6, <1>8, <2>2
        <3>2. j - i \in 1 .. Len(s) + 1 - i /\ i + (j - i) - 1 = j - 1
            BY <1>1, <2>2
        <3>3. b[j - i] = s[i + (j - i) - 1]
            BY <1>3, <3>2
        <3> QED BY <1>1, <2>2, <3>1, <3>2, <3>3
    <2>3. j <= i \/ j > i
        BY <1>1
    <2> QED BY <2>1, <2>2, <2>3
<1> QED BY <1>6, <1>7, <1>8, <1>9

-----------------------------------------------------------------------------
(* The list of the chapters, when their indexes determine it. *)
-----------------------------------------------------------------------------
Indexed(g)   == \A x \in Live(g) : g[x] \in Chapter /\ g[x].index \in Nat
Rising(g, s) == \A i, j \in 1 .. Len(s) : i < j => g[s[i]].index < g[s[j]].index
Ranked(g, s) == s \in Seq(Chapters) /\ Ids(s) = Live(g) /\ Rising(g, s)

\* Two rising orders of the same things are one.
LEMMA SameOrder ==
    ASSUME NEW n \in Nat, NEW X, NEW key \in [X -> Nat], NEW s \in [1 .. n -> X], NEW t \in [1 .. n -> X],
           \A i \in 1 .. n : (\E j \in 1 .. n : s[i] = t[j]) /\ (\E j \in 1 .. n : t[i] = s[j]),
           \A i, j \in 1 .. n : i < j => key[s[i]] < key[s[j]] /\ key[t[i]] < key[t[j]]
    PROVE  s = t
<1> DEFINE S == {m \in Nat : m <= n => \A i \in 1 .. m : s[i] = t[i]}
<1>1. 0 \in S
    OBVIOUS
<1>2. ASSUME NEW m \in Nat, m \in S
      PROVE  m + 1 \in S
    <2> SUFFICES ASSUME m + 1 <= n
                 PROVE  \A i \in 1 .. m + 1 : s[i] = t[i]
        OBVIOUS
    <2>1. m + 1 \in 1 .. n /\ \A i \in 1 .. m : i \in 1 .. n /\ i < m + 1 /\ s[i] = t[i]
        BY <1>2
    <2> DEFINE a == s[m + 1]
               b == t[m + 1]
    <2>2. PICK k \in 1 .. n : a = t[k]
        BY <2>1
    <2>3. PICK l \in 1 .. n : b = s[l]
        BY <2>1
    <2>4. a \in X /\ b \in X /\ key[a] \in Nat /\ key[b] \in Nat
        BY <2>1
    <2>5. k # m + 1 => key[b] < key[a]
        <3>1. ASSUME k \in 1 .. m
              PROVE  FALSE
            <4>1. s[k] = a /\ key[s[k]] < key[a]
                BY <2>1, <2>2, <3>1
            <4> QED BY <2>4, <4>1
        <3> QED BY <2>1, <2>2, <3>1
    <2>6. l # m + 1 => key[a] < key[b]
        <3>1. ASSUME l \in 1 .. m
              PROVE  FALSE
            <4>1. t[l] = b /\ key[t[l]] < key[b]
                BY <2>1, <2>3, <3>1
            <4> QED BY <2>4, <4>1
        <3> QED BY <2>1, <2>3, <3>1
    <2> HIDE DEF a, b
    <2>7. k = m + 1 \/ l = m + 1
        BY <2>4, <2>5, <2>6
    <2>8. s[m + 1] = t[m + 1]
        BY <2>2, <2>3, <2>7 DEF a, b
    <2>9. ASSUME NEW i \in 1 .. m + 1
          PROVE  s[i] = t[i]
        <3>1. i \in 1 .. m \/ i = m + 1
            OBVIOUS
        <3> QED BY <2>1, <2>8, <3>1
    <2> QED BY <2>9
<1>3. n \in S
    <2> HIDE DEF S
    <2> QED BY <1>1, <1>2, SetInduction
<1>4. \A i \in 1 .. n : s[i] = t[i]
    BY <1>3
<1> QED BY <1>4

\* The chapters in the order of their indexes are the only listing.
LEMMA RankedIsTheList ==
    ASSUME NEW g \in Graphs, Indexed(g), NEW s, Ranked(g, s)
    PROVE  Listings(g) = {s} /\ TheList(g) = s /\ NoRepeats(s)
<1> DEFINE L == Live(g)
           n == Len(s)
<1>1. n \in Nat /\ s \in [1 .. n -> L] /\ \A x \in L : \E i \in 1 .. n : s[i] = x
    <2>1. n \in Nat /\ DOMAIN s = 1 .. n /\ s = [i \in 1 .. n |-> s[i]]
        BY LenProperties DEF Ranked
    <2>2. \A i \in 1 .. n : s[i] \in L
        BY DEF Ranked, Ids
    <2> QED BY <2>1, <2>2 DEF Ranked, Ids
<1>2. \A x \in L : g[x].index \in Nat /\ g[x].index # NoIndex
    BY NumberAssumption DEF Indexed
<1>3. NoRepeats(s)
    <2> SUFFICES ASSUME NEW i \in 1 .. n, NEW j \in 1 .. n, s[i] = s[j], i < j
                 PROVE  FALSE
        BY <1>1 DEF NoRepeats
    <2>1. g[s[i]].index < g[s[j]].index /\ g[s[i]].index \in Nat
        BY <1>1, <1>2 DEF Ranked, Rising
    <2> QED BY <2>1
<1>4. IsFiniteSet(L) /\ Cardinality(L) = n
    <2>1. s \in Bijection(1 .. n, L)
        BY <1>1, <1>3 DEF Bijection, Injection, Surjection, IsInjective, NoRepeats
    <2>2. ExistsBijection(1 .. n, L)
        BY <2>1 DEF ExistsBijection
    <2>3. L \subseteq Chapters
        BY DEF Live
    <2> QED BY <1>1, <2>2, <2>3, FS_CountingElements, FS_Subset, FiniteAssumption
<1> HIDE DEF L, n
<1>5. s \in Listings(g)
    <2>1. s \in SetToSeqs(L)
        BY <1>1, <1>3, <1>4 DEF SetToSeqs, NoRepeats, n
    <2>2. ASSUME NEW i \in 1 .. Len(s), NEW j \in 1 .. Len(s), i <= j
          PROVE  Before(g, s[i], s[j])
        <3>1. s[i] \in L /\ s[j] \in L /\ i \in Nat /\ j \in Nat
            BY <1>1 DEF n
        <3>2. i = j \/ g[s[i]].index < g[s[j]].index
            BY <2>2, <3>1 DEF Ranked, Rising
        <3> QED BY <1>2, <3>1, <3>2 DEF Before
    <2> QED BY <2>1, <2>2 DEF Listings, L
<1>6. ASSUME NEW t \in Listings(g)
      PROVE  t = s
    <2>1. t \in [1 .. n -> L] /\ \A i, j \in 1 .. n : i # j => t[i] # t[j]
        BY <1>4 DEF Listings, SetToSeqs, L
    <2>2. \A i, j \in 1 .. n : i <= j => Before(g, t[i], t[j])
        <3>1. Len(t) = n
            BY <1>1, <2>1
        <3> QED BY <3>1 DEF Listings
    <2>3. \A x \in L : \E i \in 1 .. n : t[i] = x
        <3>1. t \in Injection(1 .. n, L)
            BY <2>1 DEF Injection, IsInjective
        <3>2. Cardinality(1 .. n) = n
            BY <1>1, FS_Interval
        <3>3. t \in Surjection(1 .. n, L)
            BY <1>4, <3>1, <3>2, FS_Injection
        <3> QED BY <3>3 DEF Surjection
    <2> DEFINE key == [x \in L |-> g[x].index]
    <2>4. key \in [L -> Nat]
        BY <1>2
    <2>5. \A x, y \in L : key[x] = key[y] => x = y
        <3> SUFFICES ASSUME NEW x \in L, NEW y \in L, g[x].index = g[y].index
                     PROVE  x = y
            OBVIOUS
        <3>1. PICK i \in 1 .. n, j \in 1 .. n : s[i] = x /\ s[j] = y
            BY <1>1
        <3>2. ~(i < j) /\ ~(j < i)
            BY <1>2, <3>1 DEF Ranked, Rising, n
        <3> QED BY <1>1, <3>1, <3>2
    <2>6. \A i, j \in 1 .. n : i < j => key[s[i]] < key[s[j]]
        BY <1>1 DEF Ranked, Rising, n
    <2>7. ASSUME NEW i \in 1 .. n, NEW j \in 1 .. n, i < j
          PROVE  key[t[i]] < key[t[j]]
        <3>1. t[i] \in L /\ t[j] \in L /\ t[i] # t[j] /\ Before(g, t[i], t[j])
            BY <1>1, <2>1, <2>2, <2>7
        <3>2. g[t[i]].index <= g[t[j]].index
            BY <1>2, <3>1 DEF Before
        <3>3. key[t[i]] # key[t[j]]
            BY <2>5, <3>1
        <3> QED BY <1>2, <3>1, <3>2, <3>3
    <2> HIDE DEF key
    <2>8. \A i, j \in 1 .. n : i < j => key[s[i]] < key[s[j]] /\ key[t[i]] < key[t[j]]
        BY <2>6, <2>7
    <2>9. \A i \in 1 .. n : (\E j \in 1 .. n : s[i] = t[j]) /\ (\E j \in 1 .. n : t[i] = s[j])
        BY <1>1, <2>1, <2>3
    <2> QED BY ZenonT(40), <1>1, <2>1, <2>4, <2>8, <2>9, SameOrder
<1>7. Listings(g) = {s}
    BY <1>5, <1>6
<1> QED BY <1>3, <1>7 DEF TheList

\* There are finitely many listings.
LEMMA ListingsFinite ==
    ASSUME NEW g \in Graphs
    PROVE  IsFiniteSet(Listings(g))
<1> DEFINE L == Live(g)
           n == Cardinality(L)
           T == SUBSET ((1 .. n) \X L)
           F == [s \in Listings(g) |-> {<<i, s[i]>> : i \in 1 .. n}]
<1>1. IsFiniteSet(L) /\ n \in Nat
    <2>1. L \subseteq Chapters
        BY DEF Live
    <2> QED BY <2>1, FiniteAssumption, FS_Subset, FS_CardinalityType
<1>2. IsFiniteSet(T)
    <2>1. IsFiniteSet(1 .. n)
        BY <1>1, FS_Interval
    <2> QED BY <1>1, <2>1, FS_Product, FS_SUBSET
<1>3. \A s \in Listings(g) : s \in [1 .. n -> L]
    BY DEF Listings, SetToSeqs
<1> HIDE DEF n, L
<1>4. F \in [Listings(g) -> T]
    <2>1. ASSUME NEW s \in Listings(g)
          PROVE  {<<i, s[i]>> : i \in 1 .. n} \in T
        <3>1. \A i \in 1 .. n : s[i] \in L
            BY <1>3
        <3> QED BY <3>1
    <2> QED BY <2>1
<1>5. ASSUME NEW s \in Listings(g), NEW t \in Listings(g), F[s] = F[t]
      PROVE  s = t
    <2>1. ASSUME NEW i \in 1 .. n
          PROVE  s[i] = t[i]
        <3>1. <<i, s[i]>> \in F[t]
            BY <1>5
        <3>2. PICK j \in 1 .. n : <<i, s[i]>> = <<j, t[j]>>
            BY <3>1
        <3> QED BY <3>2
    <2>2. s \in [1 .. n -> L] /\ t \in [1 .. n -> L]
        BY <1>3
    <2>3. s = [i \in 1 .. n |-> s[i]] /\ t = [i \in 1 .. n |-> t[i]]
        BY <2>2
    <2>4. [i \in 1 .. n |-> s[i]] = [i \in 1 .. n |-> t[i]]
        BY <2>1, Zenon
    <2> QED BY <2>3, <2>4, Zenon
<1>6. F \in Injection(Listings(g), T)
    BY <1>4, <1>5 DEF Injection, IsInjective
<1> HIDE DEF F, T
<1> QED BY <1>2, <1>6, FS_Injection

\* A list that the indexes determine has them rising.
LEMMA SteadyIs ==
    ASSUME NEW g \in Graphs, Steady(g)
    PROVE  Indexed(g) /\ Ranked(g, TheList(g))
<1> DEFINE L == Live(g)
           n == Cardinality(L)
<1>1. Indexed(g)
    BY DEF Steady, Indexed, Live, Graphs, Chapter
<1>2. PICK s : Listings(g) = {s}
    BY ListingsFinite, FS_Singleton DEF Steady
<1>3. TheList(g) = s /\ s \in Listings(g)
    BY <1>2 DEF TheList
<1>4. /\ s \in Seq(Chapters) /\ Len(s) = n /\ n \in Nat /\ NoRepeats(s)
      /\ s \in [1 .. n -> L] /\ \A i, j \in 1 .. n : i <= j => Before(g, s[i], s[j])
    <2>1. s \in Seq(Chapters) /\ Len(s) = n /\ n \in Nat /\ NoRepeats(s)
        BY <1>3, ListingsOK
    <2> QED BY <1>3, <2>1 DEF Listings, SetToSeqs
<1>5. Ids(s) = L
    <2>1. L \subseteq Chapters
        BY DEF Live
    <2>2. IsFiniteSet(L)
        BY <2>1, FiniteAssumption, FS_Subset
    <2>5. n \in Nat => Cardinality(1 .. n) = n
        <3> HIDE DEF n
        <3> QED BY FS_Interval
    <2>3. s \in Injection(1 .. n, L)
        BY <1>4 DEF Injection, IsInjective, NoRepeats
    <2>4. s \in Surjection(1 .. n, L)
        BY <1>4, <2>2, <2>3, <2>5, FS_Injection
    <2> QED BY <1>4, <2>4 DEF Surjection, Ids
<1> HIDE DEF L, n
<1>6. ASSUME NEW i \in 1 .. n, NEW j \in 1 .. n, i < j, ~(g[s[i]].index < g[s[j]].index)
      PROVE  FALSE
    <2> DEFINE P(k) == IF k = i THEN j ELSE IF k = j THEN i ELSE k
               t == [k \in 1 .. n |-> s[P(k)]]
    <2>1. \A k \in 1 .. n : P(k) \in 1 .. n /\ s[k] \in L /\ g[s[k]].index \in Nat /\ g[s[k]].index # NoIndex
        BY <1>1, <1>4, NumberAssumption DEF Indexed, L
    <2>2. g[s[i]].index = g[s[j]].index
        BY <1>4, <1>6, <2>1 DEF Before
    <2>3. \A k \in 1 .. n : t[k] \in L /\ g[t[k]].index = g[s[k]].index
        BY <2>1, <2>2
    <2>4. \A k, l \in 1 .. n : k # l => P(k) # P(l)
        OBVIOUS
    <2>5. \A k, l \in 1 .. n : k # l => t[k] # t[l]
        <3> SUFFICES ASSUME NEW k \in 1 .. n, NEW l \in 1 .. n, k # l
                     PROVE  t[k] # t[l]
            OBVIOUS
        <3>1. P(k) # P(l) /\ P(k) \in 1 .. n /\ P(l) \in 1 .. n
            BY <2>1, <2>4
        <3>2. t[k] = s[P(k)] /\ t[l] = s[P(l)]
            OBVIOUS
        <3> HIDE DEF t, P
        <3> QED BY <1>4, <3>1, <3>2 DEF NoRepeats
    <2>6. t \in [1 .. n -> L] /\ Len(t) = n
        BY <1>4, <2>3
    <2>7. t[i] = s[j] /\ s[i] # s[j]
        BY <1>4, <1>6 DEF NoRepeats
    <2> HIDE DEF t, P
    <2>8. \A k, l \in 1 .. Len(t) : k <= l => Before(g, t[k], t[l])
        <3> SUFFICES ASSUME NEW k \in 1 .. n, NEW l \in 1 .. n, k <= l
                     PROVE  Before(g, t[k], t[l])
            BY <2>6
        <3>1. Before(g, s[k], s[l])
            BY <1>4
        <3>2. g[t[k]].index = g[s[k]].index /\ g[t[l]].index = g[s[l]].index
            BY <2>3
        <3> QED BY <3>1, <3>2 DEF Before
    <2>9. t \in SetToSeqs(L)
        BY <2>5, <2>6 DEF SetToSeqs, n
    <2>10. t \in Listings(g)
        BY <2>8, <2>9 DEF Listings, L
    <2> QED BY <1>2, <2>7, <2>10
<1>7. Rising(g, s)
    BY <1>4, <1>6 DEF Rising
<1> QED BY <1>1, <1>3, <1>4, <1>5, <1>7 DEF Ranked, L

-----------------------------------------------------------------------------
(* Where create puts a chapter. *)
-----------------------------------------------------------------------------
\* The i-th place of the list is the one for the index n.
Splits(g, s, i, n) == \A j \in 1 .. Len(s) : j < i <=> g[s[j]].index < n

\* The chapters before the new one stay, and the others go up.
LEMMA CreatedPlaced ==
    ASSUME NEW g \in Graphs, Steady(g), NEW w \in Models, w.kind = "new", w.id \notin Live(g),
           NEW i \in 1 .. Len(TheList(g)) + 1, Splits(g, TheList(g), i, w.ch.index)
    PROVE  TheList(Created(g, w)) = InsertAt(TheList(g), i, w.id)
<1> DEFINE s == TheList(g)
           h == Created(g, w)
           t == InsertAt(s, i, w.id)
           n == w.ch.index
<1>1. Indexed(g) /\ Ranked(g, s)
    BY SteadyIs
<1>2. h \in Graphs /\ w.id \in Chapters /\ w.ch \in Chapter /\ n \in Nat
    BY CreatedKeeps DEF Models, Write
<1>3. s \in Seq(Chapters) /\ Len(s) \in Nat /\ i \in 1 .. Len(s) + 1 /\ i \in Nat /\ 1 <= i /\ i <= Len(s) + 1
      /\ \A j \in 1 .. Len(s) : s[j] \in Live(g) /\ s[j] # w.id
    BY <1>1, LenProperties DEF Ranked, Ids
<1>4. /\ h[w.id] = w.ch
      /\ \A x \in Live(g) : h[x] \in Chapter /\ h[x].index = IF g[x].index < n THEN g[x].index ELSE g[x].index + 1
    <2>1. h[w.id] = w.ch
        BY <1>2 DEF Created
    <2>2. ASSUME NEW x \in Live(g)
          PROVE  h[x] \in Chapter /\ h[x].index = IF g[x].index < n THEN g[x].index ELSE g[x].index + 1
        <3>1. /\ g[x] \in Chapter /\ g[x].index \in Nat /\ x \in Chapters /\ x # w.id
              /\ [g[x] EXCEPT !.index = g[x].index + 1] \in Chapter
              /\ [g[x] EXCEPT !.index = g[x].index + 1].index = g[x].index + 1
            <4>1. g[x] \in Chapter /\ g[x].index \in Nat /\ x \in Chapters /\ x # w.id
                BY <1>1 DEF Indexed, Live
            <4>2. g[x].index + 1 \in Nat
                BY <4>1
            <4> QED BY <4>1, <4>2, IndexedChapter
        <3>2. h[x] = IF g[x].index >= n THEN [g[x] EXCEPT !.index = g[x].index + 1] ELSE g[x]
            BY <3>1 DEF Created
        <3> HIDE DEF h
        <3> QED BY <1>2, <3>1, <3>2
    <2> QED BY <2>1, <2>2
<1>5. Live(h) = Live(g) \cup {w.id}
    <2>1. \A x \in Chapters : x # w.id /\ x \notin Live(g) => h[x] = g[x] /\ g[x] = NoChapter
        BY DEF Created, Live
    <2> HIDE DEF h
    <2> QED BY <1>2, <1>4, <2>1, NoneAssumption DEF Live
<1>6. Indexed(h)
    <2> SUFFICES ASSUME NEW x \in Live(g)
                 PROVE  h[x] \in Chapter /\ h[x].index \in Nat
        <3> HIDE DEF h
        <3> QED BY <1>2, <1>4, <1>5 DEF Indexed
    <2>1. g[x].index \in Nat
        BY <1>1 DEF Indexed
    <2> HIDE DEF h
    <2> QED BY <1>4, <2>1
<1> HIDE DEF h, s
<1>7. /\ t \in Seq(Chapters) /\ Len(t) = Len(s) + 1
      /\ \A j \in 1 .. Len(s) + 1 : t[j] = IF j < i THEN s[j] ELSE IF j = i THEN w.id ELSE s[j - 1]
    <2> DEFINE x == w.id
    <2>1. x \in Chapters /\ s \in Seq(Chapters) /\ i \in 1 .. Len(s) + 1
        BY <1>2, <1>3
    <2> HIDE DEF x
    <2>2. t = InsertAt(s, i, x)
        BY DEF x
    <2> HIDE DEF t
    <2>3. /\ t \in Seq(Chapters) /\ Len(t) = Len(s) + 1
          /\ \A j \in 1 .. Len(s) + 1 : t[j] = IF j < i THEN s[j] ELSE IF j = i THEN x ELSE s[j - 1]
        BY SMTT(30), <2>1, <2>2, InsertAtIs
    <2> QED BY <2>3 DEF x
<1> HIDE DEF t
<1>8. \A j \in 1 .. Len(s) : /\ g[s[j]].index \in Nat
                             /\ j < i <=> g[s[j]].index < n
                             /\ h[s[j]].index = IF j < i THEN g[s[j]].index ELSE g[s[j]].index + 1
    BY <1>1, <1>3, <1>4 DEF Indexed, Splits, s
<1>9. \A j, k \in 1 .. Len(s) : j < k => g[s[j]].index < g[s[k]].index
    BY <1>1 DEF Ranked, Rising
<1>10. Ids(t) = Live(h)
    <2>1. \A j \in 1 .. Len(s) + 1 : t[j] \in Live(h)
        <3> SUFFICES ASSUME NEW j \in 1 .. Len(s) + 1
                     PROVE  t[j] \in Live(h)
            OBVIOUS
        <3>1. \/ j < i /\ j \in 1 .. Len(s)
              \/ j = i
              \/ j > i /\ j - 1 \in 1 .. Len(s)
            BY <1>3
        <3> QED BY SMTT(30), <1>3, <1>5, <1>7, <3>1
    <2>2. \A j \in 1 .. Len(s) : \E k \in 1 .. Len(s) + 1 : t[k] = s[j]
        <3> SUFFICES ASSUME NEW j \in 1 .. Len(s)
                     PROVE  \E k \in 1 .. Len(s) + 1 : t[k] = s[j]
            OBVIOUS
        <3>1. CASE j < i
            BY <1>3, <1>7, <3>1
        <3>2. CASE ~(j < i)
            <4>1. j + 1 \in 1 .. Len(s) + 1 /\ ~(j + 1 < i) /\ j + 1 # i /\ (j + 1) - 1 = j
                BY <1>3, <3>2
            <4>2. t[j + 1] = s[j]
                BY <1>7, <4>1
            <4> QED BY <4>1, <4>2
        <3> QED BY <3>1, <3>2
    <2>3. \E k \in 1 .. Len(s) + 1 : t[k] = w.id
        BY <1>3, <1>7
    <2>4. \A x \in Live(g) : \E j \in 1 .. Len(s) : s[j] = x
        BY <1>1 DEF Ranked, Ids
    <2> QED BY SMTT(30), <1>5, <1>7, <2>1, <2>2, <2>3, <2>4 DEF Ids
<1>11. Rising(h, t)
    <2> SUFFICES ASSUME NEW j \in 1 .. Len(s) + 1, NEW k \in 1 .. Len(s) + 1, j < k
                 PROVE  h[t[j]].index < h[t[k]].index
        BY <1>7 DEF Rising
    <2>1. \/ j < i /\ j \in 1 .. Len(s) /\ t[j] = s[j]
          \/ j = i /\ t[j] = w.id
          \/ j > i /\ j - 1 \in 1 .. Len(s) /\ t[j] = s[j - 1]
        BY <1>3, <1>7
    <2>2. \/ k < i /\ k \in 1 .. Len(s) /\ t[k] = s[k]
          \/ k = i /\ t[k] = w.id
          \/ k > i /\ k - 1 \in 1 .. Len(s) /\ t[k] = s[k - 1]
        BY <1>3, <1>7
    <2>3. h[w.id].index = n
        BY <1>4
    <2>4. CASE j < i
        <3>1. g[s[j]].index < n /\ h[t[j]].index = g[s[j]].index /\ g[s[j]].index \in Nat
            BY <1>3, <1>8, <2>1, <2>4
        <3>2. CASE k < i
            BY <1>3, <1>8, <1>9, <2>2, <3>1, <3>2
        <3>3. CASE k = i
            BY <1>3, <2>2, <2>3, <3>1, <3>3
        <3>4. CASE k > i
            <4>1. k - 1 \in 1 .. Len(s) /\ t[k] = s[k - 1] /\ ~(k - 1 < i)
                BY <1>3, <2>2, <3>4
            <4>2. /\ h[s[k - 1]].index = g[s[k - 1]].index + 1 /\ ~(g[s[k - 1]].index < n)
                  /\ g[s[k - 1]].index \in Nat
                BY <1>8, <4>1
            <4> QED BY <1>2, <3>1, <4>1, <4>2
        <3> QED BY <1>3, <3>2, <3>3, <3>4
    <2>5. CASE ~(j < i)
        <3>1. k - 1 \in 1 .. Len(s) /\ t[k] = s[k - 1] /\ ~(k - 1 < i)
            BY <1>3, <2>2, <2>5
        <3>2. /\ h[s[k - 1]].index = g[s[k - 1]].index + 1 /\ ~(g[s[k - 1]].index < n)
              /\ g[s[k - 1]].index \in Nat
            BY <1>8, <3>1
        <3>3. CASE j = i
            BY <1>2, <1>3, <2>1, <2>3, <3>1, <3>2, <3>3
        <3>4. CASE j # i
            <4>1. j - 1 \in 1 .. Len(s) /\ t[j] = s[j - 1] /\ ~(j - 1 < i) /\ j - 1 < k - 1
                BY <1>3, <2>1, <2>5, <3>4
            <4>2. h[s[j - 1]].index = g[s[j - 1]].index + 1 /\ g[s[j - 1]].index \in Nat
                BY <1>8, <4>1
            <4>3. g[s[j - 1]].index < g[s[k - 1]].index
                BY <1>9, <3>1, <4>1
            <4>4. h[t[j]].index = g[s[j - 1]].index + 1 /\ h[t[k]].index = g[s[k - 1]].index + 1
                BY <3>1, <3>2, <4>1, <4>2
            <4>5. g[s[k - 1]].index \in Nat
                BY <3>2
            <4> QED BY SMTT(30), <4>2, <4>3, <4>4, <4>5
        <3> QED BY <3>3, <3>4
    <2> QED BY <2>4, <2>5
<1> QED BY <1>2, <1>6, <1>7, <1>10, <1>11, RankedIsTheList DEF Ranked, h, t, s

-----------------------------------------------------------------------------
(* Where move puts a chapter. *)
-----------------------------------------------------------------------------
\* What a move asks of the list: x in it, and after too unless x is to be first.
Movable(s, x, after) ==
    /\ s \in Seq(Chapters) /\ NoRepeats(s) /\ x \in Ids(s)
    /\ after = NoChapter \/ after \in Ids(s) \ {x}

\* The place of x in the reordered list.
Spot(s, x, after) == IF after = NoChapter THEN 1 ELSE Position(Others(s, x), after) + 1

LEMMA ReorderedIs ==
    ASSUME NEW s, NEW x, NEW after, Movable(s, x, after)
    PROVE  LET r == Others(s, x) i == Spot(s, x, after) t == Reordered(s, x, after) IN
           /\ r \in Seq(Chapters) /\ Len(r) \in Nat /\ i \in 1 .. Len(r) + 1
           /\ after # NoChapter => i - 1 \in 1 .. Len(r) /\ r[i - 1] = after
           /\ t \in Seq(Chapters) /\ Len(t) = Len(r) + 1
           /\ \A j \in 1 .. Len(r) + 1 : t[j] = IF j < i THEN r[j] ELSE IF j = i THEN x ELSE r[j - 1]
           /\ NoRepeats(t) /\ Ids(t) = Ids(s) /\ Others(t, x) = r
<1> DEFINE r == Others(s, x)
           i == Spot(s, x, after)
           t == Reordered(s, x, after)
<1>1. /\ r \in Seq(Chapters) /\ NoRepeats(r) /\ Ids(r) = Ids(s) \ {x} /\ Len(r) \in Nat
      /\ s \in Seq(Chapters) /\ x \in Ids(s)
    <2>1. s \in Seq(Chapters) /\ NoRepeats(s) /\ x \in Ids(s)
        BY DEF Movable
    <2> QED BY <2>1, OthersHold, LenProperties
<1>2. x \in Chapters
    <2>1. \A j \in 1 .. Len(s) : s[j] \in Chapters
        BY <1>1, ElementOfSeq
    <2> QED BY <1>1, <2>1 DEF Ids
<1> HIDE DEF r
<1>3. i \in 1 .. Len(r) + 1 /\ (after # NoChapter => i - 1 \in 1 .. Len(r) /\ r[i - 1] = after)
    <2>1. CASE after = NoChapter
        BY <1>1, <2>1 DEF Spot
    <2>2. CASE after # NoChapter
        <3> DEFINE p == Position(r, after)
        <3>1. after \in Ids(r)
            BY <1>1, <2>2 DEF Movable
        <3>2. p \in 1 .. Len(r) /\ r[p] = after
            BY <3>1, PositionOK
        <3>3. i = p + 1
            BY <2>2 DEF Spot, r
        <3> HIDE DEF p, i
        <3>4. i - 1 = p /\ i \in 1 .. Len(r) + 1
            BY <1>1, <3>2, <3>3
        <3> QED BY <3>2, <3>4
    <2> QED BY <2>1, <2>2
<1>4. t = InsertAt(r, i, x)
    BY DEF Reordered, Spot, r
<1> HIDE DEF i, t
<1>5. /\ t \in Seq(Chapters) /\ Len(t) = Len(r) + 1
      /\ \A j \in 1 .. Len(r) + 1 : t[j] = IF j < i THEN r[j] ELSE IF j = i THEN x ELSE r[j - 1]
    BY SMTT(30), <1>1, <1>2, <1>3, <1>4, InsertAtIs
<1>6. \A j \in 1 .. Len(r) : r[j] # x /\ r[j] \in Ids(s)
    BY <1>1 DEF Ids
<1>7. \A j \in 1 .. Len(r) + 1 : \/ j < i /\ j \in 1 .. Len(r) /\ t[j] = r[j]
                                 \/ j = i /\ t[j] = x
                                 \/ j > i /\ j - 1 \in 1 .. Len(r) /\ t[j] = r[j - 1]
    BY <1>1, <1>3, <1>5
<1>8. NoRepeats(t)
    <2> SUFFICES ASSUME NEW j \in 1 .. Len(r) + 1, NEW k \in 1 .. Len(r) + 1, t[j] = t[k]
                 PROVE  j = k
        BY <1>5 DEF NoRepeats
    <2>1. CASE j = i
        BY <1>3, <1>6, <1>7, <2>1
    <2>2. CASE k = i
        BY <1>3, <1>6, <1>7, <2>2
    <2>3. CASE j # i /\ k # i
        <3> DEFINE a == IF j < i THEN j ELSE j - 1
                   b == IF k < i THEN k ELSE k - 1
        <3>1. a \in 1 .. Len(r) /\ t[j] = r[a]
            BY <1>1, <1>3, <1>7, <2>3
        <3>2. b \in 1 .. Len(r) /\ t[k] = r[b]
            BY <1>1, <1>3, <1>7, <2>3
        <3>3. a = b
            BY <1>1, <3>1, <3>2 DEF NoRepeats
        <3> QED BY <1>1, <1>3, <2>3, <3>3
    <2> QED BY <2>1, <2>2, <2>3
<1>9. Ids(t) = Ids(s)
    <2>1. \A j \in 1 .. Len(r) + 1 : t[j] \in Ids(s)
        BY <1>1, <1>6, <1>7
    <2>2. \A j \in 1 .. Len(r) : \E k \in 1 .. Len(r) + 1 : t[k] = r[j]
        <3> SUFFICES ASSUME NEW j \in 1 .. Len(r)
                     PROVE  \E k \in 1 .. Len(r) + 1 : t[k] = r[j]
            OBVIOUS
        <3>1. CASE j < i
            <4>1. j \in 1 .. Len(r) + 1 /\ t[j] = r[j]
                BY <1>1, <1>5, <3>1
            <4> QED BY <4>1
        <3>2. CASE ~(j < i)
            <4>1. j + 1 \in 1 .. Len(r) + 1 /\ ~(j + 1 < i) /\ j + 1 # i /\ (j + 1) - 1 = j
                BY <1>1, <1>3, <3>2
            <4>2. t[j + 1] = r[j]
                BY <1>5, <4>1
            <4> QED BY <4>1, <4>2
        <3> QED BY <3>1, <3>2
    <2>3. t[i] = x /\ i \in 1 .. Len(r) + 1
        BY <1>3, <1>5
    <2>4. Ids(s) = Ids(r) \cup {x}
        BY <1>1
    <2>5. \A y \in Ids(r) : \E j \in 1 .. Len(r) : r[j] = y
        BY DEF Ids
    <2>6. \A y \in Ids(s) : \E j \in 1 .. Len(r) + 1 : t[j] = y
        BY <2>2, <2>3, <2>4, <2>5
    <2>7. \A y : y \in Ids(t) <=> \E j \in 1 .. Len(r) + 1 : t[j] = y
        BY <1>5 DEF Ids
    <2> QED BY <2>1, <2>6, <2>7
<1>10. Others(t, x) = r
    <2> DEFINE u == Others(t, x)
    <2>1. i \in 1 .. Len(t) /\ t[i] = x
        BY <1>3, <1>5
    <2>2. /\ u \in Seq(Chapters) /\ Len(u) = Len(t) - 1
          /\ \A j \in 1 .. Len(t) - 1 : u[j] = IF j < i THEN t[j] ELSE t[j + 1]
        BY <1>5, <1>8, <2>1, OthersIs
    <2> HIDE DEF u
    <2>3. Len(u) = Len(r)
        BY <1>1, <1>5, <2>2
    <2>4. ASSUME NEW j \in 1 .. Len(r)
          PROVE  u[j] = r[j]
        <3>1. u[j] = IF j < i THEN t[j] ELSE t[j + 1]
            BY <1>1, <1>5, <2>2
        <3>2. CASE j < i
            BY <1>1, <1>5, <3>1, <3>2
        <3>3. CASE ~(j < i)
            <4>1. j + 1 \in 1 .. Len(r) + 1 /\ ~(j + 1 < i) /\ j + 1 # i /\ (j + 1) - 1 = j
                BY <1>1, <1>3, <3>3
            <4>2. t[j + 1] = r[j]
                BY <1>5, <4>1
            <4> QED BY <3>1, <3>3, <4>2
        <3> QED BY <3>2, <3>3
    <2>5. u = [j \in 1 .. Len(u) |-> u[j]] /\ r = [j \in 1 .. Len(r) |-> r[j]]
        BY <1>1, <2>2
    <2> QED BY <2>3, <2>4, <2>5 DEF u
<1> QED BY <1>1, <1>3, <1>5, <1>8, <1>9, <1>10 DEF r, i, t

\* Whether a move lands outside its own category, by the categories k.
Crossing(k, s, x, after) ==
    LET r == Others(s, x) IN
    IF after = NoChapter THEN r # << >> /\ k[r[1]] # k[x]
    ELSE LET i == Position(r, after) IN k[after] # k[x] /\ (i = Len(r) \/ k[r[i + 1]] # k[x])

Together(k, s) ==
    \A i, j, l \in 1 .. Len(s) : i < j /\ j < l /\ k[s[i]] = k[s[l]] => k[s[j]] = k[s[i]]

\* A block without one of its chapters is a block.
LEMMA OthersTogether ==
    ASSUME NEW k, NEW s \in Seq(Chapters), NoRepeats(s), NEW x \in Ids(s), Together(k, s)
    PROVE  Together(k, Others(s, x))
<1> DEFINE r == Others(s, x)
           p == Position(s, x)
           A(i) == IF i < p THEN i ELSE i + 1
<1>1. p \in 1 .. Len(s) /\ s[p] = x /\ Len(s) \in Nat
    BY PositionOK, LenProperties
<1> HIDE DEF p
<1>2. Len(r) = Len(s) - 1 /\ \A i \in 1 .. Len(s) - 1 : r[i] = s[A(i)]
    BY <1>1, OthersIs
<1>3. \A i \in 1 .. Len(r) : A(i) \in 1 .. Len(s) /\ r[i] = s[A(i)]
    BY <1>1, <1>2
<1>4. \A i, j \in 1 .. Len(r) : i < j => A(i) < A(j)
    BY <1>1
<1> HIDE DEF r, A
<1>5. ASSUME NEW i \in 1 .. Len(r), NEW j \in 1 .. Len(r), NEW l \in 1 .. Len(r),
             i < j, j < l, k[r[i]] = k[r[l]]
      PROVE  k[r[j]] = k[r[i]]
    BY SMTT(30), <1>3, <1>4, <1>5 DEF Together
<1> QED BY <1>5 DEF Together, r

\* A move that does not cross keeps the blocks whole.
LEMMA BlocksKept ==
    ASSUME NEW k, NEW s, NEW x, NEW after, Movable(s, x, after),
           ~Crossing(k, s, x, after), Together(k, s)
    PROVE  Together(k, Reordered(s, x, after))
<1> DEFINE r == Others(s, x)
           i == Spot(s, x, after)
           t == Reordered(s, x, after)
<1>1. Len(r) \in Nat /\ i \in 1 .. Len(r) + 1 /\ Len(t) = Len(r) + 1 /\ r \in Seq(Chapters)
      /\ (after # NoChapter => i - 1 \in 1 .. Len(r) /\ r[i - 1] = after)
      /\ \A j \in 1 .. Len(r) + 1 : t[j] = IF j < i THEN r[j] ELSE IF j = i THEN x ELSE r[j - 1]
    BY ReorderedIs
<1>2. Together(k, r)
    BY OthersTogether DEF Movable
\* One of the neighbours is of the category of x.
<1>3. \/ Len(r) = 0
      \/ i - 1 \in 1 .. Len(r) /\ k[r[i - 1]] = k[x]
      \/ i \in 1 .. Len(r) /\ k[r[i]] = k[x]
    <2>1. CASE after = NoChapter
        <3>1. i = 1
            BY <2>1 DEF Spot
        <3>2. r = << >> \/ k[r[1]] = k[x]
            BY <2>1 DEF Crossing
        <3>3. r = << >> => Len(r) = 0
            BY EmptySeq
        <3>4. Len(r) # 0 => 1 \in 1 .. Len(r)
            BY <1>1
        <3> HIDE DEF i, r, t
        <3> QED BY <3>1, <3>2, <3>3, <3>4
    <2>2. CASE after # NoChapter
        <3>1. i = Position(r, after) + 1
            BY <2>2 DEF Spot
        <3>2. k[after] = k[x] \/ (Position(r, after) # Len(r) /\ k[r[Position(r, after) + 1]] = k[x])
            BY <2>2 DEF Crossing
        <3>3. i - 1 \in 1 .. Len(r) /\ r[i - 1] = after
            BY <1>1, <2>2
        <3> DEFINE p == Position(r, after)
        <3>4. i = p + 1 /\ (k[after] = k[x] \/ (p # Len(r) /\ k[r[p + 1]] = k[x]))
            BY <3>1, <3>2
        <3>5. p \in Nat
            <4>1. after \in Ids(r)
                BY <3>3 DEF Ids
            <4> QED BY <1>1, <4>1, PositionOK
        <3> HIDE DEF i, r, t, p
        <3>6. CASE k[after] = k[x]
            BY <3>3, <3>6
        <3>7. CASE p # Len(r) /\ k[r[p + 1]] = k[x]
            <4>1. i \in 1 .. Len(r)
                BY <1>1, <3>3, <3>4, <3>5, <3>7
            <4> QED BY <3>4, <3>7, <4>1
        <3> QED BY <3>4, <3>6, <3>7
    <2> QED BY <2>1, <2>2
<1> HIDE DEF r, i, t
<1>4. ASSUME NEW a \in 1 .. Len(t), NEW b \in 1 .. Len(t), NEW c \in 1 .. Len(t),
             a < b, b < c, k[t[a]] = k[t[c]]
      PROVE  k[t[b]] = k[t[a]]
    <2> DEFINE R(j) == IF j < i THEN j ELSE j - 1
    <2>1. \A j \in 1 .. Len(t) : j # i => R(j) \in 1 .. Len(r) /\ t[j] = r[R(j)]
        BY <1>1
    <2>2. t[i] = x /\ i \in 1 .. Len(t)
        BY <1>1
    <2>3. \A j, l \in 1 .. Len(t) : j # i /\ l # i /\ j < l => R(j) < R(l)
        BY <1>1
    <2>4. \A j, l, m \in 1 .. Len(r) : j <= l /\ l <= m /\ k[r[j]] = k[r[m]] => k[r[l]] = k[r[j]]
        BY <1>1, <1>2 DEF Together
    <2>5. Len(r) # 0
        BY <1>1, <1>4
    <2>6. CASE a # i /\ b # i /\ c # i
        <3> HIDE DEF R
        <3> QED BY SMTT(30), <1>2, <1>4, <2>1, <2>3, <2>6 DEF Together
    <2>7. CASE a = i
        <3>1. /\ b - 1 \in 1 .. Len(r) /\ c - 1 \in 1 .. Len(r) /\ t[b] = r[b - 1] /\ t[c] = r[c - 1]
              /\ i <= b - 1 /\ b - 1 <= c - 1
            BY <1>1, <1>4, <2>1, <2>7
        <3>2. k[t[a]] = k[x] /\ k[r[c - 1]] = k[x]
            BY <1>4, <2>2, <2>7, <3>1
        <3>3. CASE i - 1 \in 1 .. Len(r) /\ k[r[i - 1]] = k[x]
            <4>1. i - 1 <= b - 1
                BY <1>1, <3>1
            <4>2. k[r[b - 1]] = k[r[i - 1]]
                BY <2>4, <3>1, <3>2, <3>3, <4>1
            <4> QED BY <3>1, <3>2, <3>3, <4>2
        <3>4. CASE i \in 1 .. Len(r) /\ k[r[i]] = k[x]
            <4>1. k[r[b - 1]] = k[r[i]]
                BY <2>4, <3>1, <3>2, <3>4
            <4> QED BY <3>1, <3>2, <3>4, <4>1
        <3> QED BY <1>3, <2>5, <3>3, <3>4
    <2>8. CASE c = i
        <3>1. a \in 1 .. Len(r) /\ b \in 1 .. Len(r) /\ t[a] = r[a] /\ t[b] = r[b] /\ a <= b /\ b <= i - 1
            BY <1>1, <1>4, <2>1, <2>8
        <3>2. k[r[a]] = k[x]
            BY <1>4, <2>2, <2>8, <3>1
        <3>3. CASE i - 1 \in 1 .. Len(r) /\ k[r[i - 1]] = k[x]
            <4>1. k[r[b]] = k[r[a]]
                BY <2>4, <3>1, <3>2, <3>3
            <4> QED BY <3>1, <4>1
        <3>4. CASE i \in 1 .. Len(r) /\ k[r[i]] = k[x]
            <4>1. b <= i
                BY <1>1, <3>1
            <4>2. k[r[b]] = k[r[a]]
                BY <2>4, <3>1, <3>2, <3>4, <4>1
            <4> QED BY <3>1, <4>2
        <3> QED BY <1>3, <2>5, <3>3, <3>4
    <2>9. CASE b = i
        <3>1. /\ a \in 1 .. Len(r) /\ c - 1 \in 1 .. Len(r) /\ t[a] = r[a] /\ t[c] = r[c - 1]
              /\ a <= i - 1 /\ i <= c - 1
            BY <1>1, <1>4, <2>1, <2>9
        <3>2. k[r[a]] = k[r[c - 1]] /\ k[t[b]] = k[x]
            BY <1>4, <2>2, <2>9, <3>1
        <3>3. CASE i - 1 \in 1 .. Len(r) /\ k[r[i - 1]] = k[x]
            <4>1. i - 1 <= c - 1
                BY <1>1, <3>1
            <4>2. k[r[i - 1]] = k[r[a]]
                BY <2>4, <3>1, <3>2, <3>3, <4>1
            <4> QED BY <3>1, <3>2, <3>3, <4>2
        <3>4. CASE i \in 1 .. Len(r) /\ k[r[i]] = k[x]
            <4>1. a <= i
                BY <1>1, <3>1
            <4>2. k[r[i]] = k[r[a]]
                BY <2>4, <3>1, <3>2, <3>4, <4>1
            <4> QED BY <3>1, <3>2, <3>4, <4>2
        <3> QED BY <1>3, <2>5, <3>3, <3>4
    <2> QED BY <2>6, <2>7, <2>8, <2>9
<1> QED BY <1>4 DEF Together, t

\* The new order gives each chapter the place it has in it.
LEMMA MovedPlaced ==
    ASSUME NEW g \in Graphs, Steady(g), NEW x, NEW after, Movable(TheList(g), x, after),
           NEW h, h = [y \in Chapters |->
             IF y \in Live(g) /\ y \in Ids(Reordered(TheList(g), x, after))
             THEN [g[y] EXCEPT !.index = Position(Reordered(TheList(g), x, after), y) - 1] ELSE g[y]]
    PROVE  /\ TheList(h) = Reordered(TheList(g), x, after)
           /\ \A y \in Live(g) : y \in Live(h) /\ h[y].category = g[y].category
<1> DEFINE s == TheList(g)
           t == Reordered(s, x, after)
<1>1. Indexed(g) /\ Ranked(g, s)
    BY SteadyIs
<1>2. t \in Seq(Chapters) /\ NoRepeats(t) /\ Ids(t) = Ids(s)
    BY ReorderedIs
<1>3. Ids(t) = Live(g)
    BY <1>1, <1>2 DEF Ranked
<1> HIDE DEF s, t
<1>4. h = [y \in Chapters |->
             IF y \in Live(g) THEN [g[y] EXCEPT !.index = Position(t, y) - 1] ELSE g[y]]
    BY <1>3 DEF s, t
<1>5. ASSUME NEW y \in Live(g)
      PROVE  /\ h[y] \in Chapter /\ h[y].index \in Nat /\ h[y].index = Position(t, y) - 1
             /\ h[y].category = g[y].category
    <2>1. Position(t, y) \in 1 .. Len(t) /\ Len(t) \in Nat
        BY <1>2, <1>3, PositionOK, LenProperties
    <2>2. Position(t, y) - 1 \in Nat
        BY <2>1
    <2>3. y \in Chapters /\ g[y] \in Chapter
        BY <1>1 DEF Live, Indexed
    <2> DEFINE p == Position(t, y) - 1
    <2>4. h[y] = [g[y] EXCEPT !.index = p]
        BY <1>4, <2>3
    <2> HIDE DEF p
    <2>5. p \in Nat
        BY <2>2 DEF p
    <2>6. h[y].category = g[y].category
        BY <2>3, <2>4 DEF Chapter
    <2> QED BY <2>3, <2>4, <2>5, <2>6, IndexedChapter DEF p
<1>6. Live(h) = Live(g)
    <2>1. \A y \in Chapters : y \notin Live(g) => h[y] = NoChapter
        BY <1>4 DEF Live
    <2>2. \A y \in Live(g) : y \in Chapters /\ h[y] # NoChapter
        BY <1>5, NoneAssumption DEF Live
    <2> QED BY <2>1, <2>2 DEF Live
<1>7. Indexed(h) /\ h \in Graphs
    <2>1. Indexed(h)
        BY <1>5, <1>6 DEF Indexed
    <2>2. \A y \in Chapters : h[y] \in Chapter \cup {NoChapter}
        BY <1>5, <1>6 DEF Live
    <2> QED BY <1>4, <2>1, <2>2 DEF Graphs
<1>8. Rising(h, t)
    <2> SUFFICES ASSUME NEW i \in 1 .. Len(t), NEW j \in 1 .. Len(t), i < j
                 PROVE  h[t[i]].index < h[t[j]].index
        BY DEF Rising
    <2>1. t[i] \in Live(g) /\ t[j] \in Live(g) /\ Position(t, t[i]) = i /\ Position(t, t[j]) = j
        BY <1>2, <1>3, PositionIs DEF Ids
    <2>2. h[t[i]].index = i - 1 /\ h[t[j]].index = j - 1
        BY <1>5, <2>1
    <2> QED BY <2>2
<1>9. TheList(h) = t
    BY <1>2, <1>3, <1>6, <1>7, <1>8, RankedIsTheList DEF Ranked
<1> QED BY <1>5, <1>6, <1>9 DEF t, s

-----------------------------------------------------------------------------
(* What a call may rely on to place its chapter.  A chapter keeps its      *)
(* category for ever: nothing writes another, and its id is given to one   *)
(* new chapter only.  So the categories can be fixed before the first step *)
(* (k), and a move that was refused or allowed by them when it listed the  *)
(* chapters is right about them when it writes the order.                  *)
-----------------------------------------------------------------------------
Kinds == [Chapters -> {"Chapter", "Character"}]

\* The graph, the models of the unit of work and the new chapters in the
\* scripts have the categories k.
Same(k, g) == \A x \in Live(g) : g[x].category = k[x]
Ours(k, h) == \A i \in 1 .. Len(h) : h[i].ch.category = k[h[i].id]
Asks(k, s) == \A c \in Clients : \A i \in 1 .. Len(s[c]) :
                s[c][i].op = "create" => s[c][i].category = k[s[c][i].id]

\* The steps whose calls rely on what they read.
Relying == {"resolve", "check", "commit", "list", "adopt", "reorder", "remove", "drop"}

\* A create has the index after the one it saw, a move the order it made of
\* the list it keeps, and does not leave the block of its category.
Here(k, r) ==
    /\ r.at \in {"resolve", "check", "commit"} /\ r.op = "create" => r.category = k[r.id]
    /\ r.at \in {"check", "commit"} /\ r.op = "create" =>
         r.seen \in Nat /\ r.index = IF r.after = NoChapter THEN 0 ELSE r.seen + 1
    /\ r.at \in {"check", "commit"} /\ r.op = "update" => r.ch.category = k[r.id]
    /\ r.at \in {"list", "adopt", "reorder", "remove", "drop"} => r.ch.category = k[r.id]
    /\ r.at = "list" => r.id # r.after
    /\ r.at \in {"adopt", "reorder"} =>
         /\ Movable(r.members, r.id, r.after) /\ ~Crossing(k, r.members, r.id, r.after)
         /\ r.order = Reordered(r.members, r.id, r.after)

Agree(k) == /\ Same(k, chapters) /\ Ours(k, held) /\ Asks(k, script)
            /\ \A c \in Clients : Here(k, call[c])

PlaceInv == \E k \in Kinds : Agree(k)

\* A call that relies on nothing.
LEMMA NothingHere ==
    ASSUME NEW k, NEW r, r.at \notin Relying
    PROVE  Here(k, r)
BY DEF Here, Relying

\* A step that gives the call other variables.
LEMMA AgreeGoto ==
    ASSUME IndInv, NEW k, Agree(k), NEW c \in Clients, NEW r, Goto(c, r), Here(k, r),
           Same(k, chapters'), Ours(k, held'), Asks(k, script')
    PROVE  Agree(k)'
<1>1. \A d \in Clients : call'[d] = IF d = c THEN r ELSE call[d]
    BY DEF IndInv, CallsOK, Goto
<1>2. \A d \in Clients : Here(k, call'[d])
    BY <1>1 DEF Agree
<1> QED BY <1>2 DEF Agree

\* A step of a call that leaves the graph and the unit of work alone.
LEMMA AgreeCall ==
    ASSUME IndInv, NEW k, Agree(k), NEW c \in Clients, NEW r, Goto(c, r), Here(k, r),
           UNCHANGED <<chapters, held, script>>
    PROVE  Agree(k)'
<1>1. Same(k, chapters') /\ Ours(k, held') /\ Asks(k, script')
    BY DEF Agree
<1> QED BY <1>1, AgreeGoto

LEMMA DoneRelies ==
    ASSUME NEW c, NEW answer, Done(c, answer)
    PROVE  \E r : Goto(c, r) /\ r.at \notin Relying
<1> DEFINE r == [Idle EXCEPT !.op = call[c].op, !.answer = answer]
<1>1. r.at = "idle"
    BY IdleFields DEF Idle
<1>2. Goto(c, r)
    BY DEF Done
<1> HIDE DEF r
<1> QED BY <1>1, <1>2 DEF Relying

LEMMA StepRelies ==
    ASSUME IndInv, NEW c \in Clients, NEW step, step \notin Relying, Step(c, step)
    PROVE  \E r : Goto(c, r) /\ r.at \notin Relying
<1> DEFINE r == [call[c] EXCEPT !.at = step]
<1>1. DOMAIN call[c] = Fields
    BY CallIs
<1>2. r.at = step
    BY <1>1 DEF Fields
<1>3. Goto(c, r)
    BY DEF Step
<1> HIDE DEF r
<1> QED BY <1>2, <1>3

\* A step after which the call relies on nothing.
LEMMA AgreeQuiet ==
    ASSUME IndInv, NEW k, Agree(k), NEW c \in Clients, \E r : Goto(c, r) /\ r.at \notin Relying,
           Same(k, chapters'), Ours(k, held'), Asks(k, script')
    PROVE  Agree(k)'
<1>1. PICK r : Goto(c, r) /\ r.at \notin Relying
    OBVIOUS
<1>2. Here(k, r)
    BY <1>1, NothingHere
<1> QED BY <1>1, <1>2, AgreeGoto

LEMMA AgreeQuietCall ==
    ASSUME IndInv, NEW k, Agree(k), NEW c \in Clients, \E r : Goto(c, r) /\ r.at \notin Relying,
           UNCHANGED <<chapters, held, script>>
    PROVE  Agree(k)'
<1>1. Same(k, chapters') /\ Ours(k, held') /\ Asks(k, script')
    BY DEF Agree
<1> QED BY <1>1, AgreeQuiet

-----------------------------------------------------------------------------
(* What a commit writes has the categories of what was there. *)
-----------------------------------------------------------------------------
LEMMA IndexedKind ==
    ASSUME NEW ch \in Chapter, NEW i
    PROVE  [ch EXCEPT !.index = i].category = ch.category
BY DEF Chapter

\* What a model of the unit of work writes keeps the categories.
LEMMA WrittenSame ==
    ASSUME NEW k, NEW g \in Graphs, Same(k, g), NEW w \in Models, w.ch.category = k[w.id]
    PROVE  Same(k, Written(g, w))
<1>1. w.id \in Chapters /\ w.ch \in Chapter /\ w.kind \in {"new", "changed", "deleted"}
    BY DEF Models, Write
<1>2. \A x \in Live(g) : x \in Chapters /\ g[x] \in Chapter /\ g[x].category = k[x]
    BY DEF Same, Live, Graphs
<1>3. CASE w.kind = "new"
    <2> DEFINE h == Created(g, w)
    <2>1. ASSUME NEW x \in Live(h)
          PROVE  h[x].category = k[x]
        <3>1. /\ x \in Chapters /\ h[x] # NoChapter
              /\ h[x] = IF x = w.id THEN w.ch
                        ELSE IF x \in Live(g) /\ g[x].index >= w.ch.index
                             THEN [g[x] EXCEPT !.index = g[x].index + 1] ELSE g[x]
            BY DEF Live, Created
        <3> HIDE DEF h
        <3>2. x = w.id \/ x \in Live(g)
            BY <3>1 DEF Live
        <3> QED BY <1>2, <3>1, <3>2, IndexedKind
    <2> QED BY <1>3, <2>1 DEF Written, Same
<1>4. CASE w.kind = "changed"
    <2> DEFINE i == IF w.id \in Live(g) THEN g[w.id].index ELSE NoIndex
               h == [g EXCEPT ![w.id] = [w.ch EXCEPT !.index = i]]
    <2>1. Written(g, w) = h
        BY <1>1, <1>4 DEF Written, Changed
    <2> HIDE DEF i
    <2>2. ASSUME NEW x \in Live(h)
          PROVE  h[x].category = k[x]
        <3>1. x \in Chapters /\ h[x] # NoChapter /\ h[x] = IF x = w.id THEN [w.ch EXCEPT !.index = i] ELSE g[x]
            BY <1>1 DEF Live, Graphs
        <3> HIDE DEF h
        <3>2. x = w.id \/ x \in Live(g)
            BY <3>1 DEF Live
        <3> QED BY <1>1, <1>2, <3>1, <3>2, IndexedKind
    <2> QED BY <2>1, <2>2 DEF Same
<1>5. CASE w.kind = "deleted"
    <2> DEFINE h == [g EXCEPT ![w.id] = NoChapter]
    <2>1. Written(g, w) = h
        BY <1>5 DEF Written
    <2>2. \A x \in Live(h) : x \in Live(g) /\ h[x] = g[x]
        BY <1>1 DEF Live, Graphs
    <2> HIDE DEF h
    <2> QED BY <1>2, <2>1, <2>2 DEF Same
<1> QED BY <1>1, <1>3, <1>4, <1>5

Kept(k, r) == r \in [graph : Graphs, ok : BOOLEAN] /\ Same(k, r.graph)

\* One save, refused or written.
LEMMA SaveKept ==
    ASSUME NEW k, NEW r, Kept(k, r), NEW w \in Models, w.ch.category = k[w.id]
    PROVE  Kept(k, Save(r, w))
<1>1. r.graph \in Graphs /\ r.ok \in BOOLEAN /\ Same(k, r.graph)
    BY DEF Kept
<1> DEFINE h == Written(r.graph, w)
<1>2. h \in Graphs /\ Same(k, h)
    BY <1>1, WrittenKeeps, WrittenSame
<1>3. \/ Save(r, w) = [r EXCEPT !.graph = h]
      \/ Save(r, w) = [r EXCEPT !.ok = FALSE]
    BY DEF Save
<1> HIDE DEF h
<1>4. [r EXCEPT !.graph = h] \in [graph : Graphs, ok : BOOLEAN] /\ [r EXCEPT !.graph = h].graph = h
    BY <1>2 DEF Kept
<1>5. [r EXCEPT !.ok = FALSE] \in [graph : Graphs, ok : BOOLEAN] /\ [r EXCEPT !.ok = FALSE].graph = r.graph
    BY DEF Kept
<1> QED BY <1>1, <1>2, <1>3, <1>4, <1>5 DEF Kept

\* The saves of one list, by induction along the chain.
LEMMA SavedKept ==
    ASSUME NEW k, NEW r, Kept(k, r), NEW s \in Seq(Models), Ours(k, s), NEW kind
    PROVE  Kept(k, Saved(r, s, kind))
<1>1. Len(s) \in Nat /\ \A i \in 1 .. Len(s) : s[i] \in Models /\ s[i].ch.category = k[s[i].id]
    BY LenProperties, ElementOfSeq DEF Ours
<1>2. PICK f : /\ f[0] = r /\ f[Len(s)] = Saved(r, s, kind)
               /\ \A i \in 1 .. Len(s) :
                    f[i] = IF s[i].kind = kind THEN Save(f[i - 1], s[i]) ELSE f[i - 1]
    BY SavedIsChain
<1> DEFINE S == {m \in Nat : m <= Len(s) => Kept(k, f[m])}
<1>3. 0 \in S
    BY <1>2
<1>4. ASSUME NEW m \in Nat, m \in S
      PROVE  m + 1 \in S
    <2> SUFFICES ASSUME m + 1 <= Len(s)
                 PROVE  Kept(k, f[m + 1])
        OBVIOUS
    <2>1. Kept(k, f[m]) /\ m + 1 \in 1 .. Len(s) /\ (m + 1) - 1 = m
        BY <1>1, <1>4
    <2>2. f[m + 1] = f[m] \/ f[m + 1] = Save(f[m], s[m + 1])
        BY <1>2, <2>1
    <2>3. Kept(k, Save(f[m], s[m + 1]))
        BY <1>1, <2>1, SaveKept
    <2> QED BY <2>1, <2>2, <2>3
<1>5. Len(s) \in S
    <2> HIDE DEF S
    <2> QED BY <1>1, <1>3, <1>4, SetInduction
<1> QED BY <1>1, <1>2, <1>5

\* A commit: whatever is registered, and the call's own model.
LEMMA AgreeCommit ==
    ASSUME IndInv, NEW k, Agree(k), NEW c \in Clients, NEW w \in Models, w.ch.category = k[w.id],
           NEW step, Commit(c, w, step),
           step # "done" => Here(k, [call[c] EXCEPT !.at = step]), UNCHANGED script
    PROVE  Agree(k)'
<1> DEFINE all    == Append(held, w)
           start  == [graph |-> chapters, ok |-> TRUE]
           new    == Saved(start, all, "new")
           result == Saved(Saved(new, all, "changed"), all, "deleted")
<1>1. held \in Seq(Models) /\ all \in Seq(Models) /\ Ours(k, held)
    BY DEF IndInv, Agree
<1>2. Ours(k, all)
    <2>1. /\ Len(held) \in Nat /\ Len(all) = Len(held) + 1
          /\ \A i \in 1 .. Len(held) : all[i] = held[i]
          /\ all[Len(held) + 1] = w
        BY <1>1, LenProperties, AppendProperties
    <2>2. \A i \in 1 .. Len(held) + 1 : i \in 1 .. Len(held) \/ i = Len(held) + 1
        BY <2>1
    <2> HIDE DEF all
    <2> QED BY <1>1, <2>1, <2>2 DEF Ours
<1>3. Kept(k, start)
    <2>1. start \in [graph : Graphs, ok : BOOLEAN] /\ start.graph = chapters
        BY DEF IndInv, TypeOK, Graphs
    <2> HIDE DEF start
    <2> QED BY <2>1 DEF Kept, Agree
<1>4. Kept(k, result)
    <2> HIDE DEF all, start
    <2>1. Kept(k, new)
        BY <1>1, <1>2, <1>3, SavedKept
    <2> HIDE DEF new
    <2>2. Kept(k, Saved(new, all, "changed"))
        BY <1>1, <1>2, <2>1, SavedKept
    <2> QED BY <1>1, <1>2, <2>2, SavedKept
<1>5. /\ chapters' = result.graph
      /\ IF result.ok
         THEN held' = << >> /\ (IF step = "done" THEN Done(c, "ok") ELSE Step(c, step))
         ELSE held' = all /\ Done(c, "error")
    BY DEF Commit
<1> HIDE DEF result, all
<1>6. Same(k, chapters') /\ Ours(k, held') /\ Asks(k, script')
    <2>1. Ours(k, << >>)
        BY EmptySeq DEF Ours
    <2>2. held' = << >> \/ held' = all
        BY <1>5
    <2> QED BY <1>2, <1>4, <1>5, <2>1, <2>2 DEF Kept, Agree
<1>7. CASE \E answer : Done(c, answer)
    <2>1. \E r : Goto(c, r) /\ r.at \notin Relying
        BY <1>7, DoneRelies
    <2> QED BY <1>6, <2>1, AgreeQuiet
<1>8. CASE step # "done" /\ Step(c, step)
    <2> DEFINE r == [call[c] EXCEPT !.at = step]
    <2>1. Goto(c, r) /\ Here(k, r)
        BY <1>8 DEF Step
    <2> HIDE DEF r
    <2> QED BY <1>6, <2>1, AgreeGoto
<1> QED BY <1>5, <1>7, <1>8

\* The categories of the chapters that are there, and of the ones to come.
LEMMA InitPlace == Init => PlaceInv
<1> SUFFICES ASSUME Init PROVE PlaceInv
    OBVIOUS
<1>1. PICK d \in Documents : chapters = d.chapters
    BY DEF Init
<1>2. chapters \in Graphs /\ Fresh(script, chapters) /\ script \in [Clients -> Seq(Requests)]
    BY <1>1, DocumentsAssumption, FreshAssumption, ScriptsAssumption DEF Init, Graphs
<1> DEFINE New(x, c, i) == i \in 1 .. Len(script[c]) /\ script[c][i].op = "create" /\ script[c][i].id = x
           Kind(x) == CHOOSE t \in {"Chapter", "Character"} :
                        \E c \in Clients : \E i \in 1 .. Len(script[c]) : New(x, c, i) /\ script[c][i].category = t
           k == [x \in Chapters |-> IF x \in Live(chapters) THEN chapters[x].category
                                    ELSE IF \E c \in Clients : \E i \in 1 .. Len(script[c]) : New(x, c, i) THEN Kind(x) ELSE "Chapter"]
<1>3. ASSUME NEW c \in Clients, NEW i \in 1 .. Len(script[c]), script[c][i].op = "create"
      PROVE  LET x == script[c][i].id IN
             /\ x \in Chapters /\ x \notin Live(chapters)
             /\ script[c][i].category \in {"Chapter", "Character"} /\ Kind(x) = script[c][i].category
    <2> DEFINE x == script[c][i].id
               t == script[c][i].category
    <2>1. script[c][i] \in Requests
        <3>1. script[c] \in Seq(Requests)
            BY <1>2
        <3> QED BY <3>1, ElementOfSeq
    <2>2. x \in Chapters /\ t \in {"Chapter", "Character"}
        BY <1>3, <2>1 DEF Requests
    <2>3. x \notin Live(chapters)
        BY <1>2, <1>3 DEF Fresh
    <2>4. ASSUME NEW e \in Clients, NEW j \in 1 .. Len(script[e]), New(x, e, j)
          PROVE  script[e][j].category = t
        <3>1. c = e /\ i = j
            BY <1>2, <1>3, <2>4 DEF Fresh
        <3> QED BY <3>1
    <2>5. New(x, c, i)
        BY <1>3
    <2> HIDE DEF New, x, t
    <2>6. Kind(x) = t
        <3>1. \E u \in {"Chapter", "Character"} : \E e \in Clients : \E j \in 1 .. Len(script[e]) :
                New(x, e, j) /\ script[e][j].category = u
            BY <2>2, <2>5 DEF t
        <3>2. \E e \in Clients : \E j \in 1 .. Len(script[e]) : New(x, e, j) /\ script[e][j].category = Kind(x)
            BY <3>1
        <3> QED BY <2>4, <3>2
    <2> QED BY <2>2, <2>3, <2>6 DEF x, t
<1>4. ASSUME NEW c \in Clients, NEW i \in 1 .. Len(script[c]), script[c][i].op = "create"
      PROVE  k[script[c][i].id] = script[c][i].category
    <2> DEFINE x == script[c][i].id
    <2>1. x \in Chapters /\ x \notin Live(chapters) /\ Kind(x) = script[c][i].category
        BY <1>3, <1>4
    <2>2. New(x, c, i)
        BY <1>4
    <2> HIDE DEF x, New, Kind
    <2> QED BY <2>1, <2>2 DEF x
<1>5. k \in Kinds
    <2>1. ASSUME NEW x \in Chapters
          PROVE  k[x] \in {"Chapter", "Character"}
        <3>1. CASE x \in Live(chapters)
            BY <1>2, <3>1 DEF Live, Graphs, Chapter
        <3>2. CASE x \notin Live(chapters) /\ \E c \in Clients : \E i \in 1 .. Len(script[c]) : New(x, c, i)
            <4>0. PICK c \in Clients : \E i \in 1 .. Len(script[c]) : New(x, c, i)
                BY <3>2
            <4>1. PICK i \in 1 .. Len(script[c]) : New(x, c, i)
                BY <4>0
            <4>2. Kind(x) \in {"Chapter", "Character"}
                <5>1. /\ script[c][i].category \in {"Chapter", "Character"}
                      /\ Kind(script[c][i].id) = script[c][i].category
                    BY <1>3, <4>1
                <5>2. script[c][i].id = x
                    BY <4>1
                <5> HIDE DEF Kind
                <5> QED BY <5>1, <5>2
            <4> HIDE DEF Kind, New
            <4> QED BY <3>2, <4>2
        <3>3. CASE x \notin Live(chapters) /\ ~ \E c \in Clients : \E i \in 1 .. Len(script[c]) : New(x, c, i)
            <4> HIDE DEF Kind, New
            <4> QED BY <3>3
        <3> QED BY <3>1, <3>2, <3>3
    <2>2. k = [x \in Chapters |-> k[x]]
        OBVIOUS
    <2> HIDE DEF k
    <2> QED BY <2>1, <2>2 DEF Kinds
<1>6. \A x \in Live(chapters) : k[x] = chapters[x].category
    BY DEF Live
<1> HIDE DEF k, New, Kind
<1>7. Same(k, chapters) /\ Asks(k, script)
    BY <1>4, <1>6 DEF Same, Asks
<1>8. Ours(k, held)
    BY EmptySeq DEF Init, Ours
<1>9. \A c \in Clients : Here(k, call[c])
    <2>1. \A c \in Clients : call[c].at = "idle"
        BY DEF Init, Idle
    <2>2. "idle" \notin Relying
        BY DEF Relying
    <2> QED BY <2>1, <2>2, NothingHere
<1> QED BY <1>5, <1>7, <1>8, <1>9 DEF PlaceInv, Agree

\* A new chapter is asked for with its category.
LEMMA BeginPlace ==
    ASSUME IndInv, NEW k, Agree(k), NEW c \in Clients, Begin(c)
    PROVE  Agree(k)'
<1> DEFINE do == Head(script[c])
           at == CASE do.op = "create" -> "resolve" [] do.op = "renumber" -> "plan" [] OTHER -> "load"
           V(f) == IF f = "at" THEN at ELSE IF f \in DOMAIN do THEN do[f] ELSE Idle[f]
           r  == [f \in DOMAIN Idle |-> V(f)]
<1>1. /\ script \in [Clients -> Seq(Requests)] /\ script[c] \in Seq(Requests) /\ script[c] # << >>
      /\ script' = [script EXCEPT ![c] = Tail(script[c])] /\ UNCHANGED <<chapters, held>>
    BY DEF Begin, IndInv
<1>2. /\ do \in Requests /\ do = script[c][1] /\ Len(script[c]) \in Nat /\ 1 <= Len(script[c])
      /\ Len(Tail(script[c])) = Len(script[c]) - 1
      /\ \A i \in 1 .. Len(script[c]) - 1 : Tail(script[c])[i] = script[c][i + 1]
    BY <1>1, HeadTailProperties, EmptySeq, LenProperties
<1>3. Goto(c, r)
    BY DEF Begin
<1> HIDE DEF do
<1>4. Asks(k, script)
    BY DEF Agree
<1>5. Asks(k, script')
    <2> SUFFICES ASSUME NEW e \in Clients, NEW i \in 1 .. Len(script'[e]), script'[e][i].op = "create"
                 PROVE  script'[e][i].category = k[script'[e][i].id]
        BY DEF Asks
    <2>1. CASE e # c
        <3>1. script'[e] = script[e]
            BY <1>1, <2>1
        <3> QED BY <1>4, <3>1 DEF Asks
    <2>2. CASE e = c
        <3>1. script'[e] = Tail(script[c])
            BY <1>1, <2>2
        <3>2. i \in 1 .. Len(script[c]) - 1 /\ i + 1 \in 1 .. Len(script[c])
            BY <1>2, <3>1
        <3>3. script'[e][i] = script[c][i + 1]
            BY <1>2, <3>1, <3>2
        <3> QED BY <1>4, <3>2, <3>3 DEF Asks
    <2> QED BY <2>1, <2>2
<1>6. r.at = at
    <2> HIDE DEF at
    <2>1. "at" \in DOMAIN Idle /\ V("at") = at
        BY IdleFields DEF Fields
    <2> HIDE DEF V
    <2> QED BY <2>1
<1>7. \A f \in Fields : f # "at" /\ f \in DOMAIN do => r[f] = do[f]
    BY IdleFields
<1> HIDE DEF r
<1>8. CASE do.op = "create"
    <2>1. DOMAIN do = {"op", "id", "after", "title", "category"}
        BY <1>2, <1>8 DEF Requests
    <2>2. r.at = "resolve" /\ r.id = do.id /\ r.category = do.category
        BY <1>6, <1>7, <1>8, <2>1 DEF Fields
    <2>3. do.category = k[do.id]
        BY <1>2, <1>4, <1>8 DEF Asks
    <2>4. Here(k, r)
        BY <2>2, <2>3 DEF Here
    <2>5. Same(k, chapters') /\ Ours(k, held')
        BY <1>1 DEF Agree
    <2> QED BY <1>3, <1>5, <2>4, <2>5, AgreeGoto
<1>9. CASE do.op # "create"
    <2>1. r.at \in {"plan", "load"}
        BY <1>6, <1>9
    <2>2. Here(k, r)
        BY <2>1, NothingHere DEF Relying
    <2>3. Same(k, chapters') /\ Ours(k, held')
        BY <1>1 DEF Agree
    <2> QED BY <1>3, <1>5, <2>2, <2>3, AgreeGoto
<1> QED BY <1>8, <1>9

\* The index after the one that is seen.
LEMMA ResolvePlace ==
    ASSUME IndInv, NEW k, Agree(k), NEW c \in Clients, Resolve(c)
    PROVE  Agree(k)'
<1> DEFINE after == call[c].after
           i == IndexAfter(after)
           seen == IF after = NoChapter THEN 0 ELSE Listed(after)
           r == [call[c] EXCEPT !.at = "check", !.index = i, !.seen = seen]
<1>1. /\ DOMAIN call[c] = Fields /\ Asked(call[c]) /\ call[c].at = "resolve" /\ call[c].op = "create"
      /\ Here(k, call[c]) /\ UNCHANGED <<chapters, held, script>>
    BY CallIs DEF Resolve, At, Local, Agree
<1>2. Done(c, "no such chapter") \/ (Goto(c, r) /\ (after = NoChapter \/ after \in Live(chapters)))
    BY DEF Resolve
<1>3. CASE Done(c, "no such chapter")
    BY <1>1, <1>3, DoneRelies, AgreeQuietCall
<1>4. CASE Goto(c, r) /\ (after = NoChapter \/ after \in Live(chapters))
    <2>1. seen \in Nat /\ i = IF after = NoChapter THEN 0 ELSE seen + 1
        <3>1. ASSUME after \in Live(chapters)
              PROVE  Listed(after) \in Nat
            BY <3>1 DEF Live, IndInv, TypeOK, Chapter, Listed
        <3> QED BY <1>4, <3>1 DEF IndexAfter
    <2> HIDE DEF i, seen
    <2>2. /\ r.at = "check" /\ r.index = i /\ r.seen = seen /\ r.op = call[c].op /\ r.after = after
          /\ r.category = call[c].category /\ r.id = call[c].id
        BY <1>1 DEF Fields
    <2> HIDE DEF r
    <2>3. Here(k, r)
        BY <1>1, <2>1, <2>2 DEF Here
    <2> QED BY <1>1, <1>4, <2>3, AgreeCall
<1> QED BY <1>2, <1>3, <1>4

\* What the call has read goes with it to the commit.
LEMMA CheckPlace ==
    ASSUME IndInv, NEW k, Agree(k), NEW c \in Clients, Check(c)
    PROVE  Agree(k)'
<1> DEFINE r == [call[c] EXCEPT !.at = "commit"]
<1>1. /\ DOMAIN call[c] = Fields /\ call[c].at = "check" /\ Here(k, call[c])
      /\ UNCHANGED <<chapters, held, script>>
    BY CallIs DEF Check, At, Agree
<1>2. Done(c, "duplicate") \/ Goto(c, r)
    BY DEF Check, Step
<1>3. CASE Done(c, "duplicate")
    BY <1>1, <1>3, DoneRelies, AgreeQuietCall
<1>4. CASE Goto(c, r)
    <2>1. /\ r.at = "commit" /\ r.index = call[c].index /\ r.seen = call[c].seen /\ r.op = call[c].op
          /\ r.after = call[c].after /\ r.category = call[c].category /\ r.id = call[c].id /\ r.ch = call[c].ch
        BY <1>1 DEF Fields
    <2> HIDE DEF r
    <2>2. Here(k, r)
        BY <1>1, <2>1 DEF Here
    <2> QED BY <1>1, <1>4, <2>2, AgreeCall
<1> QED BY <1>2, <1>3, <1>4

\* The chapter that is loaded is of its category.
LEMMA LoadPlace ==
    ASSUME IndInv, NEW k, Agree(k), NEW c \in Clients, Load(c)
    PROVE  Agree(k)'
<1> DEFINE ch == chapters[call[c].id]
           at == CASE call[c].op = "update" -> "check"
                   [] call[c].op = "move"   -> "list"
                   [] call[c].op = "delete" -> "remove"
           r == [call[c] EXCEPT !.ch = ch, !.at = at]
<1>1. /\ DOMAIN call[c] = Fields /\ call[c].op \in {"move", "update", "delete"} /\ call[c].id \in Chapters
      /\ UNCHANGED <<chapters, held, script>> /\ Same(k, chapters)
    BY CallIs DEF Load, At, Asked, Local, Agree
<1>2. \/ \E answer : Done(c, answer)
      \/ Goto(c, r) /\ ch # NoChapter /\ ~(call[c].op = "move" /\ call[c].id = call[c].after)
    BY DEF Load
<1>3. CASE \E answer : Done(c, answer)
    BY <1>1, <1>3, DoneRelies, AgreeQuietCall
<1>4. CASE Goto(c, r) /\ ch # NoChapter /\ ~(call[c].op = "move" /\ call[c].id = call[c].after)
    <2>1. ch.category = k[call[c].id]
        BY <1>1, <1>4 DEF Same, Live
    <2>2. \/ call[c].op = "update" /\ at = "check"
          \/ call[c].op = "move" /\ at = "list"
          \/ call[c].op = "delete" /\ at = "remove"
        BY <1>1
    <2> HIDE DEF ch, at
    <2>3. r.at = at /\ r.ch = ch /\ r.op = call[c].op /\ r.id = call[c].id /\ r.after = call[c].after
        BY <1>1 DEF Fields
    <2> HIDE DEF r
    <2>4. Here(k, r)
        BY <1>4, <2>1, <2>2, <2>3 DEF Here
    <2> QED BY <1>1, <1>4, <2>4, AgreeCall
<1> QED BY <1>2, <1>3, <1>4

-----------------------------------------------------------------------------
(* The steps that write, and the rest. *)
-----------------------------------------------------------------------------
\* The commits register a chapter of its category.
LEMMA CreatePlace ==
    ASSUME IndInv, NEW k, Agree(k), NEW c \in Clients, Create(c)
    PROVE  Agree(k)'
<1> DEFINE ch == [title |-> call[c].title, act |-> "", category |-> call[c].category,
                  index |-> call[c].index]
           w == WriteOf(c, "new", ch)
<1>1. /\ DOMAIN call[c] = Fields /\ call[c].id \in Chapters /\ call[c].title \in Title
      /\ call[c].category \in {"Chapter", "Character"} /\ call[c].index \in Nat
      /\ call[c].category = k[call[c].id]
    BY CallIs DEF Create, At, Asked, Local, Agree, Here
<1>2. ch \in Chapter /\ ch.index \in Nat /\ ch.category = call[c].category
    BY <1>1, ActsAssumption DEF Chapter
<1> HIDE DEF ch
<1>3. w \in Models /\ w.ch.category = k[w.id]
    BY <1>1, <1>2 DEF WriteOf, Models, Write
<1>4. Here(k, [call[c] EXCEPT !.at = "materialize"])
    BY <1>1, SameLocals, NothingHere DEF Relying
<1>5. Commit(c, w, "materialize") /\ UNCHANGED script
    BY DEF Create, ch
<1> HIDE DEF w
<1> QED BY <1>3, <1>4, <1>5, AgreeCommit

LEMMA UpdatePlace ==
    ASSUME IndInv, NEW k, Agree(k), NEW c \in Clients, Update(c)
    PROVE  Agree(k)'
<1> DEFINE ch == [call[c].ch EXCEPT !.title = call[c].title]
           w == WriteOf(c, "changed", ch)
           step == IF call[c].title = call[c].ch.title THEN "done" ELSE "rename"
<1>1. /\ DOMAIN call[c] = Fields /\ call[c].id \in Chapters /\ call[c].title \in Title
      /\ call[c].ch \in Chapter /\ call[c].ch.category = k[call[c].id]
    BY CallIs DEF Update, At, Asked, Local, Agree, Here
<1>2. ch \in Chapter
    BY <1>1, PathOK
<1>3. ch.category = k[call[c].id]
    BY <1>1 DEF Chapter
<1> HIDE DEF ch
<1>4. w \in Models /\ w.ch.category = k[w.id]
    BY <1>1, <1>2, <1>3 DEF WriteOf, Models, Write
<1>5. step # "done" => Here(k, [call[c] EXCEPT !.at = step])
    BY ZenonT(40), <1>1, SameLocals, NothingHere DEF Relying
<1>6. Commit(c, w, step) /\ UNCHANGED script
    BY DEF Update, ch
<1> HIDE DEF w, step
<1> QED BY <1>4, <1>5, <1>6, AgreeCommit

LEMMA DeletePlace ==
    ASSUME IndInv, NEW k, Agree(k), NEW c \in Clients, Delete(c)
    PROVE  Agree(k)'
<1> DEFINE w == WriteOf(c, "deleted", call[c].ch)
<1>1. call[c].id \in Chapters /\ call[c].ch \in Chapter /\ call[c].ch.category = k[call[c].id]
    BY CallIs DEF Delete, At, Asked, Local, Agree, Here
<1>2. w \in Models /\ w.ch.category = k[w.id]
    BY <1>1 DEF WriteOf, Models, Write
<1>3. Commit(c, w, "done") /\ UNCHANGED script
    BY DEF Delete
<1> HIDE DEF w
<1> QED BY <1>2, <1>3, AgreeCommit

LEMMA AdoptPlace ==
    ASSUME IndInv, NEW k, Agree(k), NEW c \in Clients, Adopt(c)
    PROVE  Agree(k)'
<1> DEFINE w == WriteOf(c, "changed", call[c].ch)
           r == [call[c] EXCEPT !.at = "reorder"]
<1>1. /\ DOMAIN call[c] = Fields /\ call[c].id \in Chapters /\ call[c].ch \in Chapter
      /\ call[c].ch.category = k[call[c].id] /\ call[c].at = "adopt" /\ Here(k, call[c])
    BY CallIs DEF Adopt, At, Asked, Local, Agree, Here
<1>2. w \in Models /\ w.ch.category = k[w.id]
    BY <1>1 DEF WriteOf, Models, Write
<1>3. Here(k, r)
    <2>1. /\ r.at = "reorder" /\ r.id = call[c].id /\ r.after = call[c].after /\ r.ch = call[c].ch
          /\ r.members = call[c].members /\ r.order = call[c].order
        BY <1>1 DEF Fields
    <2> HIDE DEF r
    <2> QED BY <1>1, <2>1 DEF Here
<1>4. Commit(c, w, "reorder") /\ UNCHANGED script
    BY DEF Adopt
<1> HIDE DEF w
<1> QED BY <1>2, <1>3, <1>4, AgreeCommit

\* What List refuses by the categories in the graph it refuses by k.
LEMMA CrossesIs ==
    ASSUME NEW k, Same(k, chapters), NEW s, NEW x, NEW after, Movable(s, x, after),
           Ids(s) \subseteq Live(chapters), ~Crosses(s, x, after)
    PROVE  ~Crossing(k, s, x, after)
<1> DEFINE r == Others(s, x)
<1>1. r \in Seq(Chapters) /\ Ids(r) = Ids(s) \ {x} /\ Len(r) \in Nat /\ x \in Ids(s)
    BY OthersHold, LenProperties DEF Movable
<1>2. \A y \in Ids(s) : Category(y) = k[y]
    BY DEF Same, Category
<1>3. \A i \in 1 .. Len(r) : r[i] \in Ids(s)
    BY <1>1 DEF Ids
<1> HIDE DEF r
<1>4. CASE after = NoChapter
    <2>1. ~(r # << >> /\ Category(r[1]) # Category(x))
        BY <1>4 DEF Crosses, r
    <2>2. r # << >> => 1 \in 1 .. Len(r)
        BY <1>1, EmptySeq
    <2>3. ~(r # << >> /\ k[r[1]] # k[x])
        BY <1>1, <1>2, <1>3, <2>1, <2>2
    <2> QED BY <1>4, <2>3 DEF Crossing, r
<1>5. CASE after # NoChapter
    <2> DEFINE i == Position(r, after)
    <2>1. after \in Ids(s) /\ after \in Ids(r)
        BY <1>1, <1>5 DEF Movable
    <2>2. i \in 1 .. Len(r)
        BY <2>1, PositionOK
    <2>3. ~(Category(after) # Category(x) /\ (i = Len(r) \/ Category(r[i + 1]) # Category(x)))
        BY <1>5 DEF Crosses, r
    <2> HIDE DEF i
    <2>4. i # Len(r) => i + 1 \in 1 .. Len(r)
        BY <1>1, <2>2
    <2>5. ~(k[after] # k[x] /\ (i = Len(r) \/ k[r[i + 1]] # k[x]))
        BY <1>1, <1>2, <1>3, <2>1, <2>3, <2>4
    <2> QED BY <1>5, <2>5 DEF Crossing, r, i
<1> QED BY <1>4, <1>5

\* The order a move will write, made of the list it keeps.
LEMMA ListPlace ==
    ASSUME IndInv, NEW k, Agree(k), NEW c \in Clients, List(c)
    PROVE  Agree(k)'
<1> DEFINE x == call[c].id
           after == call[c].after
<1>1. /\ DOMAIN call[c] = Fields /\ call[c].at = "list" /\ call[c].ch \in Chapter
      /\ call[c].ch.category = k[x] /\ x # after
      /\ Same(k, chapters) /\ chapters \in Graphs /\ UNCHANGED <<chapters, held, script>>
    BY CallIs DEF List, At, Local, Agree, Here, IndInv, TypeOK, Graphs
<1>2. CASE \E answer : Done(c, answer)
    BY <1>1, <1>2, DoneRelies, AgreeQuietCall
<1>3. CASE ~ \E answer : Done(c, answer)
    <2>1. PICK s \in Listings(chapters) :
            /\ after = NoChapter \/ after \in Ids(s)
            /\ x \in Ids(s) /\ ~Crosses(s, x, after)
            /\ LET neighbor == IF after = NoChapter THEN s[1] ELSE after
                   adopts   == /\ Reordered(s, x, after) # s
                               /\ Category(neighbor) = Category(x)
                               /\ call[c].ch.act # chapters[neighbor].act
               IN  Goto(c, [call[c] EXCEPT
                              !.at = IF adopts THEN "adopt" ELSE "reorder",
                              !.ch.act = IF adopts THEN chapters[neighbor].act ELSE @,
                              !.order = Reordered(s, x, after), !.members = s])
        BY <1>3 DEF List
    <2> DEFINE neighbor == IF after = NoChapter THEN s[1] ELSE after
               adopts   == /\ Reordered(s, x, after) # s
                           /\ Category(neighbor) = Category(x)
                           /\ call[c].ch.act # chapters[neighbor].act
               act == IF adopts THEN chapters[neighbor].act ELSE call[c].ch.act
               at  == IF adopts THEN "adopt" ELSE "reorder"
               ch  == [call[c].ch EXCEPT !.act = act]
               order == Reordered(s, x, after)
               r == [call[c] EXCEPT !.at = at, !.ch = ch, !.order = order, !.members = s]
    <2>2. Goto(c, r)
        <3>1. r = [call[c] EXCEPT
                     !.at = at, !.ch.act = IF adopts THEN chapters[neighbor].act ELSE @,
                     !.order = order, !.members = s]
            <4> HIDE DEF neighbor, adopts, order, at
            <4> QED BY <1>1 DEF Fields
        <3> QED BY <2>1, <3>1
    <2>3. at \in {"adopt", "reorder"}
        OBVIOUS
    <2>4. ch.category = k[x]
        <3> HIDE DEF act
        <3> QED BY <1>1 DEF Chapter
    <2>5. Movable(s, x, after) /\ Ids(s) \subseteq Live(chapters)
        <3>1. s \in Seq(Chapters) /\ NoRepeats(s) /\ Ids(s) \subseteq Live(chapters)
            BY <1>1, ListingsOK
        <3> QED BY <1>1, <2>1, <3>1 DEF Movable
    <2>6. ~Crossing(k, s, x, after)
        BY <1>1, <2>1, <2>5, CrossesIs
    <2> HIDE DEF at, ch, order
    <2>7. /\ r.at = at /\ r.ch = ch /\ r.order = order /\ r.members = s /\ r.id = x /\ r.after = after
          /\ r.op = call[c].op
        BY <1>1 DEF Fields
    <2> HIDE DEF r
    <2>8. Here(k, r)
        BY <2>3, <2>4, <2>5, <2>6, <2>7 DEF Here, order
    <2> QED BY <1>1, <2>2, <2>8, AgreeCall
<1> QED BY <1>2, <1>3

\* Another index, another title: the same category.
LEMMA ReorderPlace ==
    ASSUME IndInv, NEW k, Agree(k), NEW c \in Clients, Reorder(c)
    PROVE  Agree(k)'
<1>1. /\ Same(k, chapters) /\ Ours(k, held) /\ Asks(k, script) /\ chapters \in Graphs
      /\ UNCHANGED <<held, script>> /\ Done(c, "ok")
    BY DEF Reorder, Agree, IndInv, TypeOK, Graphs
<1>2. ASSUME NEW x \in Live(chapters')
      PROVE  chapters'[x].category = k[x]
    <2> DEFINE i == Position(call[c].order, x) - 1
    <2>1. /\ x \in Chapters /\ chapters'[x] # NoChapter
          /\ chapters'[x] = IF x \in Live(chapters) /\ x \in Ids(call[c].order)
                            THEN [chapters[x] EXCEPT !.index = i] ELSE chapters[x]
        BY DEF Reorder, Live
    <2>2. x \in Live(chapters) /\ chapters[x] \in Chapter /\ chapters[x].category = k[x]
        BY <1>1, <2>1 DEF Live, Same, Graphs
    <2> HIDE DEF i
    <2> QED BY <2>1, <2>2, IndexedKind
<1>3. Same(k, chapters')
    BY <1>2 DEF Same
<1> QED BY <1>1, <1>3, DoneRelies, AgreeQuiet

LEMMA RetitlePlace ==
    ASSUME IndInv, NEW k, Agree(k), NEW c \in Clients, Retitle(c)
    PROVE  Agree(k)'
<1> DEFINE titles == call[c].titles
           after  == [x \in Chapters |-> IF x \in Live(chapters) \cap DOMAIN titles
                        THEN [chapters[x] EXCEPT !.title = titles[x]] ELSE chapters[x]]
<1>1. /\ Same(k, chapters) /\ Ours(k, held) /\ Asks(k, script) /\ chapters \in Graphs
      /\ UNCHANGED <<held, script>>
    BY DEF Retitle, Agree, IndInv, TypeOK, Graphs
<1>2. \/ chapters' = after /\ Step(c, "moves")
      \/ Done(c, "error") /\ UNCHANGED chapters
    BY DEF Retitle
<1>3. ASSUME NEW x \in Live(after)
      PROVE  after[x].category = k[x]
    <2> DEFINE t == titles[x]
    <2>1. /\ x \in Chapters /\ after[x] # NoChapter
          /\ after[x] = IF x \in Live(chapters) \cap DOMAIN titles
                        THEN [chapters[x] EXCEPT !.title = t] ELSE chapters[x]
        BY DEF Live
    <2> HIDE DEF t, after
    <2>2. chapters[x] \in Chapter /\ chapters[x].category = k[x]
        BY <1>1, <2>1 DEF Live, Same, Graphs
    <2>3. [chapters[x] EXCEPT !.title = t].category = chapters[x].category
        BY <2>2 DEF Chapter
    <2> QED BY <2>1, <2>2, <2>3
<1> HIDE DEF after
<1>4. Same(k, chapters')
    BY <1>1, <1>2, <1>3 DEF Same
<1>5. "moves" \notin Relying
    BY DEF Relying
<1> QED BY <1>1, <1>2, <1>4, <1>5, DoneRelies, StepRelies, AgreeQuiet

LEMMA RemoveFilePlace ==
    ASSUME IndInv, NEW k, Agree(k), NEW c \in Clients, RemoveFile(c)
    PROVE  Agree(k)'
<1> DEFINE r == [call[c] EXCEPT !.at = "drop"]
<1>1. /\ DOMAIN call[c] = Fields /\ call[c].at = "remove" /\ Here(k, call[c])
      /\ UNCHANGED <<chapters, held, script>>
    BY CallIs DEF RemoveFile, At, Agree
<1>2. Done(c, "error") \/ Goto(c, r)
    BY DEF RemoveFile, Step
<1>3. CASE Done(c, "error")
    BY <1>1, <1>3, DoneRelies, AgreeQuietCall
<1>4. CASE Goto(c, r)
    <2>1. r.at = "drop" /\ r.ch = call[c].ch /\ r.id = call[c].id
        BY <1>1 DEF Fields
    <2> HIDE DEF r
    <2>2. Here(k, r)
        BY <1>1, <2>1 DEF Here
    <2> QED BY <1>1, <1>4, <2>2, AgreeCall
<1> QED BY <1>2, <1>3, <1>4

\* The steps on the files, after which no call relies on what it read.
LEMMA FilesPlace ==
    ASSUME IndInv, NEW k, Agree(k), NEW c \in Clients,
           Materialize(c) \/ Snap(c) \/ Rename(c) \/ Plan(c) \/ Moves(c) \/ Aside(c) \/ Finish(c) \/ Undo(c)
    PROVE  Agree(k)'
<1>1. DOMAIN call[c] = Fields /\ UNCHANGED <<chapters, held, script>>
    BY CallIs DEF Materialize, Snap, Rename, Plan, Moves, Aside, Finish, Undo
<1>2. "snap" \notin Relying
    BY DEF Relying
<1> DEFINE Quiet == \E r : Goto(c, r) /\ r.at \notin Relying
<1>3. CASE \E answer : Done(c, answer)
    BY <1>1, <1>3, DoneRelies, AgreeQuietCall
<1>4. CASE Step(c, "snap")
    BY <1>1, <1>2, <1>4, StepRelies, AgreeQuietCall
<1>5. CASE Materialize(c) \/ Snap(c) \/ Rename(c)
    BY <1>3, <1>4, <1>5 DEF Materialize, Snap, Rename
<1>6. CASE Plan(c) /\ ~ \E answer : Done(c, answer)
    <2>1. \E s, t, m : Goto(c, [call[c] EXCEPT !.at = "retitle", !.members = s, !.titles = t, !.moves = m])
        BY <1>6 DEF Plan
    <2>2. PICK s, t, m : Goto(c, [call[c] EXCEPT !.at = "retitle", !.members = s, !.titles = t, !.moves = m])
        BY <2>1
    <2> DEFINE r == [call[c] EXCEPT !.at = "retitle", !.members = s, !.titles = t, !.moves = m]
    <2>3. r.at = "retitle"
        BY <1>1 DEF Fields
    <2>4. Goto(c, r)
        BY <2>2
    <2> HIDE DEF r
    <2> QED BY <1>1, <2>3, <2>4, AgreeQuietCall DEF Relying
<1>7. CASE Moves(c) /\ ~ \E answer : Done(c, answer)
    <2> DEFINE moves == Picked(call[c].moves, {m \in Ids(call[c].moves) : Tree(m.old)})
               r == [call[c] EXCEPT !.at = "aside", !.moves = moves, !.next = 1]
    <2>1. Goto(c, r)
        BY <1>7 DEF Moves
    <2>2. r.at = "aside"
        <3> HIDE DEF moves
        <3> QED BY <1>1 DEF Fields
    <2> HIDE DEF r
    <2> QED BY <1>1, <2>1, <2>2, AgreeQuietCall DEF Relying
<1>8. ASSUME NEW p, NEW q, NEW title, NEW n, NEW next \in {"final", "snap"}, Mv(c, p, q, title, n, next),
             call[c].at \in {"aside", "final"}
      PROVE  Agree(k)'
    <2>1. CASE Rollback(c, n)
        <3> DEFINE r == [call[c] EXCEPT !.at = "undo", !.next = 1, !.moves = SubSeq(@, 1, n)]
        <3>1. Goto(c, r)
            BY <2>1 DEF Rollback
        <3>2. r.at = "undo"
            BY <1>1 DEF Fields
        <3> HIDE DEF r
        <3> QED BY <1>1, <3>1, <3>2, AgreeQuietCall DEF Relying
    <2>2. CASE Goto(c, [call[c] EXCEPT !.next = @ + 1])
        <3> DEFINE r == [call[c] EXCEPT !.next = @ + 1]
        <3>1. r.at = call[c].at
            BY <1>1 DEF Fields
        <3>2. Goto(c, r)
            BY <2>2
        <3> HIDE DEF r
        <3> QED BY <1>1, <1>8, <3>1, <3>2, AgreeQuietCall DEF Relying
    <2>3. CASE Goto(c, [call[c] EXCEPT !.next = 1, !.at = next])
        <3> DEFINE r == [call[c] EXCEPT !.next = 1, !.at = next]
        <3>1. r.at = next
            BY <1>1 DEF Fields
        <3>2. Goto(c, r)
            BY <2>3
        <3> HIDE DEF r
        <3> QED BY <1>1, <1>8, <3>1, <3>2, AgreeQuietCall DEF Relying
    <2> QED BY <1>8, <2>1, <2>2, <2>3 DEF Mv
<1>9. CASE Aside(c)
    <2>1. \E p, q, title, n : Mv(c, p, q, title, n, "final")
        BY <1>9 DEF Aside
    <2>2. call[c].at = "aside"
        BY <1>9 DEF Aside, At
    <2> QED BY <1>8, <2>1, <2>2
<1>10. CASE Finish(c)
    <2>1. \E p, q, title, n : Mv(c, p, q, title, n, "snap")
        BY <1>10 DEF Finish
    <2>2. call[c].at = "final"
        BY <1>10 DEF Finish, At
    <2> QED BY <1>8, <2>1, <2>2
<1>11. CASE Undo(c) /\ ~ \E answer : Done(c, answer)
    <2> DEFINE i == call[c].next + 1
               r == [call[c] EXCEPT !.next = i]
    <2>1. Goto(c, r) /\ call[c].at = "undo"
        BY <1>11 DEF Undo, At
    <2> HIDE DEF i
    <2>2. r.at = call[c].at
        BY <1>1 DEF Fields
    <2> HIDE DEF r
    <2> QED BY <1>1, <2>1, <2>2, AgreeQuietCall DEF Relying
<1> QED BY <1>3, <1>5, <1>6, <1>7, <1>9, <1>10, <1>11

\* Every step keeps what the calls rely on.
LEMMA PlaceNext ==
    ASSUME IndInv, PlaceInv, [Next]_vars
    PROVE  PlaceInv'
<1>1. PICK k \in Kinds : Agree(k)
    BY DEF PlaceInv
<1> SUFFICES Agree(k)'
    BY DEF PlaceInv
<1>2. CASE UNCHANGED vars
    BY <1>1, <1>2 DEF vars, Agree, Same, Live
<1>3. CASE Next
    <2>1. PICK c \in Clients :
            \/ Begin(c) \/ Resolve(c) \/ Check(c) \/ Load(c)
            \/ Create(c) \/ Update(c) \/ Delete(c)
            \/ List(c) \/ Adopt(c) \/ Reorder(c)
            \/ Materialize(c) \/ Snap(c) \/ Rename(c) \/ RemoveFile(c)
            \/ Plan(c) \/ Retitle(c) \/ Moves(c) \/ Aside(c) \/ Finish(c) \/ Undo(c)
        BY <1>3 DEF Next
    <2>2. CASE Begin(c) \/ Resolve(c) \/ Check(c) \/ Load(c)
        BY <1>1, <2>2, BeginPlace, ResolvePlace, CheckPlace, LoadPlace
    <2>3. CASE Create(c) \/ Update(c) \/ Delete(c)
        BY <1>1, <2>3, CreatePlace, UpdatePlace, DeletePlace
    <2>4. CASE List(c) \/ Adopt(c) \/ Reorder(c)
        BY <1>1, <2>4, ListPlace, AdoptPlace, ReorderPlace
    <2>5. CASE Retitle(c) \/ RemoveFile(c)
        BY <1>1, <2>5, RetitlePlace, RemoveFilePlace
    <2>6. CASE Materialize(c) \/ Snap(c) \/ Rename(c) \/ Plan(c) \/ Moves(c) \/ Aside(c) \/ Finish(c) \/ Undo(c)
        BY <1>1, <2>6, FilesPlace
    <2> QED BY <2>1, <2>2, <2>3, <2>4, <2>5, <2>6
<1> QED BY <1>2, <1>3

LEMMA PlaceInvHolds == Spec => []PlaceInv
<1>1. IndInv /\ PlaceInv /\ [Next]_vars => PlaceInv'
    BY PlaceNext
<1> QED BY <1>1, InitPlace, IndInvHolds, PTL DEF Spec

-----------------------------------------------------------------------------
(* The step of create or move that places the chapter. *)
-----------------------------------------------------------------------------
\* A commit with nothing else registered that goes on has written its model.
LEMMA LoneCreate ==
    ASSUME IndInv, held = << >>, NEW c \in Clients, NEW w \in Models, w.kind = "new",
           Commit(c, w, "materialize"), call'[c].at = "materialize"
    PROVE  chapters' = Created(chapters, w)
<1>1. CASE UniqueTitles(Written(chapters, w))
    <2>1. chapters' = Written(chapters, w)
        BY <1>1, CommitAlone
    <2> QED BY <2>1 DEF Written
<1>2. CASE ~UniqueTitles(Written(chapters, w))
    <2> DEFINE start   == [graph |-> chapters, ok |-> TRUE]
               refused == [graph |-> chapters, ok |-> FALSE]
               first   == Saved(start, <<w>>, "new")
               second  == Saved(first, <<w>>, "changed")
               outcome == Saved(second, <<w>>, "deleted")
    <2>1. Append(held, w) = <<w>>
        OBVIOUS
    <2>2. Save(start, w) = refused
        BY <1>2 DEF Save
    <2>3. first = Save(start, w)
        BY SavedOne
    <2> HIDE DEF start, first
    <2>4. second = first
        BY SavedOne
    <2> HIDE DEF second
    <2>5. outcome = second
        BY SavedOne
    <2> HIDE DEF outcome
    <2>6. outcome.ok = FALSE
        BY <2>2, <2>3, <2>4, <2>5
    <2>7. Done(c, "error")
        BY <2>1, <2>6 DEF Commit, outcome, second, first, start
    <2>8. call'[c].at = "idle"
        BY <2>7, IdleFields DEF Done, Goto, IndInv, CallsOK, Idle
    <2> QED BY <2>8
<1> QED BY <1>1, <1>2

\* The index that a create has makes its place the one after the chapter it
\* follows.
LEMMA IndexSplits ==
    ASSUME NEW g \in Graphs, Steady(g), NEW after, after # NoChapter => after \in Live(g),
           NEW n, n = IF after = NoChapter THEN 0 ELSE g[after].index + 1
    PROVE  LET s == TheList(g) i == IF after = NoChapter THEN 1 ELSE Position(s, after) + 1 IN
           i \in 1 .. Len(s) + 1 /\ Splits(g, s, i, n)
<1> DEFINE s == TheList(g)
           i == IF after = NoChapter THEN 1 ELSE Position(s, after) + 1
<1>1. Indexed(g) /\ Ranked(g, s)
    BY SteadyIs
<1> HIDE DEF s
<1>2. Len(s) \in Nat /\ \A j \in 1 .. Len(s) : s[j] \in Live(g) /\ g[s[j]].index \in Nat
    BY <1>1, LenProperties DEF Ranked, Ids, Indexed
<1>3. CASE after = NoChapter
    BY <1>2, <1>3 DEF Splits, s
<1>4. CASE after # NoChapter
    <2> DEFINE p == Position(s, after)
    <2>1. after \in Ids(s)
        BY <1>1, <1>4 DEF Ranked
    <2>2. p \in 1 .. Len(s) /\ s[p] = after
        BY <2>1, PositionOK
    <2>3. i = p + 1 /\ n = g[after].index + 1
        BY <1>4
    <2> HIDE DEF p, i
    <2>4. g[after].index \in Nat
        BY <1>2, <2>2
    <2>5. ASSUME NEW j \in 1 .. Len(s)
          PROVE  j < i <=> g[s[j]].index < n
        <3>1. CASE j < p
            <4>1. g[s[j]].index < g[after].index
                BY <1>1, <2>2, <3>1 DEF Ranked, Rising
            <4> QED BY <1>2, <2>2, <2>3, <2>4, <3>1, <4>1
        <3>2. CASE j = p
            BY <2>2, <2>3, <2>4, <3>2
        <3>3. CASE j > p
            <4>1. g[after].index < g[s[j]].index
                BY <1>1, <2>2, <3>3 DEF Ranked, Rising
            <4> QED BY <1>2, <2>2, <2>3, <2>4, <3>3, <4>1
        <3>4. j < p \/ j = p \/ j > p
            BY <2>2
        <3> QED BY <3>1, <3>2, <3>3, <3>4
    <2>6. i \in 1 .. Len(s) + 1
        BY <1>2, <2>2, <2>3
    <2> QED BY <2>5, <2>6 DEF Splits, i, s
<1> QED BY <1>3, <1>4

\* The step that creates a chapter.
LEMMA CreatedThere ==
    ASSUME IndInv, PlaceInv, Next, NEW c \in Clients
    PROVE  CreatedWhereAsked(c)
<1> DEFINE x == call[c].id
           after == call[c].after
           s == TheList(chapters)
           i == IF after = NoChapter THEN 1 ELSE Position(s, after) + 1
<1> SUFFICES ASSUME At(c, "commit"), call[c].op = "create", call'[c].at = "materialize",
                    held = << >>, x \notin Live(chapters), Steady(chapters),
                    after # NoChapter => after \in Live(chapters) /\ call[c].seen = Listed(after)
             PROVE  TheList(chapters') = InsertAt(s, i, x)
    BY DEF CreatedWhereAsked
<1>1. Create(c)
    <2>1. call[c].at = "commit" /\ call'[c] # call[c]
        BY DEF At
    <2>2. StepOf(c)
        BY <2>1, OwnSteps
    <2> QED BY <2>1, <2>2 DEF StepOf, Begin, Resolve, Check, Load, Update, Delete, List, Adopt,
             Reorder, Materialize, Snap, Rename, RemoveFile, Plan, Retitle, Moves, Aside, Finish, Undo, At
<1> DEFINE ch == [title |-> call[c].title, act |-> "", category |-> call[c].category,
                  index |-> call[c].index]
           w == WriteOf(c, "new", ch)
<1>2. PICK k \in Kinds : Agree(k)
    BY DEF PlaceInv
<1>3. /\ x \in Chapters /\ call[c].title \in Title /\ call[c].category \in {"Chapter", "Character"}
      /\ call[c].index \in Nat /\ chapters \in Graphs
    BY <1>1, CallIs DEF Create, At, Asked, Local, IndInv, TypeOK, Graphs
<1>4. call[c].index = IF after = NoChapter THEN 0 ELSE call[c].seen + 1
    BY <1>2 DEF Agree, Here, At
<1>5. ch \in Chapter /\ ch.index = call[c].index
    BY <1>3, ActsAssumption DEF Chapter
<1>6. Commit(c, w, "materialize")
    BY <1>1 DEF Create
<1> HIDE DEF ch
<1>7. w \in Models /\ w.kind = "new" /\ w.id = x /\ w.ch.index = call[c].index
    BY <1>3, <1>5 DEF WriteOf, Models, Write
<1> HIDE DEF w
<1>8. chapters' = Created(chapters, w)
    BY <1>6, <1>7, LoneCreate
<1>9. after # NoChapter => Listed(after) = chapters[after].index
    BY DEF Steady, Listed
<1>10. call[c].index = IF after = NoChapter THEN 0 ELSE chapters[after].index + 1
    BY <1>4, <1>9
<1>11. i \in 1 .. Len(s) + 1 /\ Splits(chapters, s, i, w.ch.index)
    <2>1. after # NoChapter => after \in Live(chapters)
        OBVIOUS
    <2> QED BY <1>3, <1>7, <1>10, <2>1, IndexSplits
<1> HIDE DEF i
<1>12. TheList(Created(chapters, w)) = InsertAt(s, i, w.id)
    BY <1>3, <1>7, <1>11, CreatedPlaced
<1> QED BY <1>7, <1>8, <1>12

\* The step that writes the order of a move.
LEMMA MovedThere ==
    ASSUME IndInv, PlaceInv, Next, NEW c \in Clients
    PROVE  MovedWhereAsked(c)
<1> DEFINE x == call[c].id
           after == call[c].after
           s == TheList(chapters)
           t == TheList(chapters')
<1> SUFFICES ASSUME At(c, "reorder"), call'[c].at = "idle", Steady(chapters), s = call[c].members
             PROVE  /\ Others(t, x) = Others(s, x)
                    /\ IF after = NoChapter THEN t[1] = x ELSE Position(t, x) = Position(t, after) + 1
                    /\ Blocks(chapters, s) => Blocks(chapters', t)
    BY DEF MovedWhereAsked
<1>1. Reorder(c)
    <2>1. call[c].at = "reorder" /\ call'[c] # call[c]
        BY DEF At
    <2>2. StepOf(c)
        BY <2>1, OwnSteps
    <2> QED BY <2>1, <2>2 DEF StepOf, Begin, Resolve, Check, Load, Create, Update, Delete, List, Adopt,
             Materialize, Snap, Rename, RemoveFile, Plan, Retitle, Moves, Aside, Finish, Undo, At
<1>2. PICK k \in Kinds : Agree(k)
    BY DEF PlaceInv
<1>3. /\ Movable(s, x, after) /\ ~Crossing(k, s, x, after) /\ call[c].order = Reordered(s, x, after)
      /\ Same(k, chapters) /\ chapters \in Graphs
    BY <1>2 DEF Agree, Here, At, IndInv, TypeOK, Graphs
<1>4. /\ t = Reordered(s, x, after)
      /\ \A y \in Live(chapters) : y \in Live(chapters') /\ chapters'[y].category = chapters[y].category
    <2>1. chapters' = [y \in Chapters |->
             IF y \in Live(chapters) /\ y \in Ids(Reordered(s, x, after))
             THEN [chapters[y] EXCEPT !.index = Position(Reordered(s, x, after), y) - 1] ELSE chapters[y]]
        BY <1>1, <1>3 DEF Reorder
    <2> QED BY <1>3, <2>1, MovedPlaced
<1>5. Ids(s) = Live(chapters)
    BY <1>3, SteadyIs DEF Ranked
<1> HIDE DEF s, t
<1> DEFINE r == Others(s, x)
           i == Spot(s, x, after)
<1>6. /\ r \in Seq(Chapters) /\ Len(r) \in Nat /\ i \in 1 .. Len(r) + 1
      /\ after # NoChapter => i - 1 \in 1 .. Len(r) /\ r[i - 1] = after
      /\ t \in Seq(Chapters) /\ Len(t) = Len(r) + 1
      /\ \A j \in 1 .. Len(r) + 1 : t[j] = IF j < i THEN r[j] ELSE IF j = i THEN x ELSE r[j - 1]
      /\ NoRepeats(t) /\ Ids(t) = Ids(s) /\ Others(t, x) = r
    BY <1>3, <1>4, ReorderedIs
<1>7. after = NoChapter => i = 1
    BY DEF Spot
<1> HIDE DEF i, r
<1>8. t[i] = x /\ i \in 1 .. Len(t)
    BY <1>6
<1>9. ASSUME after # NoChapter
      PROVE  Position(t, x) = Position(t, after) + 1
    <2>1. i - 1 \in 1 .. Len(t) /\ t[i - 1] = after
        <3>1. i - 1 \in 1 .. Len(r) + 1 /\ i - 1 < i /\ r[i - 1] = after
            BY <1>6, <1>9
        <3> QED BY <1>6, <3>1
    <2>2. Position(t, x) = i /\ Position(t, after) = i - 1
        BY <1>6, <1>8, <2>1, PositionIs
    <2>3. i \in Int
        BY <1>8
    <2> QED BY <2>2, <2>3
<1>10. ASSUME Blocks(chapters, s)
       PROVE  Blocks(chapters', t)
    <2>1. /\ \A j \in 1 .. Len(s) : chapters[s[j]].category = k[s[j]]
          /\ \A j \in 1 .. Len(t) : chapters'[t[j]].category = k[t[j]]
        <3>1. \A j \in 1 .. Len(s) : s[j] \in Live(chapters)
            BY <1>5 DEF Ids
        <3>2. \A j \in 1 .. Len(t) : t[j] \in Live(chapters)
            BY <1>5, <1>6 DEF Ids
        <3> QED BY <1>3, <1>4, <3>1, <3>2 DEF Same
    <2>2. Together(k, s)
        BY SMTT(30), <1>10, <2>1 DEF Blocks, Together
    <2>3. Together(k, t)
        BY <1>3, <1>4, <2>2, BlocksKept
    <2> QED BY <2>1, <2>3 DEF Blocks, Together
<1> QED BY <1>6, <1>7, <1>8, <1>9, <1>10 DEF r

\* A chapter lands where the editor asked: a create right after the chapter
\* it follows, a move too, with the others in their order and the blocks of
\* characters and chapters whole, whatever the other clients do between the
\* steps of the call (PlacedWhereAsked).
THEOREM ChaptersLandWhereAsked == Spec => PlacedWhereAsked
<1> DEFINE A == \A c \in Clients : CreatedWhereAsked(c) /\ MovedWhereAsked(c)
<1>1. IndInv /\ PlaceInv /\ [Next]_vars => [A]_vars
    <2>1. IndInv /\ PlaceInv /\ Next => A
        BY CreatedThere, MovedThere
    <2> HIDE DEF A
    <2> QED BY <2>1
<1> HIDE DEF A
<1>2. [][A]_vars <=> PlacedWhereAsked
    BY PTL DEF A, PlacedWhereAsked
<1> QED BY <1>1, <1>2, IndInvHolds, PlaceInvHolds, PTL DEF Spec
=============================================================================
