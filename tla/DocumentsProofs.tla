--------------------------- MODULE DocumentsProofs ---------------------------
(***************************************************************************)
(* Proofs about the documents of all accounts, for any library, any        *)
(* accounts, titles and directories and any number of calls and crashes.   *)
(*                                                                         *)
(* An origin gives every chapter id the document, the path and the text it *)
(* was first written with.  Good says of an origin that whatever knows an  *)
(* id, a node, a file, the unit of work or a call, agrees with it; nothing *)
(* but the draw of a new id changes it, so that some origin stays good     *)
(* (Documented), and a chapter is part of the document it came from alone. *)
(*                                                                         *)
(* LoneInv says what a call that is alone knows of the directories it      *)
(* writes; SerialInv where graph and trees differ while a call that met    *)
(* no other one is under way; ImportInv what an import that met no other   *)
(* call has brought in so far.                                             *)
(***************************************************************************)
EXTENDS Documents, FiniteSetTheorems, SequenceTheorems, WellFoundedInduction, TLAPS

\* Induction over the natural numbers, for a set.
LEMMA SetInduction ==
    ASSUME NEW S, 0 \in S, \A n \in Nat : n \in S => n + 1 \in S
    PROVE  Nat \subseteq S
<1>1. SUFFICES ASSUME Nat \ S # {}
               PROVE  FALSE
    OBVIOUS
<1> DEFINE T == Nat \ S
<1>2. IsWellFoundedOn(OpToRel(<, Nat), Nat)
    BY NatLessThanWellFounded
<1>3. PICK x \in T : \A y \in T : ~(<<y, x>> \in OpToRel(<, Nat))
    BY <1>1, <1>2, WFMin
<1>4. x \in T
    OBVIOUS
<1>5. x # 0 /\ x - 1 \in Nat
    <2> HIDE <1>3
    <2> QED BY <1>4
<1>6. <<x - 1, x>> \in OpToRel(<, Nat)
    BY <1>4, <1>5 DEF OpToRel
<1>7. x - 1 \notin T
    BY <1>3, <1>6
<1>8. x \in S
    <2> HIDE <1>3
    <2> QED BY <1>5, <1>7
<1> QED BY <1>4, <1>8

-----------------------------------------------------------------------------
(* The folds.  FoldLeft takes the last element of the domain off first, so *)
(* what it computes is the last link of a chain from the left.             *)
-----------------------------------------------------------------------------
\* The greatest of a set of indexes that holds the last one.
LEMMA MaxOfTop ==
    ASSUME NEW m \in Nat, NEW x \in SUBSET (1 .. m + 1), m + 1 \in x
    PROVE  Max(x) = m + 1
<1>1. \A y \in x : y \in Int /\ m + 1 >= y
    OBVIOUS
<1>2. \A z \in x : (\A y \in x : z >= y) => z = m + 1
    BY <1>1
<1>3. \E z \in x : \A y \in x : z >= y
    BY <1>1
<1>4. Max(x) \in x /\ \A y \in x : Max(x) >= y
    BY <1>3 DEF Max
<1> QED BY <1>2, <1>4

SavedStep(result, s, kinds, g, x) ==
    IF x = {} THEN result
    ELSE IF s[Max(x)].kind \in kinds THEN Save(g[x \ {Max(x)}], s[Max(x)]) ELSE g[x \ {Max(x)}]

\* The saves of some lists: a chain of results, one per model.
Chain(r, result, s, kinds) ==
    /\ r[0] = result /\ r[Len(s)] = Saved(result, s, kinds)
    /\ \A i \in 1 .. Len(s) : r[i] = IF s[i].kind \in kinds THEN Save(r[i - 1], s[i]) ELSE r[i - 1]

LEMMA SavedIsChain ==
    ASSUME NEW result, NEW W, NEW s \in Seq(W), NEW kinds
    PROVE  \E r : Chain(r, result, s, kinds)
<1> DEFINE Link(g, x) == SavedStep(result, s, kinds, g, x)
           Iter(g, m) == g = [x \in SUBSET (1 .. m) |-> Link(g, x)]
           S == {m \in Nat : \E g : Iter(g, m)}
<1>1. 0 \in S
    <2> DEFINE g == [x \in SUBSET (1 .. 0) |-> result]
    <2>1. \A x \in SUBSET (1 .. 0) : x = {}
        OBVIOUS
    <2>2. Iter(g, 0)
        BY <2>1 DEF SavedStep
    <2> QED BY <2>2
<1>2. ASSUME NEW m \in Nat, m \in S
      PROVE  m + 1 \in S
    <2>1. PICK g : Iter(g, m)
        BY <1>2
    <2> DEFINE h == [x \in SUBSET (1 .. m + 1) |-> IF m + 1 \in x THEN Link(g, x) ELSE g[x]]
    <2>2. ASSUME NEW x \in SUBSET (1 .. m + 1)
          PROVE  h[x] = Link(h, x)
        <3>1. CASE m + 1 \in x
            <4>1. Max(x) = m + 1
                BY <3>1, MaxOfTop
            <4>2. x \ {m + 1} \in SUBSET (1 .. m) /\ x # {} /\ m + 1 \notin x \ {m + 1}
                BY <3>1
            <4>3. h[x \ {m + 1}] = g[x \ {m + 1}]
                <5>1. x \ {m + 1} \in SUBSET (1 .. m + 1)
                    OBVIOUS
                <5> QED BY <4>2, <5>1
            <4>4. h[x] = Link(g, x)
                BY <3>1
            <4> HIDE DEF h
            <4> QED BY <4>1, <4>2, <4>3, <4>4 DEF SavedStep
        <3>2. CASE m + 1 \notin x
            <4>1. x \in SUBSET (1 .. m)
                BY <3>2
            <4>2. x \ {Max(x)} \in SUBSET (1 .. m + 1) /\ m + 1 \notin x \ {Max(x)}
                BY <3>2
            <4>3. h[x \ {Max(x)}] = g[x \ {Max(x)}]
                BY <4>2
            <4>4. h[x] = g[x] /\ g[x] = Link(g, x)
                <5>1. h[x] = g[x]
                    BY <3>2
                <5>2. g[x] = Link(g, x)
                    <6> HIDE DEF h, Link
                    <6> QED BY <2>1, <4>1
                <5> QED BY <5>1, <5>2
            <4> HIDE DEF h
            <4> QED BY <4>3, <4>4 DEF SavedStep
        <3> QED BY <3>1, <3>2
    <2>3. Iter(h, m + 1)
        <3>1. h = [x \in SUBSET (1 .. m + 1) |-> h[x]]
            OBVIOUS
        <3> HIDE DEF h, Link
        <3> QED BY <2>2, <3>1
    <2> HIDE DEF h, Iter
    <2> QED BY <2>3
<1>3. Len(s) \in Nat /\ DOMAIN s = 1 .. Len(s)
    BY LenProperties
<1>4. \E g : Iter(g, Len(s))
    <2> HIDE DEF Iter
    <2> QED BY <1>1, <1>2, <1>3, SetInduction
<1> DEFINE g0 == CHOOSE g : Iter(g, Len(s))
           r0 == [i \in 0 .. Len(s) |-> g0[1 .. i]]
<1>5. g0 = [x \in SUBSET (1 .. Len(s)) |-> Link(g0, x)]
    <2>1. Iter(g0, Len(s))
        <3> HIDE DEF Iter
        <3> QED BY <1>4
    <2> HIDE DEF g0
    <2> QED BY <2>1
<1>6. Saved(result, s, kinds) = g0[1 .. Len(s)]
    BY <1>3 DEF Saved, FoldLeft, MapThenFoldSet, SavedStep
<1> HIDE DEF g0
<1>7. r0[0] = result /\ r0[Len(s)] = Saved(result, s, kinds)
    <2>1. 1 .. 0 = {} /\ 1 .. 0 \in SUBSET (1 .. Len(s))
        OBVIOUS
    <2>2. g0[1 .. 0] = result
        BY <1>5, <2>1 DEF SavedStep
    <2> QED BY <1>3, <1>6, <2>2
<1>8. ASSUME NEW i \in 1 .. Len(s)
      PROVE  r0[i] = IF s[i].kind \in kinds THEN Save(r0[i - 1], s[i]) ELSE r0[i - 1]
    <2>1. i - 1 \in Nat /\ (i - 1) + 1 = i /\ i - 1 \in 0 .. Len(s) /\ i \in 0 .. Len(s)
        BY <1>3
    <2>2. 1 .. i \in SUBSET (1 .. (i - 1) + 1) /\ i \in 1 .. i
        BY <1>3
    <2>3. Max(1 .. i) = i
        BY <2>1, <2>2, MaxOfTop
    <2>4. (1 .. i) \ {i} = 1 .. i - 1 /\ 1 .. i # {} /\ 1 .. i \in SUBSET (1 .. Len(s))
        <3> HIDE DEF r0
        <3>1. i \in Int /\ 1 <= i /\ i <= Len(s) /\ Len(s) \in Int
            BY <1>3
        <3>2. (1 .. i) \ {i} = 1 .. i - 1
            BY <3>1
        <3>3. 1 .. i # {}
            BY <2>2
        <3>4. 1 .. i \in SUBSET (1 .. Len(s))
            BY <3>1
        <3> QED BY <3>2, <3>3, <3>4
    <2>5. g0[1 .. i] = Link(g0, 1 .. i)
        <3> HIDE DEF Link
        <3> QED BY <1>5, <2>4
    <2>6. r0[i] = g0[1 .. i] /\ r0[i - 1] = g0[1 .. i - 1]
        BY <2>1
    <2> HIDE DEF r0
    <2> QED BY <2>3, <2>4, <2>5, <2>6 DEF SavedStep
<1> HIDE DEF r0
<1> QED BY <1>7, <1>8 DEF Chain

\* A set of indexes has a least and a greatest one.
LEMMA MinMax ==
    ASSUME NEW n \in Nat, NEW x \in SUBSET (1 .. n), x # {}
    PROVE  /\ Min(x) \in x /\ \A y \in x : Min(x) <= y
           /\ Max(x) \in x /\ \A y \in x : Max(x) >= y
<1>1. PICK a \in x : \A y \in x : a <= y
    <2> DEFINE S == {m \in Nat : \A z \in SUBSET (1 .. n) : (\E b \in z : b <= m) => \E a \in z : \A y \in z : a <= y}
    <2>1. 0 \in S
        OBVIOUS
    <2>2. ASSUME NEW m \in Nat, m \in S PROVE m + 1 \in S
        <3> SUFFICES ASSUME NEW z \in SUBSET (1 .. n), \E b \in z : b <= m + 1
                     PROVE  \E a \in z : \A y \in z : a <= y
            OBVIOUS
        <3>1. CASE \E b \in z : b <= m
            BY <2>2, <3>1
        <3>2. CASE ~\E b \in z : b <= m
            <4>1. PICK b \in z : b <= m + 1
                OBVIOUS
            <4>2. \A y \in z : b <= y
                BY <3>2, <4>1
            <4> QED BY <4>2
        <3> QED BY <3>1, <3>2
    <2>3. n \in S
        <3> HIDE DEF S
        <3> QED BY <2>1, <2>2, SetInduction
    <2>4. \E b \in x : b <= n
        <3>1. PICK b \in x : b \in 1 .. n
            OBVIOUS
        <3> HIDE DEF S
        <3> QED BY <3>1
    <2> QED BY <2>3, <2>4
<1>2. PICK c \in x : \A y \in x : c >= y
    <2> DEFINE S == {m \in Nat : \A z \in SUBSET (1 .. n) : (\E b \in z : b >= n - m) => \E c \in z : \A y \in z : c >= y}
    <2>1. 0 \in S
        OBVIOUS
    <2>2. ASSUME NEW m \in Nat, m \in S PROVE m + 1 \in S
        <3> SUFFICES ASSUME NEW z \in SUBSET (1 .. n), \E b \in z : b >= n - (m + 1)
                     PROVE  \E c \in z : \A y \in z : c >= y
            OBVIOUS
        <3>1. CASE \E b \in z : b >= n - m
            BY <2>2, <3>1
        <3>2. CASE ~\E b \in z : b >= n - m
            <4>1. PICK b \in z : b >= n - (m + 1)
                OBVIOUS
            <4>2. \A y \in z : b >= y
                BY <3>2, <4>1
            <4> QED BY <4>2
        <3> QED BY <3>1, <3>2
    <2>3. n \in S
        <3> HIDE DEF S
        <3> QED BY <2>1, <2>2, SetInduction
    <2> QED BY <2>3
<1> QED BY <1>1, <1>2 DEF Min, Max

\* The place of an element in a sequence, from either end.
LEMMA Selected ==
    ASSUME NEW W, NEW s \in Seq(W), NEW e \in IdsIn(s)
    PROVE  /\ SelectInSeq(s, LAMBDA x : x = e) \in 1 .. Len(s)
           /\ SelectLastInSeq(s, LAMBDA x : x = e) \in 1 .. Len(s)
           /\ s[SelectLastInSeq(s, LAMBDA x : x = e)] = e
<1> DEFINE I == {i \in 1 .. Len(s) : s[i] = e}
<1>1. Len(s) \in Nat /\ I \in SUBSET (1 .. Len(s)) /\ I # {}
    BY LenProperties DEF IdsIn
<1>2. Min(I) \in I /\ Max(I) \in I
    <2> HIDE DEF I
    <2> QED BY <1>1, MinMax
<1>3. SelectInSeq(s, LAMBDA x : x = e) = Min(I) /\ SelectLastInSeq(s, LAMBDA x : x = e) = Max(I)
    BY <1>1 DEF SelectInSeq, SelectLastInSeq
<1> QED BY <1>2, <1>3

\* A sequence of all elements of a finite set, each once.
LEMMA ListedOnce ==
    ASSUME NEW S, IsFiniteSet(S), NEW s \in SetToSeqs(S)
    PROVE  /\ s \in Seq(S) /\ Len(s) = Cardinality(S) /\ Len(s) \in Nat
           /\ \A i, j \in 1 .. Len(s) : i # j => s[i] # s[j]
           /\ IdsIn(s) = S
<1> DEFINE n == Cardinality(S)
<1>1. n \in Nat
    BY FS_CardinalityType
<1>2. s \in [1 .. n -> S] /\ \A i, j \in 1 .. n : i # j => s[i] # s[j]
    BY DEF SetToSeqs
<1>3. s \in Injection(1 .. n, S) /\ Cardinality(1 .. n) = n
    <2>1. s \in Injection(1 .. n, S)
        BY <1>2 DEF Injection, IsInjective
    <2> QED BY <1>1, <2>1, FS_Interval
<1>4. s \in Surjection(1 .. n, S)
    BY <1>3, FS_Injection
<1> HIDE DEF n
<1>5. s \in Seq(S) /\ Len(s) = n
    BY <1>1, <1>2
<1>6. IdsIn(s) = S
    <2>1. \A e \in S : \E i \in 1 .. n : s[i] = e
        BY <1>4 DEF Surjection
    <2> QED BY <1>2, <1>5, <2>1 DEF IdsIn
<1> QED BY <1>1, <1>2, <1>5, <1>6 DEF n

\* The names of the files there can be are finitely many.
LEMMA PathsFinite == IsFiniteSet(Paths)
<1> DEFINE D == (Acts \cup {Characters}) \X Names
           f == [x \in D |-> [act |-> x[1], name |-> x[2]]]
<1>1. IsFiniteSet(Acts \cup {Characters})
    BY ActsAssumption, FS_AddElement
<1>2. IsFiniteSet(D)
    BY <1>1, NamesAssumption, FS_Product
<1>3. f \in Surjection(D, Paths)
    <2>1. \A p \in Paths : <<p.act, p.name>> \in D /\ f[<<p.act, p.name>>] = p
        BY DEF Paths
    <2>2. f \in [D -> Paths]
        BY DEF Paths
    <2> HIDE DEF D, f
    <2>3. \A p \in Paths : \E x \in D : f[x] = p
        BY <2>1
    <2> QED BY <2>2, <2>3 DEF Surjection
<1> HIDE DEF D, f
<1> QED BY <1>2, <1>3, FS_Surjection

-----------------------------------------------------------------------------
(* The graph: every chapter is where, and what, its origin says. *)
-----------------------------------------------------------------------------
Graph   == [docs : [Documents -> Document \cup {NoDocument}], chapters : [Chapters -> Node \cup {NoChapter}]]
Origins == [Chapters -> [doc : Documents \cup {NoId}, path : Paths \cup {NoPath}, text : Texts \cup {NoText}]]

\* A node of the document it came from; what a list of ids brought back has
\* no path of its own.
NodeOK(origin, node) ==
    /\ Parents(node) = {origin.doc}
    /\ \/ node.path = NoPath /\ node.home = NoId
       \/ node.path \in Paths /\ node.path = origin.path /\ node.text = origin.text /\ node.home = origin.doc

GraphOK(o, n, g) ==
    /\ g \in Graph
    /\ \A c \in LiveChaps(g) : c <= n /\ o[c].doc \in LiveDocs(g) /\ NodeOK(o[c], g.chapters[c])

DocWrites(o, n) ==
    {w \in [kind : {"document new", "document changed"}, doc : Documents, title : Titles,
            owner : Accounts, list : Seq(Chapters)] :
       \A c \in IdsIn(w.list) : c <= n /\ o[c].doc = w.doc}

DeleteWrites == [kind : {"document deleted"}, doc : Documents, owner : Accounts]

ChapterWrites(o, n) ==
    {w \in [kind : {"chapter new"}, doc : Documents, owner : Accounts, chapter : Chapters,
            path : Paths, text : Texts \cup {NoText}] :
       w.chapter <= n /\ o[w.chapter] = [doc |-> w.doc, path |-> w.path, text |-> w.text]}

Writes(o, n) == DocWrites(o, n) \cup DeleteWrites \cup ChapterWrites(o, n)

\* A chapter put into a document, or into one it is in.
LEMMA PutIn ==
    ASSUME NEW node \in Node, NEW d \in Documents, NEW i \in Nat
    PROVE  /\ [node EXCEPT !.in[d] = i] \in Node
           /\ Parents([node EXCEPT !.in[d] = i]) = Parents(node) \cup {d}
           /\ [node EXCEPT !.in[d] = i].path = node.path
           /\ [node EXCEPT !.in[d] = i].text = node.text
           /\ [node EXCEPT !.in[d] = i].home = node.home
<1> DEFINE h == [node EXCEPT !.in[d] = i]
<1>1. node.in \in [Documents -> Nat \cup {NoId}] /\ i # NoId
    BY IdsAssumption DEF Node
<1>2. h = [node EXCEPT !.in = [node.in EXCEPT ![d] = i]]
    BY DEF Node
<1>3. h \in Node /\ h.in = [node.in EXCEPT ![d] = i] /\ h.path = node.path /\ h.text = node.text /\ h.home = node.home
    BY <1>1, <1>2 DEF Node
<1>4. Parents(h) = Parents(node) \cup {d}
    <2> HIDE DEF h
    <2> QED BY <1>1, <1>3 DEF Parents
<1> QED BY <1>3, <1>4

\* A chapter that is in one document.
LEMMA PutAlone ==
    ASSUME NEW path \in Paths \cup {NoPath}, NEW text \in Texts \cup {NoText}, NEW home \in Documents \cup {NoId},
           NEW d \in Documents, NEW i \in Nat
    PROVE  LET node == [path |-> path, text |-> text, home |-> home, in |-> [Nowhere EXCEPT ![d] = i]]
           IN  node \in Node /\ Parents(node) = {d}
<1> DEFINE node == [path |-> path, text |-> text, home |-> home, in |-> [Nowhere EXCEPT ![d] = i]]
<1>1. i # NoId
    BY IdsAssumption
<1>2. [Nowhere EXCEPT ![d] = i] = [e \in Documents |-> IF e = d THEN i ELSE NoId]
    BY DEF Nowhere
<1>3. node \in Node
    BY <1>2 DEF Node
<1>4. node.in = [Nowhere EXCEPT ![d] = i]
    OBVIOUS
<1>5. Parents(node) = {d}
    <2> HIDE DEF node
    <2> QED BY <1>1, <1>2, <1>4 DEF Parents
<1> QED BY <1>3, <1>5

LEMMA NoIdIsNoDocument == NoId \notin Documents
BY IdsAssumption

\* A list of ids puts back, into its document, chapters that came from it.
LEMMA DocNewOK ==
    ASSUME NEW o \in Origins, NEW n, NEW g, GraphOK(o, n, g), NEW w \in DocWrites(o, n)
    PROVE  /\ GraphOK(o, n, DocNew(g, w))
           /\ w.doc \in LiveDocs(DocNew(g, w))
           /\ DocNew(g, w).docs = [g.docs EXCEPT ![w.doc] = [title |-> w.title, owner |-> w.owner]]
<1> DEFINE h == DocNew(g, w)
           index(c) == SelectInSeq(w.list, LAMBDA x : x = c) - 1
<1>1. /\ w.doc \in Documents /\ w.title \in Titles /\ w.owner \in Accounts /\ w.list \in Seq(Chapters)
      /\ \A c \in IdsIn(w.list) : c <= n /\ o[c].doc = w.doc
    BY DEF DocWrites
<1>2. [title |-> w.title, owner |-> w.owner] \in Document
    BY <1>1 DEF Document
<1>3. g.docs \in [Documents -> Document \cup {NoDocument}] /\ g.chapters \in [Chapters -> Node \cup {NoChapter}]
    BY DEF GraphOK, Graph
<1>4. h.docs = [g.docs EXCEPT ![w.doc] = [title |-> w.title, owner |-> w.owner]]
    BY DEF DocNew
<1>5. h.docs \in [Documents -> Document \cup {NoDocument}] /\ LiveDocs(h) = LiveDocs(g) \cup {w.doc}
    <2> HIDE DEF h
    <2>1. h.docs \in [Documents -> Document \cup {NoDocument}]
        BY <1>1, <1>2, <1>3, <1>4
    <2>2. [title |-> w.title, owner |-> w.owner] # NoDocument
        BY <1>2, SentinelsAssumption
    <2>3. \A d \in Documents : h.docs[d] = IF d = w.doc THEN [title |-> w.title, owner |-> w.owner] ELSE g.docs[d]
        BY <1>3, <1>4
    <2> QED BY <1>1, <2>1, <2>2, <2>3 DEF LiveDocs
<1>6. ASSUME NEW c \in Chapters
      PROVE  /\ c \notin IdsIn(w.list) => h.chapters[c] = g.chapters[c]
             /\ c \in IdsIn(w.list) /\ c \in LiveChaps(g) =>
                  h.chapters[c] = [g.chapters[c] EXCEPT !.in[w.doc] = index(c)]
             /\ c \in IdsIn(w.list) /\ c \notin LiveChaps(g) =>
                  h.chapters[c] = [path |-> NoPath, text |-> NoText, home |-> NoId,
                                   in |-> [Nowhere EXCEPT ![w.doc] = index(c)]]
    BY DEF DocNew
<1>7. \A c \in IdsIn(w.list) : index(c) \in Nat
    <2> SUFFICES ASSUME NEW c \in IdsIn(w.list)
                 PROVE  index(c) \in Nat
        OBVIOUS
    <2>1. SelectInSeq(w.list, LAMBDA x : x = c) \in 1 .. Len(w.list) /\ Len(w.list) \in Nat
        BY <1>1, Selected, LenProperties
    <2> QED BY <2>1
<1>8. DOMAIN h.chapters = Chapters /\ h.chapters = [c \in Chapters |-> h.chapters[c]]
    BY DEF DocNew
<1>9. h = [docs |-> h.docs, chapters |-> h.chapters]
    BY DEF DocNew
<1> HIDE DEF h, index
<1>10. ASSUME NEW c \in Chapters
       PROVE  /\ h.chapters[c] \in Node \cup {NoChapter}
              /\ h.chapters[c] # NoChapter => c <= n /\ o[c].doc \in LiveDocs(h) /\ NodeOK(o[c], h.chapters[c])
    <2>1. CASE c \notin IdsIn(w.list)
        BY <1>3, <1>5, <1>6, <2>1 DEF GraphOK, LiveChaps
    <2>2. CASE c \in IdsIn(w.list) /\ c \in LiveChaps(g)
        <3>1. g.chapters[c] \in Node /\ NodeOK(o[c], g.chapters[c])
            BY <1>3, <2>2 DEF GraphOK, LiveChaps
        <3> DEFINE i == index(c)
        <3>4. i \in Nat /\ h.chapters[c] = [g.chapters[c] EXCEPT !.in[w.doc] = i]
            BY <1>6, <1>7, <2>2
        <3> HIDE DEF i
        <3>2. /\ h.chapters[c] \in Node /\ Parents(h.chapters[c]) = Parents(g.chapters[c]) \cup {w.doc}
              /\ h.chapters[c].path = g.chapters[c].path /\ h.chapters[c].text = g.chapters[c].text
              /\ h.chapters[c].home = g.chapters[c].home
            <4>1. w.doc \in Documents /\ g.chapters[c] \in Node
                BY <1>1, <3>1
            <4> QED BY SMTT(30), <3>4, <4>1, PutIn
        <3>3. Parents(h.chapters[c]) = {o[c].doc}
            BY <1>1, <2>2, <3>1, <3>2 DEF NodeOK
        <3> QED BY <1>1, <1>5, <2>2, <3>1, <3>2, <3>3 DEF NodeOK
    <2>3. CASE c \in IdsIn(w.list) /\ c \notin LiveChaps(g)
        <3> DEFINE i == index(c)
        <3>1. i \in Nat /\ h.chapters[c] = [path |-> NoPath, text |-> NoText, home |-> NoId,
                                           in |-> [Nowhere EXCEPT ![w.doc] = i]]
            BY <1>6, <1>7, <2>3
        <3> HIDE DEF i
        <3>2. h.chapters[c] \in Node /\ Parents(h.chapters[c]) = {w.doc}
            <4>1. w.doc \in Documents
                BY <1>1
            <4> QED BY <3>1, <4>1, PutAlone
        <3>3. h.chapters[c].path = NoPath /\ h.chapters[c].home = NoId
            BY <3>1
        <3> QED BY <1>1, <1>5, <2>3, <3>2, <3>3 DEF NodeOK
    <2> QED BY <2>1, <2>2, <2>3
<1>11. h \in Graph
    BY <1>5, <1>8, <1>9, <1>10 DEF Graph
<1>12. GraphOK(o, n, h)
    BY <1>10, <1>11 DEF GraphOK, LiveChaps
<1> QED BY <1>1, <1>4, <1>5, <1>12 DEF h

\* Taking chapters away leaves the others as they were.
LEMMA FewerOK ==
    ASSUME NEW o \in Origins, NEW n, NEW g, GraphOK(o, n, g),
           NEW h \in Graph,
           \A c \in Chapters : h.chapters[c] = g.chapters[c] \/ h.chapters[c] = NoChapter,
           \A d \in LiveDocs(g) \ LiveDocs(h) : \A c \in In(g, d) : h.chapters[c] = NoChapter
    PROVE  GraphOK(o, n, h)
<1> SUFFICES ASSUME NEW c \in LiveChaps(h)
             PROVE  c <= n /\ o[c].doc \in LiveDocs(h) /\ NodeOK(o[c], h.chapters[c])
    BY DEF GraphOK
<1>1. c \in LiveChaps(g) /\ h.chapters[c] = g.chapters[c]
    BY DEF LiveChaps
<1>2. c <= n /\ o[c].doc \in LiveDocs(g) /\ NodeOK(o[c], g.chapters[c])
    BY <1>1 DEF GraphOK
<1>3. c \in In(g, o[c].doc)
    BY <1>1, <1>2 DEF In, NodeOK
<1>4. o[c].doc \in LiveDocs(h)
    BY <1>2, <1>3 DEF LiveChaps
<1> QED BY <1>1, <1>2, <1>4

LEMMA DocChangedOK ==
    ASSUME NEW o \in Origins, NEW n, NEW g, GraphOK(o, n, g), NEW w \in DocWrites(o, n)
    PROVE  GraphOK(o, n, DocChanged(g, w))
<1> DEFINE k == DocNew(g, w)
           h == DocChanged(g, w)
<1>1. GraphOK(o, n, k)
    BY DocNewOK
<1> HIDE DEF k
<1>2. h = [k EXCEPT !.chapters = [c \in Chapters |->
            IF w.list # << >> /\ c \in In(k, w.doc) /\ c \notin IdsIn(w.list) THEN NoChapter ELSE k.chapters[c]]]
    BY DEF DocChanged, k
<1>3. k \in Graph
    BY <1>1 DEF GraphOK
<1> HIDE DEF h
<1>4. h \in Graph /\ h.docs = k.docs
    BY <1>2, <1>3 DEF Graph
<1>5. \A c \in Chapters : h.chapters[c] = k.chapters[c] \/ h.chapters[c] = NoChapter
    BY <1>2, <1>3 DEF Graph
<1>6. LiveDocs(h) = LiveDocs(k)
    BY <1>4 DEF LiveDocs
<1>7. GraphOK(o, n, h)
    BY <1>1, <1>4, <1>5, <1>6, FewerOK
<1> QED BY <1>7 DEF h

\* A deleted document takes its chapters with it.
LEMMA DocDeletedOK ==
    ASSUME NEW o \in Origins, NEW n, NEW g, GraphOK(o, n, g), NEW w \in DeleteWrites
    PROVE  GraphOK(o, n, DocDeleted(g, w))
<1> DEFINE h == DocDeleted(g, w)
<1>1. CASE ~(w.doc \in LiveDocs(g) /\ g.docs[w.doc].owner = w.owner)
    BY <1>1 DEF DocDeleted
<1>2. CASE w.doc \in LiveDocs(g) /\ g.docs[w.doc].owner = w.owner
    <2>1. h = [docs |-> [g.docs EXCEPT ![w.doc] = NoDocument],
               chapters |-> [c \in Chapters |-> IF c \in In(g, w.doc) THEN NoChapter ELSE g.chapters[c]]]
        BY <1>2 DEF DocDeleted
    <2>2. w.doc \in Documents /\ g \in Graph
        BY DEF DeleteWrites, GraphOK
    <2> HIDE DEF h
    <2>3. h \in Graph
        BY <2>1, <2>2 DEF Graph
    <2>4. \A c \in Chapters : h.chapters[c] = IF c \in In(g, w.doc) THEN NoChapter ELSE g.chapters[c]
        BY <2>1
    <2>5. LiveDocs(g) \ LiveDocs(h) = {w.doc}
        BY <1>2, <2>1, <2>2 DEF LiveDocs, Graph
    <2>6. \A c \in In(g, w.doc) : c \in Chapters
        BY DEF In, LiveChaps
    <2>7. GraphOK(o, n, h)
        BY <2>3, <2>4, <2>5, <2>6, FewerOK
    <2> QED BY <2>7 DEF h
<1> QED BY <1>1, <1>2

\* The chapter is in its document, and with it what was there.
Kept(g, h, c)       == h.chapters[c].path = g.chapters[c].path /\ h.chapters[c].text = g.chapters[c].text
ChapterPut(g, h, w) ==
    /\ h.docs = g.docs /\ w.chapter \in In(h, w.doc) /\ h.chapters[w.chapter].text = w.text
    /\ \A c \in In(g, w.doc) : c # w.chapter => c \in In(h, w.doc) /\ Kept(g, h, c)

\* A chapter is written where it came from.
LEMMA ChapterNewOK ==
    ASSUME NEW o \in Origins, NEW n, NEW g, GraphOK(o, n, g), NEW w \in ChapterWrites(o, n)
    PROVE  /\ GraphOK(o, n, ChapterNew(g, w))
           /\ w.doc \in LiveDocs(g) /\ g.docs[w.doc].owner = w.owner => ChapterPut(g, ChapterNew(g, w), w)
<1> DEFINE h == ChapterNew(g, w)
           inAt(c) == IF c \in LiveChaps(g) THEN g.chapters[c].in ELSE Nowhere
           newAt(c) == [path |-> w.path, text |-> w.text, home |-> w.doc, in |-> [inAt(c) EXCEPT ![w.doc] = 0]]
           in == inAt(w.chapter)
           new == newAt(w.chapter)
<1>1. CASE ~(w.doc \in LiveDocs(g) /\ g.docs[w.doc].owner = w.owner)
    BY <1>1 DEF ChapterNew
<1>2. CASE w.doc \in LiveDocs(g) /\ g.docs[w.doc].owner = w.owner
    <2>1. /\ w.doc \in Documents /\ w.chapter \in Chapters /\ w.chapter <= n /\ w.path \in Paths
          /\ w.text \in Texts \cup {NoText} /\ o[w.chapter] = [doc |-> w.doc, path |-> w.path, text |-> w.text]
        BY DEF ChapterWrites
    <2>2. g \in Graph /\ g.chapters \in [Chapters -> Node \cup {NoChapter}]
        BY DEF GraphOK, Graph
    <2>3. h = [g EXCEPT !.chapters = [c \in Chapters |->
                 IF c = w.chapter THEN newAt(c)
                 ELSE IF c \in In(g, w.doc) THEN [g.chapters[c] EXCEPT !.in[w.doc] = @ + 1]
                 ELSE g.chapters[c]]]
        <3>1. h = [g EXCEPT !.chapters = [c \in Chapters |->
                IF c = w.chapter
                THEN [path |-> w.path, text |-> w.text, home |-> w.doc,
                      in |-> [(IF c \in LiveChaps(g) THEN g.chapters[c].in ELSE Nowhere) EXCEPT ![w.doc] = 0]]
                ELSE IF c \in In(g, w.doc) THEN [g.chapters[c] EXCEPT !.in[w.doc] = @ + 1]
                ELSE g.chapters[c]]]
            BY <1>2 DEF ChapterNew
        <3> HIDE DEF h
        <3> QED BY <3>1
    <2>4. in \in [Documents -> Nat \cup {NoId}] /\ \A d \in Documents : in[d] # NoId => d = w.doc
        <3>1. CASE w.chapter \in LiveChaps(g)
            <4>1. g.chapters[w.chapter] \in Node /\ Parents(g.chapters[w.chapter]) = {w.doc}
                BY <2>1, <2>2, <3>1 DEF GraphOK, LiveChaps, NodeOK
            <4> QED BY <3>1, <4>1 DEF Node, Parents
        <3>2. CASE w.chapter \notin LiveChaps(g)
            BY <3>2 DEF Nowhere
        <3> QED BY <3>1, <3>2
    <2> HIDE DEF inAt
    <2>5. [in EXCEPT ![w.doc] = 0] = [Nowhere EXCEPT ![w.doc] = 0]
        BY <2>1, <2>4 DEF Nowhere
    <2>6. new \in Node /\ Parents(new) = {w.doc}
        <3> DEFINE i == [in EXCEPT ![w.doc] = 0]
        <3>1. new = [path |-> w.path, text |-> w.text, home |-> w.doc, in |-> i] /\ i = [Nowhere EXCEPT ![w.doc] = 0]
            BY <2>5
        <3> HIDE DEF new, i
        <3>2. new = [path |-> w.path, text |-> w.text, home |-> w.doc, in |-> [Nowhere EXCEPT ![w.doc] = 0]]
            BY <3>1
        <3> QED BY <2>1, <3>2, PutAlone
    <2>7. new.path = w.path /\ new.text = w.text /\ new.home = w.doc
        OBVIOUS
    <2>8. /\ h.docs = g.docs /\ DOMAIN h = {"docs", "chapters"} /\ DOMAIN h.chapters = Chapters
          /\ \A c \in Chapters : h.chapters[c] =
                 IF c = w.chapter THEN newAt(c)
                 ELSE IF c \in In(g, w.doc) THEN [g.chapters[c] EXCEPT !.in[w.doc] = @ + 1]
                 ELSE g.chapters[c]
        <3> HIDE DEF h, newAt
        <3> QED BY <2>2, <2>3 DEF Graph
    <2>14. h.chapters[w.chapter] = new
        <3> HIDE DEF h, newAt
        <3> QED BY <2>1, <2>8
    <2> HIDE DEF h, newAt, new
    <2>9. ASSUME NEW c \in Chapters
          PROVE  /\ h.chapters[c] \in Node \cup {NoChapter}
                 /\ h.chapters[c] # NoChapter => c <= n /\ o[c].doc \in LiveDocs(g) /\ NodeOK(o[c], h.chapters[c])
                 /\ c # w.chapter /\ c \in In(g, w.doc) =>
                      h.chapters[c] \in Node /\ w.doc \in Parents(h.chapters[c]) /\ Kept(g, h, c)
        <3>1. CASE c = w.chapter
            <4>1. h.chapters[c] = new
                BY <2>14, <3>1
            <4>2. NodeOK(o[c], new)
                BY <2>1, <2>6, <2>7, <3>1 DEF NodeOK
            <4> QED BY <1>2, <2>1, <2>6, <3>1, <4>1, <4>2
        <3>2. CASE c # w.chapter /\ c \in In(g, w.doc)
            <4>1. /\ c \in LiveChaps(g) /\ g.chapters[c] \in Node /\ w.doc \in Parents(g.chapters[c])
                  /\ NodeOK(o[c], g.chapters[c]) /\ c <= n /\ o[c].doc \in LiveDocs(g)
                BY <2>2, <3>2 DEF GraphOK, LiveChaps, In
            <4> DEFINE i == g.chapters[c].in[w.doc] + 1
            <4>2. i \in Nat
                <5>1. g.chapters[c].in[w.doc] \in Nat
                    BY <2>1, <4>1 DEF Node, Parents
                <5> QED BY <5>1
            <4>3. h.chapters[c] = [g.chapters[c] EXCEPT !.in[w.doc] = i]
                BY <2>8, <3>2
            <4> HIDE DEF i
            <4>4. /\ h.chapters[c] \in Node /\ Parents(h.chapters[c]) = Parents(g.chapters[c]) \cup {w.doc}
                  /\ h.chapters[c].path = g.chapters[c].path /\ h.chapters[c].text = g.chapters[c].text
                  /\ h.chapters[c].home = g.chapters[c].home
                BY <2>1, <4>1, <4>2, <4>3, PutIn
            <4>5. Parents(h.chapters[c]) = Parents(g.chapters[c])
                BY <4>1, <4>4
            <4> QED BY <4>1, <4>4, <4>5 DEF NodeOK, Kept
        <3>3. CASE c # w.chapter /\ c \notin In(g, w.doc)
            <4>1. h.chapters[c] = g.chapters[c]
                BY <2>8, <3>3
            <4> QED BY <2>2, <3>3, <4>1 DEF GraphOK, LiveChaps
        <3> QED BY <3>1, <3>2, <3>3
    <2>10. h.chapters \in [Chapters -> Node \cup {NoChapter}]
        <3>1. h.chapters = [c \in Chapters |-> h.chapters[c]]
            BY <2>3, <2>8
        <3> QED BY <2>9, <3>1
    <2>11. h \in Graph
        <3>1. h = [docs |-> h.docs, chapters |-> h.chapters]
            <4>1. h = [x \in {"docs", "chapters"} |-> h[x]]
                BY <2>2, <2>3 DEF Graph
            <4> QED BY <4>1
        <3>2. h.docs \in [Documents -> Document \cup {NoDocument}]
            BY <2>2, <2>8 DEF Graph
        <3> QED BY <2>10, <3>1, <3>2 DEF Graph
    <2>12. LiveDocs(h) = LiveDocs(g)
        BY <2>8 DEF LiveDocs
    <2>13. GraphOK(o, n, h)
        BY <2>9, <2>11, <2>12 DEF GraphOK, LiveChaps
    <2>15. w.chapter \in In(h, w.doc)
        BY <2>1, <2>6, <2>14, SentinelsAssumption DEF In, LiveChaps
    <2>16. \A c \in In(g, w.doc) : c # w.chapter => c \in In(h, w.doc) /\ Kept(g, h, c)
        BY <2>9, SentinelsAssumption DEF In, LiveChaps
    <2>17. ChapterPut(g, h, w)
        BY <2>7, <2>8, <2>14, <2>15, <2>16 DEF ChapterPut
    <2> QED BY <2>13, <2>17 DEF h
<1> QED BY <1>1, <1>2

-----------------------------------------------------------------------------
(* Commits: the titles stay unique, and every chapter where it came from. *)
-----------------------------------------------------------------------------
Sound(o, n, r) == r \in [graph : Graph, ok : BOOLEAN] /\ GraphOK(o, n, r.graph) /\ Unique(r.graph)

LEMMA WrittenOK ==
    ASSUME NEW o \in Origins, NEW n, NEW g, GraphOK(o, n, g), NEW w \in Writes(o, n)
    PROVE  GraphOK(o, n, Written(g, w))
<1>1. CASE w \in DocWrites(o, n)
    <2>1. w.kind \in {"document new", "document changed"}
        BY <1>1 DEF DocWrites
    <2>2. Written(g, w) = DocNew(g, w) \/ Written(g, w) = DocChanged(g, w)
        BY <2>1 DEF Written
    <2>3. GraphOK(o, n, DocNew(g, w))
        BY <1>1, DocNewOK
    <2>4. GraphOK(o, n, DocChanged(g, w))
        BY <1>1, DocChangedOK
    <2> QED BY <2>2, <2>3, <2>4
<1>2. CASE w \in DeleteWrites
    <2>1. Written(g, w) = DocDeleted(g, w)
        BY <1>2 DEF Written, DeleteWrites
    <2> QED BY <1>2, <2>1, DocDeletedOK
<1>3. CASE w \in ChapterWrites(o, n)
    <2>1. Written(g, w) = ChapterNew(g, w)
        BY <1>3 DEF Written, ChapterWrites
    <2> QED BY <1>3, <2>1, ChapterNewOK
<1> QED BY <1>1, <1>2, <1>3 DEF Writes

\* One save: refused, or written with the titles unique.
LEMMA SaveOK ==
    ASSUME NEW o \in Origins, NEW n, NEW r, Sound(o, n, r), NEW w \in Writes(o, n)
    PROVE  Sound(o, n, Save(r, w))
<1>1. r \in [graph : Graph, ok : BOOLEAN] /\ GraphOK(o, n, r.graph) /\ Unique(r.graph)
    BY DEF Sound
<1> DEFINE h == Written(r.graph, w)
<1>2. GraphOK(o, n, h) /\ h \in Graph
    <2>1. GraphOK(o, n, h)
        BY <1>1, WrittenOK
    <2> QED BY <2>1 DEF GraphOK
<1>3. CASE r.ok /\ Unique(h)
    <2>1. Save(r, w) = [r EXCEPT !.graph = h]
        BY <1>3 DEF Save
    <2> HIDE DEF h
    <2>2. [r EXCEPT !.graph = h] \in [graph : Graph, ok : BOOLEAN] /\ [r EXCEPT !.graph = h].graph = h
        BY <1>1, <1>2
    <2> QED BY <1>2, <1>3, <2>1, <2>2 DEF Sound
<1>4. CASE ~(r.ok /\ Unique(h))
    <2>1. Save(r, w) = [r EXCEPT !.ok = FALSE]
        BY <1>4 DEF Save
    <2>2. /\ [r EXCEPT !.ok = FALSE] \in [graph : Graph, ok : BOOLEAN]
          /\ [r EXCEPT !.ok = FALSE].graph = r.graph
        BY <1>1
    <2> QED BY <1>1, <2>1, <2>2 DEF Sound
<1> QED BY <1>3, <1>4

\* The saves of some lists, by induction along the chain.
LEMMA SavedOK ==
    ASSUME NEW o \in Origins, NEW n, NEW r, Sound(o, n, r), NEW s \in Seq(Writes(o, n)), NEW kinds
    PROVE  Sound(o, n, Saved(r, s, kinds))
<1>1. Len(s) \in Nat /\ \A i \in 1 .. Len(s) : s[i] \in Writes(o, n)
    BY LenProperties, ElementOfSeq
<1>2. PICK f : Chain(f, r, s, kinds)
    BY SavedIsChain
<1> DEFINE S == {m \in Nat : m <= Len(s) => Sound(o, n, f[m])}
<1>3. 0 \in S
    BY <1>2 DEF Chain
<1>4. ASSUME NEW m \in Nat, m \in S
      PROVE  m + 1 \in S
    <2> SUFFICES ASSUME m + 1 <= Len(s)
                 PROVE  Sound(o, n, f[m + 1])
        OBVIOUS
    <2>1. Sound(o, n, f[m]) /\ m + 1 \in 1 .. Len(s) /\ (m + 1) - 1 = m
        BY <1>1, <1>4
    <2>2. f[m + 1] = f[m] \/ f[m + 1] = Save(f[m], s[m + 1])
        BY <1>2, <2>1 DEF Chain
    <2>3. Sound(o, n, Save(f[m], s[m + 1]))
        BY <1>1, <2>1, SaveOK
    <2> QED BY <2>1, <2>2, <2>3
<1>5. Len(s) \in S
    <2> HIDE DEF S
    <2> QED BY <1>1, <1>3, <1>4, SetInduction
<1> QED BY <1>1, <1>2, <1>5 DEF Chain

-----------------------------------------------------------------------------
(* The trees and the calls. *)
-----------------------------------------------------------------------------
\* A file that carries an id is the file that id was first written with.
FileOK(o, n, p, file) ==
    file.id # NoId => file.id <= n /\ o[file.id].path = p /\ o[file.id].text = file.text

TreeOK(o, n, tree) == tree \in Tree /\ \A p \in FilesIn(tree) : FileOK(o, n, p, tree.files[p])

TreesOK(o, n, ts) ==
    /\ ts \in [Places \X Titles -> Tree \cup {NoTree}]
    /\ \A x \in Places \X Titles : ts[x] # NoTree => TreeOK(o, n, ts[x])

Fields == {"op", "at", "answer", "lone", "leftover", "owner", "doc", "title", "old", "list", "texts",
           "todo", "source", "left", "place", "dir", "writeBack", "known", "files", "whole", "ids",
           "new", "text"}

\* The chapters a call has loaded.
ListOK(o, n, r) ==
    /\ r.doc \in Documents /\ r.list \in Seq(Chapters)
    /\ \A c \in IdsIn(r.list) : c <= n /\ o[c].doc = r.doc

\* The documents a command has still to assign, and the directory of the first.
TodoOK(r)   == r.todo \in Seq(Documents) /\ r.todo # << >>
SourceOK(r) == TodoOK(r) /\ r.old \in Titles /\ r.source \in Accounts \cup {Flat}

\* The directory of an import, and the files it has read.
ImportOK(r) == r.op = "import" /\ r.place \in Places /\ r.dir \in Titles
KnownOK(o, n, r) ==
    r.doc \in Documents /\ r.known \subseteq Chapters /\ \A c \in r.known : c <= n /\ o[c].doc = r.doc
FilesOK(o, n, r) ==
    /\ ImportOK(r) /\ KnownOK(o, n, r) /\ r.files \in Seq(Paths) /\ r.ids \in Seq(Chapters)
    /\ Len(r.ids) <= Len(r.files)
    /\ \A i \in 1 .. Len(r.ids) : /\ r.ids[i] <= n
                                  /\ o[r.ids[i]].doc = r.doc /\ o[r.ids[i]].path = r.files[i]

Local(o, n, r) ==
    /\ r.at = "load" => r.op \in {"open", "update", "delete"} /\ r.doc \in Documents
    /\ r.at = "load" /\ r.op = "update" => r.title \in Titles
    /\ r.at \in {"exists", "materialize"} =>
         /\ ListOK(o, n, r) /\ r.old \in Titles
         /\ \A c \in IdsIn(r.list) : r.texts[c] \in Node /\ NodeOK(o[c], r.texts[c])
    /\ r.at = "materialize" => r.list # << >>
    /\ r.at = "commit" => ListOK(o, n, r) /\ r.op = "update" /\ r.old \in Titles /\ r.title \in Titles
    /\ r.at = "rename" => r.op = "update" /\ r.old \in Titles /\ r.title \in Titles
    /\ r.at = "tree" => r.old \in Titles
    /\ r.at \in {"tree", "drop"} => r.doc \in Documents
    /\ r.at = "check" => r.op = "create"
    /\ r.at \in {"check", "shell", "new", "meta"} => r.title \in Titles
    /\ r.at = "new" => r.op = "create" \/ ImportOK(r)
    /\ r.at = "meta" /\ r.op = "import" => ImportOK(r) /\ KnownOK(o, n, r)
    /\ r.at = "find" => TodoOK(r)
    /\ r.at \in {"copy", "copying", "remove"} => SourceOK(r)
    /\ r.at \in {"adopted", "stamp"} => TodoOK(r) /\ (r.source # NoTree => SourceOK(r))
    /\ r.at = "copying" => r.left \subseteq Paths
    /\ r.at \in {"resolve", "shell"} => ImportOK(r)
    /\ r.at = "shell" => r.doc \in Documents
    /\ r.at \in {"check", "resolve", "shell", "new"} => r.known = {}
    /\ r.at \in {"load", "commit", "rename", "check", "resolve", "shell", "new", "meta", "walk"} => r.ids = << >>
    /\ r.at = "walk" => ImportOK(r) /\ KnownOK(o, n, r)
    /\ r.at \in {"apply", "persist", "back", "order"} => FilesOK(o, n, r)
    /\ r.at \in {"apply", "persist", "back"} => Len(r.ids) < Len(r.files)
    /\ r.at \in {"persist", "back"} =>
         /\ r.new \in Chapters /\ r.new <= n /\ r.text \in Texts \cup {NoText}
         /\ o[r.new] = [doc |-> r.doc, path |-> r.files[Len(r.ids) + 1], text |-> r.text]

CallOK(o, n, r) == DOMAIN r = Fields /\ (r.at # "idle" => r.owner \in Accounts /\ Local(o, n, r))
CallsOK(o, n)   == call = [w \in Workers |-> call[w]] /\ \A w \in Workers : CallOK(o, n, call[w])

Good(o) ==
    /\ drawn \in [docs : Nat, chapters : Nat]
    /\ GraphOK(o, drawn.chapters, graph) /\ Unique(graph)
    /\ TreesOK(o, drawn.chapters, trees)
    /\ held \in Seq(Writes(o, drawn.chapters))
    /\ CallsOK(o, drawn.chapters)

Documented == \E o \in Origins : Good(o)

LEMMA IdleOK ==
    /\ DOMAIN Idle = Fields /\ Idle.at = "idle"
    /\ \A o, n, op, answer : CallOK(o, n, [Idle EXCEPT !.op = op, !.answer = answer])
<1>1. DOMAIN Idle = Fields /\ Idle.at = "idle"
    BY DEF Idle, Fields
<1> SUFFICES ASSUME NEW o, NEW n, NEW op, NEW answer
             PROVE  CallOK(o, n, [Idle EXCEPT !.op = op, !.answer = answer])
    BY <1>1
<1>2. DOMAIN [Idle EXCEPT !.op = op, !.answer = answer] = Fields
    BY <1>1
<1>3. [Idle EXCEPT !.op = op, !.answer = answer].at = "idle"
    BY DEF Idle
<1> QED BY <1>2, <1>3 DEF CallOK

\* The call goes on, or ends, as it may.
Fine(o, n, w) == \E r : Goto(w, r) /\ CallOK(o, n, r)

LEMMA DoneFine ==
    ASSUME NEW o, NEW n, NEW w, NEW answer, Done(w, answer)
    PROVE  Fine(o, n, w)
<1> DEFINE r == [Idle EXCEPT !.op = call[w].op, !.answer = answer]
<1>1. CallOK(o, n, r) /\ Goto(w, r)
    BY IdleOK DEF Done
<1> QED BY <1>1 DEF Fine

\* What is known of a call that is somewhere.
LEMMA CallIs ==
    ASSUME NEW o, Good(o), NEW w \in Workers
    PROVE  /\ CallsOK(o, drawn.chapters) /\ DOMAIN call[w] = Fields
           /\ call[w].at # "idle" => call[w].owner \in Accounts /\ Local(o, drawn.chapters, call[w])
BY DEF Good, CallsOK, CallOK

\* A step of a call that changes no more than the trees.
LEMMA CallStep ==
    ASSUME NEW o, Good(o), NEW w \in Workers, Fine(o, drawn.chapters, w),
           TreesOK(o, drawn.chapters, trees'), UNCHANGED <<graph, held, drawn>>
    PROVE  Good(o)'
BY DEF Good, CallsOK, Fine, Goto

\* A commit: whatever the unit of work holds, and the call's own model.
LEMMA CommitStep ==
    ASSUME NEW o \in Origins, Good(o), NEW w \in Workers,
           NEW write \in Writes(o, drawn.chapters), NEW after, Commit(w, write, after),
           CallOK(o, drawn.chapters, after),
           drawn' \in [docs : Nat, chapters : Nat], drawn'.chapters = drawn.chapters, UNCHANGED trees
    PROVE  Good(o)'
<1> DEFINE n      == drawn.chapters
           all    == IF w = Server THEN Append(held, write) ELSE <<write>>
           start  == [graph |-> graph, ok |-> TRUE]
           new    == Saved(start, all, {"document new", "chapter new"})
           result == Saved(Saved(new, all, {"document changed"}), all, {"document deleted"})
<1>1. all \in Seq(Writes(o, n))
    BY AppendProperties DEF Good
<1>2. Sound(o, n, start)
    <2>1. start \in [graph : Graph, ok : BOOLEAN] /\ start.graph = graph
        BY DEF Good, GraphOK
    <2> HIDE DEF start
    <2> QED BY <2>1 DEF Sound, Good
<1>3. Sound(o, n, result)
    <2> HIDE DEF all, start, n
    <2>1. Sound(o, n, new)
        BY <1>1, <1>2, SavedOK
    <2> HIDE DEF new
    <2>2. Sound(o, n, Saved(new, all, {"document changed"}))
        BY <1>1, <2>1, SavedOK
    <2> QED BY <1>1, <2>2, SavedOK
<1>4. /\ graph' = result.graph
      /\ IF result.ok THEN Goto(w, after) ELSE Done(w, "error")
      /\ held' = IF w # Server THEN held ELSE IF result.ok THEN << >> ELSE all
    BY DEF Commit
<1> HIDE DEF result, all
<1>5. GraphOK(o, n, graph') /\ Unique(graph')
    BY <1>3, <1>4 DEF Sound
<1>6. held' \in Seq(Writes(o, n))
    <2>1. held' \in {held, << >>, all}
        BY <1>4
    <2> QED BY <1>1, <2>1, EmptySeq DEF Good
<1>7. Fine(o, n, w)
    BY <1>4, DoneFine DEF Fine
<1> QED BY <1>5, <1>6, <1>7 DEF Good, CallsOK, Fine, Goto

-----------------------------------------------------------------------------
(* The first origin: that of the library. *)
-----------------------------------------------------------------------------
\* What a library says of a chapter: its node, its files.
LEMMA LibraryOrigin ==
    ASSUME NEW l \in Libraries, NEW c \in Chapters
    PROVE  \E a \in [doc : Documents \cup {NoId}, path : Paths \cup {NoPath}, text : Texts \cup {NoText}] :
             /\ c \in LiveChaps(l.graph) => a.doc \in LiveDocs(l.graph) /\ NodeOK(a, l.graph.chapters[c])
             /\ \A x \in Places \X Titles : l.trees[x] # NoTree =>
                  \A p \in FilesIn(l.trees[x]) :
                    l.trees[x].files[p].id = c => a.path = p /\ a.text = l.trees[x].files[p].text
<1> DEFINE g == l.graph
           ts == l.trees
           IsFile(x, p) == x \in Places \X Titles /\ ts[x] # NoTree /\ p \in FilesIn(ts[x]) /\ ts[x].files[p].id = c
<1>1. /\ g \in Graph /\ ts \in [Places \X Titles -> Tree \cup {NoTree}]
      /\ \A e \in LiveChaps(g) : \E d \in LiveDocs(g) :
           /\ Parents(g.chapters[e]) = {d}
           /\ g.chapters[e].home = IF g.chapters[e].path = NoPath THEN NoId ELSE d
      /\ FilesOfOneId(g, ts)
    BY LibrariesAssumption DEF IsLibrary, WellFormed, Graph
<1> HIDE DEF g, ts
<1>2. \A x, p : IsFile(x, p) => /\ p \in Paths /\ ts[x].files[p].text \in Texts \cup {NoText}
                                /\ ts[x].files[p] # NoFile
    BY <1>1 DEF FilesIn, Tree, File
<1>3. \A x, y, p, q : IsFile(x, p) /\ IsFile(y, q) => p = q /\ ts[x].files[p].text = ts[y].files[q].text
    <2>1. c # NoId
        BY IdsAssumption
    <2> QED BY <1>1, <2>1 DEF FilesOfOneId
<1>4. \A x, p : IsFile(x, p) /\ c \in LiveChaps(g) /\ g.chapters[c].path # NoPath =>
                  g.chapters[c].path = p /\ g.chapters[c].text = ts[x].files[p].text
    BY <1>1 DEF FilesOfOneId
<1>5. c \in LiveChaps(g) => g.chapters[c] \in Node
    BY <1>1 DEF LiveChaps, Graph
<1>6. PICK d \in Documents \cup {NoId} :
        c \in LiveChaps(g) => /\ d \in LiveDocs(g) /\ Parents(g.chapters[c]) = {d}
                              /\ g.chapters[c].home = IF g.chapters[c].path = NoPath THEN NoId ELSE d
    BY <1>1 DEF LiveDocs
<1> DEFINE Says(a) == /\ c \in LiveChaps(g) => a.doc \in LiveDocs(g) /\ NodeOK(a, g.chapters[c])
                      /\ \A x, p : IsFile(x, p) => a.path = p /\ a.text = ts[x].files[p].text
           Kinds == [doc : Documents \cup {NoId}, path : Paths \cup {NoPath}, text : Texts \cup {NoText}]
<1>7. \E a \in Kinds : Says(a)
    <2>1. CASE c \in LiveChaps(g) /\ g.chapters[c].path # NoPath
        <3> DEFINE a == [doc |-> d, path |-> g.chapters[c].path, text |-> g.chapters[c].text]
        <3>1. a \in Kinds
            BY <1>5, <2>1 DEF Node
        <3>2. NodeOK(a, g.chapters[c])
            BY <1>5, <1>6, <2>1 DEF NodeOK, Node
        <3>3. a.doc = d /\ a.path = g.chapters[c].path /\ a.text = g.chapters[c].text
            OBVIOUS
        <3> HIDE DEF a, IsFile, Kinds
        <3>4. Says(a)
            BY <1>4, <1>6, <2>1, <3>2, <3>3
        <3> QED BY <3>1, <3>4
    <2>2. CASE ~(c \in LiveChaps(g) /\ g.chapters[c].path # NoPath) /\ \E x, p : IsFile(x, p)
        <3>1. PICK x, p : IsFile(x, p)
            BY <2>2
        <3> DEFINE a == [doc |-> d, path |-> p, text |-> ts[x].files[p].text]
        <3>2. a \in Kinds
            BY <1>2, <3>1
        <3>3. a.doc = d /\ a.path = p /\ a.text = ts[x].files[p].text
            OBVIOUS
        <3> HIDE DEF a, IsFile, Kinds
        <3>4. c \in LiveChaps(g) => a.doc \in LiveDocs(g) /\ NodeOK(a, g.chapters[c])
            BY <1>6, <2>2, <3>3 DEF NodeOK
        <3>5. Says(a)
            BY <1>3, <3>1, <3>3, <3>4
        <3> QED BY <3>2, <3>5
    <2>3. CASE ~(c \in LiveChaps(g) /\ g.chapters[c].path # NoPath) /\ ~\E x, p : IsFile(x, p)
        <3> DEFINE a == [doc |-> d, path |-> NoPath, text |-> NoText]
        <3>1. a \in Kinds /\ a.doc = d
            OBVIOUS
        <3> HIDE DEF a, IsFile, Kinds
        <3>2. Says(a)
            BY <1>6, <2>3, <3>1 DEF NodeOK
        <3> QED BY <3>1, <3>2
    <2> QED BY <2>1, <2>2, <2>3
<1> QED BY <1>7 DEF g, ts

LEMMA InitDocumented == Init => Documented
<1> SUFFICES ASSUME Init PROVE Documented
    OBVIOUS
<1>1. PICK l \in Libraries : graph = l.graph /\ trees = l.trees /\ drawn = l.drawn
    BY DEF Init
<1>2. held = << >> /\ call = [w \in Workers |-> Idle]
    BY DEF Init
<1> DEFINE Kinds == [doc : Documents \cup {NoId}, path : Paths \cup {NoPath}, text : Texts \cup {NoText}]
           Says(c, a) ==
             /\ c \in LiveChaps(graph) => a.doc \in LiveDocs(graph) /\ NodeOK(a, graph.chapters[c])
             /\ \A x \in Places \X Titles : trees[x] # NoTree =>
                  \A p \in FilesIn(trees[x]) :
                    trees[x].files[p].id = c => a.path = p /\ a.text = trees[x].files[p].text
           o == [c \in Chapters |-> CHOOSE a \in Kinds : Says(c, a)]
<1>3. \A c \in Chapters : \E a \in Kinds : Says(c, a)
    BY <1>1, LibraryOrigin
<1>4. o \in Origins /\ \A c \in Chapters : Says(c, o[c])
    <2> HIDE DEF Says, Kinds
    <2>1. \A c \in Chapters : o[c] \in Kinds /\ Says(c, o[c])
        BY <1>3
    <2>2. o \in [Chapters -> Kinds]
        BY <2>1
    <2> QED BY <2>1, <2>2 DEF Origins, Kinds
<1> HIDE DEF o
<1>5. /\ graph \in Graph /\ trees \in [Places \X Titles -> Tree \cup {NoTree}] /\ Unique(graph)
      /\ drawn \in [docs : Nat, chapters : Nat]
      /\ \A c \in LiveChaps(graph) : c <= drawn.chapters
      /\ \A x \in Places \X Titles : trees[x] # NoTree =>
           \A p \in FilesIn(trees[x]) :
             trees[x].files[p].id # NoId => trees[x].files[p].id <= drawn.chapters
    BY <1>1, LibrariesAssumption DEF IsLibrary, WellFormed, Graph
<1>6. GraphOK(o, drawn.chapters, graph)
    <2>1. \A c \in LiveChaps(graph) : c \in Chapters
        BY DEF LiveChaps
    <2> QED BY <1>4, <1>5, <2>1 DEF GraphOK
<1>7. TreesOK(o, drawn.chapters, trees)
    <2> SUFFICES ASSUME NEW x \in Places \X Titles, trees[x] # NoTree, NEW p \in FilesIn(trees[x]),
                        trees[x].files[p].id # NoId
                 PROVE  /\ trees[x].files[p].id <= drawn.chapters
                        /\ o[trees[x].files[p].id].path = p /\ o[trees[x].files[p].id].text = trees[x].files[p].text
        BY <1>5 DEF TreesOK, TreeOK, FileOK
    <2>1. trees[x].files[p].id \in Chapters
        BY <1>5 DEF FilesIn, Tree, File
    <2> QED BY <1>4, <1>5, <2>1
<1>8. CallsOK(o, drawn.chapters)
    <2>1. CallOK(o, drawn.chapters, Idle)
        BY IdleOK DEF CallOK
    <2> QED BY <1>2, <2>1 DEF CallsOK
<1>9. held \in Seq(Writes(o, drawn.chapters))
    BY <1>2, EmptySeq
<1> QED BY <1>4, <1>5, <1>6, <1>7, <1>8, <1>9 DEF Documented, Good

-----------------------------------------------------------------------------
(* What is written to a tree agrees with the origins. *)
-----------------------------------------------------------------------------
LEMMA PutTree ==
    ASSUME NEW o, NEW n, NEW ts, TreesOK(o, n, ts), NEW x \in Places \X Titles, NEW tree,
           tree = NoTree \/ TreeOK(o, n, tree)
    PROVE  TreesOK(o, n, [ts EXCEPT ![x] = tree])
<1>1. tree \in Tree \cup {NoTree}
    BY DEF TreeOK
<1>2. [ts EXCEPT ![x] = tree] \in [Places \X Titles -> Tree \cup {NoTree}]
    BY <1>1 DEF TreesOK
<1>3. \A y \in Places \X Titles : [ts EXCEPT ![x] = tree][y] = IF y = x THEN tree ELSE ts[y]
    BY DEF TreesOK
<1> QED BY <1>2, <1>3 DEF TreesOK

LEMMA EmptyTreeOK == \A o, n : TreeOK(o, n, EmptyTree) /\ EmptyTree.meta = NoTitle /\ FilesIn(EmptyTree) = {}
<1>1. EmptyTree \in Tree
    BY DEF EmptyTree, Tree
<1>2. FilesIn(EmptyTree) = {} /\ EmptyTree.meta = NoTitle
    BY DEF FilesIn, EmptyTree
<1> QED BY <1>1, <1>2 DEF TreeOK

LEMMA TreeAtOK ==
    ASSUME NEW o, NEW n, TreesOK(o, n, trees), NEW p \in Places, NEW t \in Titles
    PROVE  TreeOK(o, n, TreeAt(p, t))
<1>1. CASE HasTree(p, t)
    BY <1>1 DEF TreeAt, HasTree, TreesOK
<1>2. CASE ~HasTree(p, t)
    BY <1>2, EmptyTreeOK DEF TreeAt
<1> QED BY <1>1, <1>2

LEMMA MetaPut ==
    ASSUME NEW o, NEW n, NEW tree, TreeOK(o, n, tree), NEW m \in Titles
    PROVE  TreeOK(o, n, [tree EXCEPT !.meta = m]) /\ FilesIn([tree EXCEPT !.meta = m]) = FilesIn(tree)
<1>1. [tree EXCEPT !.meta = m] \in Tree /\ [tree EXCEPT !.meta = m].files = tree.files
    BY DEF TreeOK, Tree
<1> QED BY <1>1 DEF TreeOK, FilesIn

LEMMA FilePut ==
    ASSUME NEW o, NEW n, NEW tree, TreeOK(o, n, tree), NEW path \in Paths, NEW file \in File,
           FileOK(o, n, path, file)
    PROVE  TreeOK(o, n, [tree EXCEPT !.files[path] = file])
<1> DEFINE h == [tree EXCEPT !.files[path] = file]
<1>1. tree \in Tree
    BY DEF TreeOK
<1>2. h \in Tree /\ h.files = [tree.files EXCEPT ![path] = file]
    BY <1>1 DEF Tree
<1> HIDE DEF h
<1>3. \A p \in Paths : h.files[p] = IF p = path THEN file ELSE tree.files[p]
    BY <1>1, <1>2 DEF Tree
<1>4. \A p \in FilesIn(h) : FileOK(o, n, p, h.files[p])
    BY <1>3 DEF TreeOK, FilesIn
<1> QED BY <1>2, <1>4 DEF TreeOK, h

LEMMA WriteMetaOK ==
    ASSUME NEW o, NEW n, TreesOK(o, n, trees), NEW p \in Places, NEW t \in Titles, NEW m \in Titles, WriteMeta(p, t, m)
    PROVE  TreesOK(o, n, trees')
<1> DEFINE tree == [TreeAt(p, t) EXCEPT !.meta = m]
<1>1. TreeOK(o, n, tree)
    BY TreeAtOK, MetaPut
<1>2. trees' = [trees EXCEPT ![<<p, t>>] = tree]
    BY DEF WriteMeta
<1> HIDE DEF tree
<1> QED BY <1>1, <1>2, PutTree

LEMMA WriteFileOK ==
    ASSUME NEW o, NEW n, TreesOK(o, n, trees), NEW p \in Places, NEW t \in Titles, NEW path \in Paths, NEW file \in File,
           FileOK(o, n, path, file), WriteFile(p, t, path, file)
    PROVE  TreesOK(o, n, trees')
<1> DEFINE tree == [TreeAt(p, t) EXCEPT !.files[path] = file]
<1>1. TreeOK(o, n, tree)
    BY TreeAtOK, FilePut
<1>2. trees' = [trees EXCEPT ![<<p, t>>] = tree]
    BY DEF WriteFile
<1> HIDE DEF tree
<1> QED BY <1>1, <1>2, PutTree

LEMMA RemoveTreeOK ==
    ASSUME NEW o, NEW n, TreesOK(o, n, trees), NEW p \in Places, NEW t \in Titles, RemoveTree(p, t)
    PROVE  TreesOK(o, n, trees')
BY PutTree DEF RemoveTree

LEMMA AccountsArePlaces == Accounts \subseteq Places /\ Flat \in Places /\ Unowned \notin Accounts /\ NoTree \notin Places
BY PlacesAssumption DEF Places

-----------------------------------------------------------------------------
(* The steps. *)
-----------------------------------------------------------------------------
\* A request is a call that has done nothing yet.
LEMMA AskedIs ==
    ASSUME NEW op, NEW at, NEW a
    PROVE  /\ DOMAIN Asked(op, at, a) = Fields
           /\ Asked(op, at, a).op = op /\ Asked(op, at, a).at = at /\ Asked(op, at, a).owner = a
           /\ Asked(op, at, a).ids = << >> /\ Asked(op, at, a).known = {} /\ Asked(op, at, a).answer = "none"
<1>1. DOMAIN Idle = Fields /\ Idle.ids = << >> /\ Idle.known = {} /\ Idle.answer = "none"
    BY IdleOK DEF Idle
<1> QED BY <1>1 DEF Asked, Fields

LEMMA ImportsOK ==
    ASSUME NEW o, NEW n, NEW places \in SUBSET Places, NEW c \in Imports(places)
    PROVE  CallOK(o, n, c) /\ c.op = "import" /\ c.at = "resolve"
<1>1. PICK a \in Accounts, p \in places, t \in Titles : c = Import(a, p, t)
    BY DEF Imports
<1> DEFINE b == Asked("import", "resolve", a)
<1>2. DOMAIN b = Fields /\ b.op = "import" /\ b.at = "resolve" /\ b.owner = a /\ b.ids = << >> /\ b.known = {}
    BY AskedIs
<1>3. c = [b EXCEPT !.place = p, !.dir = t, !.writeBack = DefaultWriteBack(p)]
    BY <1>1 DEF Import
<1> HIDE DEF b
<1>4. /\ DOMAIN c = Fields /\ c.op = "import" /\ c.at = "resolve" /\ c.owner = a /\ c.ids = << >> /\ c.known = {}
      /\ c.place = p /\ c.dir = t
    BY <1>2, <1>3 DEF Fields
<1> QED BY <1>4 DEF CallOK, Local, ImportOK

LEMMA AboutIs ==
    ASSUME NEW op, NEW at, NEW a, NEW d, NEW t
    PROVE  /\ DOMAIN About(op, at, a, d, t) = Fields /\ About(op, at, a, d, t).op = op
           /\ About(op, at, a, d, t).at = at /\ About(op, at, a, d, t).owner = a
           /\ About(op, at, a, d, t).doc = d /\ About(op, at, a, d, t).title = t
           /\ About(op, at, a, d, t).ids = << >> /\ About(op, at, a, d, t).known = {}
           /\ About(op, at, a, d, t).answer = "none"
<1> DEFINE b == Asked(op, at, a)
<1>1. DOMAIN b = Fields /\ b.op = op /\ b.at = at /\ b.owner = a /\ b.ids = << >> /\ b.known = {} /\ b.answer = "none"
      /\ About(op, at, a, d, t) = [b EXCEPT !.doc = d, !.title = t]
    BY AskedIs DEF About
<1> HIDE DEF b
<1> QED BY <1>1 DEF Fields

LEMMA AskingOK ==
    ASSUME NEW o, NEW n, NEW c \in Requests \cup Commands
    PROVE  CallOK(o, n, c)
<1>1. ASSUME NEW op \in {"open", "delete"}, NEW a \in Accounts, NEW d \in Documents
      PROVE  CallOK(o, n, About(op, "load", a, d, NoTitle))
    BY AboutIs DEF CallOK, Local
<1>2. ASSUME NEW a \in Accounts, NEW t \in Titles
      PROVE  CallOK(o, n, About("create", "check", a, NoId, t))
    BY AboutIs DEF CallOK, Local
<1>3. ASSUME NEW a \in Accounts, NEW d \in Documents, NEW t \in Titles
      PROVE  CallOK(o, n, About("update", "load", a, d, t))
    BY AboutIs DEF CallOK, Local
<1>4. ASSUME NEW a \in Accounts, NEW d \in Documents, c = Assign(a, d)
      PROVE  CallOK(o, n, c)
    <2> DEFINE b == Asked("assign", "find", a)
    <2>1. DOMAIN b = Fields /\ b.op = "assign" /\ b.at = "find" /\ b.owner = a /\ c = [b EXCEPT !.todo = <<d>>]
        BY <1>4, AskedIs DEF Assign
    <2> HIDE DEF b
    <2>2. DOMAIN c = Fields /\ c.op = "assign" /\ c.at = "find" /\ c.owner = a /\ c.todo = <<d>>
        BY <2>1 DEF Fields
    <2>3. <<d>> \in Seq(Documents) /\ <<d>> # << >>
        OBVIOUS
    <2> QED BY <2>2, <2>3 DEF CallOK, Local, TodoOK
<1>5. ASSUME NEW a \in Accounts, c = AssignAll(a)
      PROVE  CallOK(o, n, c)
    <2> DEFINE b == Asked("assign all", "unowned", a)
    <2>3. \A op, at : DOMAIN Asked(op, at, a) = Fields /\ Asked(op, at, a).at = at /\ Asked(op, at, a).owner = a
        BY AskedIs
    <2>1. DOMAIN b = Fields /\ b.at = "unowned" /\ b.owner = a
        BY <2>3
    <2>2. c = b
        BY <1>5 DEF AssignAll
    <2> HIDE DEF b
    <2> QED BY <2>1, <2>2 DEF CallOK, Local
<1>6. \A places \in SUBSET Places : c \in Imports(places) => CallOK(o, n, c)
    BY ImportsOK
<1>7. {Outside} \in SUBSET Places /\ Places \in SUBSET Places
    BY DEF Places
<1>8. CASE c \in Requests
    BY <1>1, <1>2, <1>3, <1>6, <1>7, <1>8 DEF Requests, Uploads
<1>9. CASE c \in Commands
    BY <1>4, <1>5, <1>6, <1>7, <1>9 DEF Commands
<1> QED BY <1>8, <1>9

\* Nothing is known from whether a call is alone.
LEMMA LoneOK ==
    ASSUME NEW o, NEW n, NEW c, CallOK(o, n, c), NEW b, NEW l
    PROVE  CallOK(o, n, [c EXCEPT !.lone = b]) /\ CallOK(o, n, [c EXCEPT !.lone = b, !.leftover = l])
<1>1. DOMAIN c = Fields
    BY DEF CallOK
<1>2. ASSUME NEW d, DOMAIN d = Fields, \A f \in Fields \ {"lone", "leftover"} : d[f] = c[f]
      PROVE  CallOK(o, n, d)
    <2>1. /\ d.op = c.op /\ d.at = c.at /\ d.owner = c.owner /\ d.doc = c.doc /\ d.title = c.title /\ d.old = c.old
          /\ d.list = c.list /\ d.texts = c.texts /\ d.todo = c.todo /\ d.source = c.source /\ d.left = c.left
          /\ d.place = c.place /\ d.dir = c.dir /\ d.known = c.known /\ d.files = c.files /\ d.ids = c.ids
          /\ d.new = c.new /\ d.text = c.text
        BY <1>2 DEF Fields
    <2> QED BY <1>2, <2>1 DEF CallOK, Local, ListOK, TodoOK, SourceOK, ImportOK, KnownOK, FilesOK
<1>3. DOMAIN [c EXCEPT !.lone = b] = Fields /\ \A f \in Fields \ {"lone", "leftover"} : [c EXCEPT !.lone = b][f] = c[f]
    BY <1>1
<1>4. /\ DOMAIN [c EXCEPT !.lone = b, !.leftover = l] = Fields
      /\ \A f \in Fields \ {"lone", "leftover"} : [c EXCEPT !.lone = b, !.leftover = l][f] = c[f]
    BY <1>1
<1> QED BY <1>2, <1>3, <1>4

LEMMA BeginGood ==
    ASSUME NEW o \in Origins, Good(o), NEW w \in Workers, Begin(w)
    PROVE  Good(o)'
<1>1. PICK c \in Requests \cup Commands :
        call' = [v \in Workers |->
          IF v = w THEN [c EXCEPT !.lone = ({u \in Workers \ {w} : ~At(u, "idle")} = {}),
                                  !.leftover = (w = Server /\ held # << >>)]
          ELSE IF v \in {u \in Workers \ {w} : ~At(u, "idle")} THEN [call[v] EXCEPT !.lone = FALSE] ELSE call[v]]
    BY DEF Begin
<1>2. CallOK(o, drawn.chapters, c) /\ \A v \in Workers : CallOK(o, drawn.chapters, call[v])
    BY AskingOK DEF Good, CallsOK
<1>3. \A v \in Workers : CallOK(o, drawn.chapters, call'[v])
    <2> SUFFICES ASSUME NEW v \in Workers
                 PROVE  CallOK(o, drawn.chapters, call'[v])
        OBVIOUS
    <2> DEFINE others == {u \in Workers \ {w} : ~At(u, "idle")}
               lone == others = {}
               leftover == w = Server /\ held # << >>
    <2>1. call'[v] = IF v = w THEN [c EXCEPT !.lone = lone, !.leftover = leftover]
                     ELSE IF v \in others THEN [call[v] EXCEPT !.lone = FALSE] ELSE call[v]
        BY <1>1
    <2> HIDE DEF others, lone, leftover
    <2>2. CallOK(o, drawn.chapters, [c EXCEPT !.lone = lone, !.leftover = leftover])
        BY <1>2, LoneOK
    <2>3. CallOK(o, drawn.chapters, [call[v] EXCEPT !.lone = FALSE])
        BY <1>2, LoneOK
    <2> QED BY <1>2, <2>1, <2>2, <2>3
<1>4. call' = [v \in Workers |-> call'[v]]
    BY <1>1
<1> QED BY <1>3, <1>4 DEF Begin, Good, CallsOK

\* What a document lists came from it.
LEMMA ListedOK ==
    ASSUME NEW o \in Origins, Good(o), NEW d \in Documents, NEW s \in ChapterList(d)
    PROVE  /\ s \in Seq(Chapters) /\ IdsIn(s) = In(graph, d)
           /\ \A i, j \in 1 .. Len(s) : i # j => s[i] # s[j]
           /\ \A c \in IdsIn(s) : /\ c \in LiveChaps(graph) /\ c <= drawn.chapters /\ o[c].doc = d
                                  /\ graph.chapters[c] \in Node /\ NodeOK(o[c], graph.chapters[c])
<1> DEFINE S == In(graph, d)
<1>1. S \subseteq Chapters
    BY DEF In, LiveChaps
<1>2. IsFiniteSet(S) /\ s \in SetToSeqs(S)
    <2>1. IsFiniteSet(S)
        BY <1>1, IdsAssumption, FS_Subset
    <2> QED BY <2>1 DEF ChapterList
<1> HIDE DEF S
<1>3. s \in Seq(S) /\ IdsIn(s) = S /\ \A i, j \in 1 .. Len(s) : i # j => s[i] # s[j]
    BY <1>2, ListedOnce
<1>4. s \in Seq(Chapters)
    BY <1>1, <1>3, SeqMonotonic
<1>5. ASSUME NEW c \in S
      PROVE  /\ c \in LiveChaps(graph) /\ c <= drawn.chapters /\ o[c].doc = d
             /\ graph.chapters[c] \in Node /\ NodeOK(o[c], graph.chapters[c])
    <2>1. c \in LiveChaps(graph) /\ d \in Parents(graph.chapters[c])
        BY <1>5 DEF S, In
    <2>2. c <= drawn.chapters /\ NodeOK(o[c], graph.chapters[c]) /\ graph \in Graph
        BY <2>1 DEF Good, GraphOK
    <2> QED BY <2>1, <2>2 DEF NodeOK, LiveChaps, Graph
<1> QED BY <1>3, <1>4, <1>5 DEF S

LEMMA LoadGood ==
    ASSUME NEW o \in Origins, Good(o), NEW w \in Workers, Load(w)
    PROVE  Good(o)'
<1> DEFINE c == call[w]
           n == drawn.chapters
<1>1. /\ c.at = "load" /\ DOMAIN c = Fields /\ c.owner \in Accounts /\ c.doc \in Documents
      /\ c.op \in {"open", "update", "delete"} /\ (c.op = "update" => c.title \in Titles) /\ c.ids = << >>
    BY CallIs DEF Load, At, Local
<1>2. CASE \E answer : Done(w, answer)
    BY <1>2, DoneFine, CallStep DEF Load, Good
<1>3. CASE OwnedBy(c.doc, c.owner) /\ ~(c.op = "update" /\ TitleTaken(c.owner, c.title, {c.doc}))
    <2>1. PICK s \in ChapterList(c.doc) :
            Goto(w, [c EXCEPT !.old = graph.docs[c.doc].title, !.list = s,
                              !.texts = [x \in IdsIn(s) |-> graph.chapters[x]],
                              !.at = CASE c.op = "open" -> "exists" [] c.op = "update" -> "commit"
                                       [] c.op = "delete" -> "tree"])
        BY <1>3 DEF Load
    <2> DEFINE at == CASE c.op = "open" -> "exists" [] c.op = "update" -> "commit" [] c.op = "delete" -> "tree"
               texts == [x \in IdsIn(s) |-> graph.chapters[x]]
               old == graph.docs[c.doc].title
               r == [c EXCEPT !.old = old, !.list = s, !.texts = texts, !.at = at]
    <2>2. Goto(w, r)
        BY <2>1
    <2>3. /\ c.op = "open" => at = "exists"
          /\ c.op = "update" => at = "commit"
          /\ c.op = "delete" => at = "tree"
        OBVIOUS
    <2>4. old \in Titles
        BY <1>3 DEF OwnedBy, LiveDocs, Good, GraphOK, Graph, Document
    <2>5. \A x \in IdsIn(s) : texts[x] = graph.chapters[x]
        OBVIOUS
    <2> HIDE DEF at, texts, old
    <2>6. /\ DOMAIN r = Fields /\ r.at = at /\ r.old = old /\ r.list = s /\ r.texts = texts
          /\ r.op = c.op /\ r.owner = c.owner /\ r.doc = c.doc /\ r.title = c.title /\ r.ids = c.ids
        BY <1>1 DEF Fields
    <2> HIDE DEF r, c
    <2>7. /\ s \in Seq(Chapters)
          /\ \A x \in IdsIn(s) : x <= n /\ o[x].doc = c.doc /\ texts[x] \in Node /\ NodeOK(o[x], texts[x])
        BY <1>1, <2>5, ListedOK
    <2> HIDE DEF n
    <2>8. ListOK(o, n, r)
        BY <1>1, <2>6, <2>7 DEF ListOK
    <2>9. CallOK(o, n, r)
        <3>1. CASE c.op = "open"
            BY <1>1, <2>3, <2>4, <2>6, <2>7, <2>8, <3>1 DEF CallOK, Local
        <3>2. CASE c.op = "update"
            BY <1>1, <2>3, <2>4, <2>6, <2>7, <2>8, <3>2 DEF CallOK, Local
        <3>3. CASE c.op = "delete"
            BY <1>1, <2>3, <2>4, <2>6, <2>7, <2>8, <3>3 DEF CallOK, Local
        <3> QED BY <1>1, <3>1, <3>2, <3>3
    <2>10. Fine(o, n, w)
        BY <2>2, <2>9 DEF Fine
    <2> QED BY <2>10, CallStep DEF Load, Good, n
<1> QED BY <1>2, <1>3 DEF Load

\* A step to where nothing is known of the call.
LEMMA SnapshotFine ==
    ASSUME NEW o \in Origins, Good(o), NEW w \in Workers, ~At(w, "idle"), Step(w, "snapshot")
    PROVE  Fine(o, drawn.chapters, w)
<1> DEFINE c == call[w]
           n == drawn.chapters
           r == [c EXCEPT !.at = "snapshot"]
<1>1. DOMAIN c = Fields /\ c.owner \in Accounts
    BY CallIs DEF At
<1>2. DOMAIN r = Fields /\ r.at = "snapshot" /\ r.owner = c.owner
    BY <1>1 DEF Fields
<1>3. Goto(w, r)
    BY DEF Step
<1> HIDE DEF r, c, n
<1>4. CallOK(o, n, r)
    BY <1>1, <1>2 DEF CallOK, Local
<1> QED BY <1>3, <1>4 DEF Fine, n

LEMMA SnapshotGood ==
    ASSUME NEW o \in Origins, Good(o), NEW w \in Workers, Snapshot(w)
    PROVE  Good(o)'
BY DoneFine, CallStep DEF Snapshot, Good

LEMMA ExistsGood ==
    ASSUME NEW o \in Origins, Good(o), NEW w \in Workers, Exists(w)
    PROVE  Good(o)'
<1> DEFINE c == call[w]
           n == drawn.chapters
<1>1. /\ c.at = "exists" /\ DOMAIN c = Fields /\ c.owner \in Accounts /\ c.old \in Titles
      /\ ListOK(o, n, c) /\ \A x \in IdsIn(c.list) : c.texts[x] \in Node /\ NodeOK(o[x], c.texts[x])
    BY CallIs DEF Exists, At, Local
<1>2. TreesOK(o, n, trees')
    <2>1. WriteMeta(c.owner, c.old, c.old) /\ c.owner \in Places
        BY <1>1, AccountsArePlaces DEF Exists
    <2> QED BY <1>1, <2>1, WriteMetaOK DEF Good
<1>3. Fine(o, n, w)
    <2>1. CASE Done(w, "ok")
        BY <2>1, DoneFine
    <2>2. CASE Step(w, "materialize") /\ c.list # << >>
        <3> DEFINE r == [c EXCEPT !.at = "materialize"]
        <3>1. /\ DOMAIN r = Fields /\ r.at = "materialize" /\ r.owner = c.owner /\ r.doc = c.doc
              /\ r.old = c.old /\ r.list = c.list /\ r.texts = c.texts
            BY <1>1 DEF Fields
        <3>2. Goto(w, r)
            BY <2>2 DEF Step
        <3> HIDE DEF r, c, n
        <3>3. CallOK(o, n, r)
            BY <1>1, <2>2, <3>1 DEF CallOK, Local, ListOK
        <3> QED BY <3>2, <3>3 DEF Fine
    <2>3. CASE Step(w, "snapshot")
        BY <1>1, <2>3, SnapshotFine DEF At
    <2> QED BY <2>1, <2>2, <2>3 DEF Exists
<1> QED BY <1>2, <1>3, CallStep DEF Exists

\* The file of a chapter that was loaded: the one it was first written with.
LEMMA MaterializeGood ==
    ASSUME NEW o \in Origins, Good(o), NEW w \in Workers, Materialize(w)
    PROVE  Good(o)'
<1> DEFINE c == call[w]
           n == drawn.chapters
           x == Head(c.list)
           chapter == c.texts[x]
<1>1. /\ c.at = "materialize" /\ DOMAIN c = Fields /\ c.owner \in Accounts /\ c.old \in Titles /\ c.list # << >>
      /\ ListOK(o, n, c) /\ \A y \in IdsIn(c.list) : c.texts[y] \in Node /\ NodeOK(o[y], c.texts[y])
    BY CallIs DEF Materialize, At, Local
<1>2. c.list \in Seq(Chapters) /\ Len(c.list) \in Nat \ {0} /\ x = c.list[1] /\ x \in IdsIn(c.list)
    <2>1. c.list \in Seq(Chapters)
        BY <1>1 DEF ListOK
    <2>2. Len(c.list) \in Nat \ {0}
        BY <1>1, <2>1, EmptySeq
    <2>3. x = c.list[1]
        BY <2>1, <2>2
    <2> QED BY <2>1, <2>2, <2>3 DEF IdsIn
<1>3. x \in Chapters /\ x <= n /\ chapter \in Node /\ NodeOK(o[x], chapter)
    BY <1>1, <1>2, ElementOfSeq DEF ListOK
<1>4. TreesOK(o, n, trees')
    <2>1. CASE chapter.path = NoPath
        BY <2>1 DEF Materialize, Good
    <2>2. CASE chapter.path # NoPath
        <3> DEFINE file == [id |-> x, text |-> chapter.text]
        <3>1. WriteFile(c.owner, c.old, chapter.path, file) /\ c.owner \in Places
            BY <1>1, <2>2, AccountsArePlaces DEF Materialize
        <3>2. file \in File /\ file.id = x /\ file.text = chapter.text
            BY <1>3 DEF File, Node
        <3> HIDE DEF file, x, chapter
        <3>3. chapter.path \in Paths /\ FileOK(o, n, chapter.path, file)
            BY <1>3, <2>2, <3>2 DEF NodeOK, FileOK
        <3> QED BY <1>1, <3>1, <3>2, <3>3, WriteFileOK DEF Good
    <2> QED BY <2>1, <2>2
<1>5. Fine(o, n, w)
    <2>1. CASE \E answer : Done(w, answer)
        BY <2>1, DoneFine
    <2>2. CASE Goto(w, [c EXCEPT !.list = Tail(@)]) /\ Len(c.list) # 1
        <3> DEFINE r == [c EXCEPT !.list = Tail(c.list)]
        <3>1. /\ DOMAIN r = Fields /\ r.at = "materialize" /\ r.owner = c.owner /\ r.doc = c.doc
              /\ r.old = c.old /\ r.list = Tail(c.list) /\ r.texts = c.texts
            BY <1>1 DEF Fields
        <3>2. Goto(w, r)
            BY <2>2
        <3>3. /\ Tail(c.list) \in Seq(Chapters) /\ Tail(c.list) # << >>
              /\ IdsIn(Tail(c.list)) \subseteq IdsIn(c.list)
            <4>1. /\ Tail(c.list) \in Seq(Chapters) /\ Len(Tail(c.list)) = Len(c.list) - 1
                  /\ \A i \in 1 .. Len(Tail(c.list)) : Tail(c.list)[i] = c.list[i + 1]
                BY <1>1, <1>2, HeadTailProperties
            <4>2. Tail(c.list) # << >>
                <5>1. Len(Tail(c.list)) # 0
                    BY <1>2, <2>2, <4>1
                <5>2. Len(<< >>) = 0
                    BY EmptySeq
                <5> QED BY <5>1, <5>2
            <4> QED BY <1>2, <4>1, <4>2 DEF IdsIn
        <3> HIDE DEF r, c, n
        <3>4. CallOK(o, n, r)
            BY <1>1, <3>1, <3>3 DEF CallOK, Local, ListOK
        <3> QED BY <3>2, <3>4 DEF Fine
    <2>3. CASE Step(w, "snapshot")
        BY <1>1, <2>3, SnapshotFine DEF At
    <2> QED BY <2>1, <2>2, <2>3 DEF Materialize
<1> QED BY <1>4, <1>5, CallStep DEF Materialize

LEMMA CheckGood ==
    ASSUME NEW o \in Origins, Good(o), NEW w \in Workers, Check(w)
    PROVE  Good(o)'
<1> DEFINE c == call[w]
           n == drawn.chapters
<1>1. /\ c.at = "check" /\ DOMAIN c = Fields /\ c.owner \in Accounts /\ c.title \in Titles /\ c.op = "create"
      /\ c.known = {} /\ c.ids = << >>
    BY CallIs DEF Check, At, Local
<1>2. Fine(o, n, w)
    <2>1. CASE Done(w, "duplicate")
        BY <2>1, DoneFine
    <2>2. CASE Step(w, "new")
        <3> DEFINE r == [c EXCEPT !.at = "new"]
        <3>1. /\ DOMAIN r = Fields /\ r.at = "new" /\ r.owner = c.owner /\ r.op = c.op /\ r.title = c.title
              /\ r.known = c.known /\ r.ids = c.ids
            BY <1>1 DEF Fields
        <3>2. Goto(w, r)
            BY <2>2 DEF Step
        <3> HIDE DEF r, c, n
        <3>3. CallOK(o, n, r)
            BY <1>1, <3>1 DEF CallOK, Local
        <3> QED BY <3>2, <3>3 DEF Fine
    <2> QED BY <2>1, <2>2 DEF Check
<1> QED BY <1>2, CallStep DEF Check, Good

LEMMA NewGood ==
    ASSUME NEW o \in Origins, Good(o), NEW w \in Workers, New(w)
    PROVE  Good(o)'
<1> DEFINE c == call[w]
           n == drawn.chapters
           d == drawn.docs + 1
           write == [kind |-> "document new", doc |-> d, title |-> c.title, owner |-> c.owner, list |-> << >>]
           after == IF c.op = "create" THEN [c EXCEPT !.at = "meta"]
                    ELSE [c EXCEPT !.doc = d, !.at = IF c.writeBack THEN "meta" ELSE "walk"]
<1>1. /\ c.at = "new" /\ DOMAIN c = Fields /\ c.owner \in Accounts /\ c.title \in Titles
      /\ c.op = "create" \/ (ImportOK(c) /\ c.op = "import")
      /\ c.known = {} /\ c.ids = << >>
    BY CallIs DEF New, At, Local, ImportOK
<1>2. d \in Documents /\ drawn' = [drawn EXCEPT !.docs = d] /\ Commit(w, write, after)
    BY DEF New
<1>3. drawn' \in [docs : Nat, chapters : Nat] /\ drawn'.chapters = n
    BY <1>2, IdsAssumption DEF Good
<1>4. write \in Writes(o, n)
    <2>1. << >> \in Seq(Chapters) /\ IdsIn(<< >>) = {}
        BY EmptySeq DEF IdsIn
    <2>2. write \in [kind : {"document new", "document changed"}, doc : Documents, title : Titles,
                     owner : Accounts, list : Seq(Chapters)] /\ write.list = << >>
        BY <1>1, <1>2, <2>1
    <2> HIDE DEF write
    <2> QED BY <2>1, <2>2 DEF Writes, DocWrites
<1>5. CallOK(o, n, after)
    <2>1. CASE c.op = "create"
        <3> DEFINE r == [c EXCEPT !.at = "meta"]
        <3>1. DOMAIN r = Fields /\ r.at = "meta" /\ r.owner = c.owner /\ r.op = c.op /\ r.title = c.title /\ r.ids = c.ids
            BY <1>1 DEF Fields
        <3>2. after = r
            BY <2>1
        <3> HIDE DEF r, c, n, after
        <3> QED BY <1>1, <2>1, <3>1, <3>2 DEF CallOK, Local
    <2>2. CASE c.op = "import"
        <3> DEFINE at == IF c.writeBack THEN "meta" ELSE "walk"
                   r == [c EXCEPT !.doc = d, !.at = at]
        <3>1. at \in {"meta", "walk"} /\ after = r
            BY <2>2
        <3> HIDE DEF at, d
        <3>2. /\ DOMAIN r = Fields /\ r.at = at /\ r.owner = c.owner /\ r.op = c.op /\ r.title = c.title /\ r.ids = c.ids
              /\ r.doc = d /\ r.known = c.known /\ r.place = c.place /\ r.dir = c.dir
            BY <1>1 DEF Fields
        <3> HIDE DEF r, c, n, after
        <3> QED BY <1>1, <1>2, <2>2, <3>1, <3>2 DEF CallOK, Local, ImportOK, KnownOK
    <2> QED BY <1>1, <2>1, <2>2
<1>6. UNCHANGED trees
    BY DEF New
<1> HIDE DEF write, after
<1> QED BY <1>2, <1>3, <1>4, <1>5, <1>6, CommitStep

LEMMA UpdateGood ==
    ASSUME NEW o \in Origins, Good(o), NEW w \in Workers, Update(w)
    PROVE  Good(o)'
<1> DEFINE c == call[w]
           n == drawn.chapters
           write == [kind |-> "document changed", doc |-> c.doc, title |-> c.title, owner |-> c.owner, list |-> c.list]
           at == IF c.title = c.old THEN "meta" ELSE "rename"
           after == [c EXCEPT !.at = at]
<1>1. /\ c.at = "commit" /\ DOMAIN c = Fields /\ c.owner \in Accounts
      /\ ListOK(o, n, c) /\ c.op = "update" /\ c.old \in Titles /\ c.title \in Titles /\ c.ids = << >>
    BY CallIs DEF Update, At, Local
<1>2. Commit(w, write, after) /\ UNCHANGED <<trees, drawn>>
    BY DEF Update
<1>3. drawn' \in [docs : Nat, chapters : Nat] /\ drawn'.chapters = n
    BY <1>2 DEF Good
<1>4. write \in Writes(o, n)
    <2>1. write \in [kind : {"document new", "document changed"}, doc : Documents, title : Titles,
                     owner : Accounts, list : Seq(Chapters)] /\ write.list = c.list /\ write.doc = c.doc
        BY <1>1 DEF ListOK
    <2> HIDE DEF write, c
    <2> QED BY <1>1, <2>1 DEF Writes, DocWrites, ListOK
<1>5. CallOK(o, n, after)
    <2>1. at \in {"meta", "rename"}
        OBVIOUS
    <2> HIDE DEF at
    <2>2. /\ DOMAIN after = Fields /\ after.at = at /\ after.owner = c.owner /\ after.op = c.op
          /\ after.title = c.title /\ after.old = c.old /\ after.ids = c.ids
        BY <1>1 DEF Fields
    <2> HIDE DEF after, c, n
    <2> QED BY <1>1, <2>1, <2>2 DEF CallOK, Local
<1> HIDE DEF write, after
<1> QED BY <1>2, <1>3, <1>4, <1>5, CommitStep

LEMMA RenameGood ==
    ASSUME NEW o \in Origins, Good(o), NEW w \in Workers, Rename(w)
    PROVE  Good(o)'
<1> DEFINE c == call[w]
           n == drawn.chapters
           x == <<c.owner, c.old>>
           y == <<c.owner, c.title>>
<1>1. /\ c.at = "rename" /\ DOMAIN c = Fields /\ c.owner \in Accounts
      /\ c.op = "update" /\ c.old \in Titles /\ c.title \in Titles /\ c.ids = << >>
    BY CallIs DEF Rename, At, Local
<1>2. x \in Places \X Titles /\ y \in Places \X Titles
    BY <1>1, AccountsArePlaces
<1>3. TreesOK(o, n, trees')
    <2>1. CASE HasTree(c.owner, c.old) /\ ~HasTree(c.owner, c.title) /\ x \in tracked
        <3> DEFINE tree == trees[x]
                   new == IF tree.meta = NoTitle THEN tree ELSE [tree EXCEPT !.meta = c.title]
                   ts == [trees EXCEPT ![x] = NoTree]
        <3>1. TreeOK(o, n, tree)
            BY <1>2, <2>1 DEF HasTree, Good, TreesOK
        <3>2. TreeOK(o, n, new)
            BY <1>1, <3>1, MetaPut
        <3>3. trees' = [ts EXCEPT ![y] = new]
            BY <2>1 DEF Rename, Renamed
        <3> HIDE DEF new, tree
        <3>4. TreesOK(o, n, ts)
            BY <1>2, PutTree DEF Good
        <3> HIDE DEF ts, y
        <3> QED BY <1>2, <3>2, <3>3, <3>4, PutTree
    <2>2. CASE ~(HasTree(c.owner, c.old) /\ ~HasTree(c.owner, c.title) /\ x \in tracked)
        BY <2>2 DEF Rename, Good
    <2> QED BY <2>1, <2>2
<1>4. Fine(o, n, w)
    <2>1. CASE Done(w, "error")
        BY <2>1, DoneFine
    <2>2. CASE Step(w, "meta")
        <3> DEFINE r == [c EXCEPT !.at = "meta"]
        <3>1. /\ DOMAIN r = Fields /\ r.at = "meta" /\ r.owner = c.owner /\ r.op = c.op /\ r.title = c.title
              /\ r.ids = c.ids
            BY <1>1 DEF Fields
        <3>2. Goto(w, r)
            BY <2>2 DEF Step
        <3> HIDE DEF r, c, n
        <3>3. CallOK(o, n, r)
            BY <1>1, <3>1 DEF CallOK, Local
        <3> QED BY <3>2, <3>3 DEF Fine
    <2> QED BY <2>1, <2>2 DEF Rename
<1> QED BY <1>3, <1>4, CallStep DEF Rename

LEMMA MetaGood ==
    ASSUME NEW o \in Origins, Good(o), NEW w \in Workers, Meta(w)
    PROVE  Good(o)'
<1> DEFINE c == call[w]
           n == drawn.chapters
<1>1. /\ c.at = "meta" /\ DOMAIN c = Fields /\ c.owner \in Accounts /\ c.title \in Titles /\ c.ids = << >>
      /\ c.op = "import" => ImportOK(c) /\ KnownOK(o, n, c) /\ c.place \in Places /\ c.dir \in Titles
    BY CallIs DEF Meta, At, Local, ImportOK
<1>2. TreesOK(o, n, trees) /\ c.owner \in Places
    BY <1>1, AccountsArePlaces DEF Good
<1>3. CASE c.op # "import"
    <2>1. WriteMeta(c.owner, c.title, c.title) /\ (Done(w, "ok") \/ Step(w, "snapshot"))
        BY <1>3 DEF Meta
    <2>2. TreesOK(o, n, trees')
        BY <1>1, <1>2, <2>1, WriteMetaOK
    <2>3. Fine(o, n, w)
        BY <1>1, <2>1, DoneFine, SnapshotFine DEF At
    <2> QED BY <2>2, <2>3, CallStep DEF Meta
<1>4. CASE c.op = "import" /\ ~HasTree(c.place, c.dir)
    <2>1. Done(w, "error") /\ UNCHANGED trees
        BY <1>4 DEF Meta
    <2> QED BY <1>2, <2>1, DoneFine, CallStep DEF Meta
<1>5. CASE c.op = "import" /\ HasTree(c.place, c.dir)
    <2>1. WriteMeta(c.place, c.dir, c.title) /\ Step(w, "walk")
        BY <1>5 DEF Meta
    <2>2. TreesOK(o, n, trees')
        BY <1>1, <1>2, <1>5, <2>1, WriteMetaOK
    <2> DEFINE r == [c EXCEPT !.at = "walk"]
    <2>3. /\ DOMAIN r = Fields /\ r.at = "walk" /\ r.owner = c.owner /\ r.op = c.op /\ r.doc = c.doc
          /\ r.known = c.known /\ r.place = c.place /\ r.dir = c.dir /\ r.ids = c.ids
        BY <1>1 DEF Fields
    <2>4. Goto(w, r)
        BY <2>1 DEF Step
    <2> HIDE DEF r, c, n
    <2>5. CallOK(o, n, r)
        BY <1>1, <1>5, <2>3 DEF CallOK, Local, ImportOK, KnownOK
    <2>6. Fine(o, n, w)
        BY <2>4, <2>5 DEF Fine
    <2> QED BY <2>2, <2>6, CallStep DEF Meta, n
<1> QED BY <1>3, <1>4, <1>5

LEMMA DeleteTreeGood ==
    ASSUME NEW o \in Origins, Good(o), NEW w \in Workers, DeleteTree(w)
    PROVE  Good(o)'
<1> DEFINE c == call[w]
           n == drawn.chapters
           r == [c EXCEPT !.at = "drop"]
<1>1. c.at = "tree" /\ DOMAIN c = Fields /\ c.owner \in Accounts /\ c.old \in Titles /\ c.doc \in Documents
    BY CallIs DEF DeleteTree, At, Local
<1>2. TreesOK(o, n, trees')
    <2>1. c.owner \in Places /\ RemoveTree(c.owner, c.old) /\ TreesOK(o, n, trees)
        BY <1>1, AccountsArePlaces DEF DeleteTree, Good
    <2> QED BY <1>1, <2>1, RemoveTreeOK
<1>3. DOMAIN r = Fields /\ r.at = "drop" /\ r.owner = c.owner /\ r.doc = c.doc
    BY <1>1 DEF Fields
<1>4. Goto(w, r)
    BY DEF DeleteTree, Step
<1>5. Fine(o, n, w)
    <2> HIDE DEF r, c, n
    <2>1. CallOK(o, n, r)
        BY <1>1, <1>3 DEF CallOK, Local
    <2> QED BY <1>4, <2>1 DEF Fine
<1> QED BY <1>2, <1>5, CallStep DEF DeleteTree

LEMMA DeleteGood ==
    ASSUME NEW o \in Origins, Good(o), NEW w \in Workers, Delete(w)
    PROVE  Good(o)'
<1> DEFINE c == call[w]
           n == drawn.chapters
           write == [kind |-> "document deleted", doc |-> c.doc, owner |-> c.owner]
           after == [Idle EXCEPT !.op = c.op, !.answer = "ok"]
<1>1. c.at = "drop" /\ DOMAIN c = Fields /\ c.owner \in Accounts /\ c.doc \in Documents
    BY CallIs DEF Delete, At, Local
<1>2. Commit(w, write, after) /\ UNCHANGED <<trees, drawn>>
    BY DEF Delete
<1>3. drawn' \in [docs : Nat, chapters : Nat] /\ drawn'.chapters = n
    BY <1>2 DEF Good
<1>4. write \in Writes(o, n)
    BY <1>1 DEF Writes, DeleteWrites
<1>5. CallOK(o, n, after)
    BY IdleOK
<1> HIDE DEF write, after
<1> QED BY <1>2, <1>3, <1>4, <1>5, CommitStep

\* The next document of a command, or its end.
LEMMA TurnFine ==
    ASSUME NEW o, Good(o), NEW w \in Workers, ~At(w, "idle"), TodoOK(call[w]), Turn(w)
    PROVE  Fine(o, drawn.chapters, w)
<1> DEFINE c == call[w]
<1>1. c.owner \in Accounts
    BY CallIs DEF At
<1>2. CASE Done(w, "ok")
    BY <1>2, DoneFine
<1>3. CASE Len(c.todo) # 1 /\ Goto(w, [Asked(c.op, "find", c.owner) EXCEPT !.todo = Tail(c.todo), !.lone = c.lone])
    <2> DEFINE b == Asked(c.op, "find", c.owner)
               r == [b EXCEPT !.todo = Tail(c.todo), !.lone = c.lone]
    <2>1. DOMAIN b = Fields /\ b.at = "find" /\ b.owner = c.owner
        BY AskedIs
    <2> HIDE DEF b
    <2>2. DOMAIN r = Fields /\ r.at = "find" /\ r.owner = c.owner /\ r.todo = Tail(c.todo)
        BY <2>1 DEF Fields
    <2>3. Tail(c.todo) \in Seq(Documents) /\ Tail(c.todo) # << >>
        <3>1. Tail(c.todo) \in Seq(Documents) /\ Len(Tail(c.todo)) = Len(c.todo) - 1 /\ Len(c.todo) \in Nat \ {0}
            BY HeadTailProperties, EmptySeq DEF TodoOK
        <3>2. Len(Tail(c.todo)) # 0
            BY <1>3, <3>1
        <3>3. Len(<< >>) = 0
            BY EmptySeq
        <3> QED BY <3>1, <3>2, <3>3
    <2>4. Goto(w, r)
        BY <1>3 DEF b
    <2> HIDE DEF r, c
    <2>5. CallOK(o, drawn.chapters, r)
        BY <1>1, <2>2, <2>3 DEF CallOK, Local, TodoOK
    <2> QED BY <2>4, <2>5 DEF Fine
<1> QED BY <1>2, <1>3 DEF Turn

LEMMA RefusedFine ==
    ASSUME NEW o, Good(o), NEW w \in Workers, ~At(w, "idle"), TodoOK(call[w]), Refused(w)
    PROVE  Fine(o, drawn.chapters, w)
BY TurnFine, DoneFine DEF Refused

LEMMA UnassignedGood ==
    ASSUME NEW o \in Origins, Good(o), NEW w \in Workers, Unassigned(w)
    PROVE  Good(o)'
<1> DEFINE c == call[w]
           n == drawn.chapters
           S == {d \in LiveDocs(graph) : graph.docs[d].owner = Unowned}
<1>1. c.at = "unowned" /\ DOMAIN c = Fields /\ c.owner \in Accounts
    BY CallIs DEF Unassigned, At
<1>2. PICK s \in SetToSeqs(S) :
        IF s = << >> THEN Done(w, "ok") ELSE Goto(w, [c EXCEPT !.todo = s, !.at = "find"])
    BY DEF Unassigned, ListUnowned
<1>3. s \in Seq(Documents)
    <2>1. S \subseteq Documents
        BY DEF LiveDocs
    <2>2. IsFiniteSet(S)
        BY <2>1, IdsAssumption, FS_Subset
    <2> HIDE DEF S
    <2>3. s \in Seq(S)
        BY <2>2, ListedOnce
    <2> QED BY <2>1, <2>3, SeqMonotonic
<1>4. Fine(o, n, w)
    <2>1. CASE Done(w, "ok")
        BY <2>1, DoneFine
    <2>2. CASE s # << >> /\ Goto(w, [c EXCEPT !.todo = s, !.at = "find"])
        <3> DEFINE r == [c EXCEPT !.todo = s, !.at = "find"]
        <3>1. DOMAIN r = Fields /\ r.at = "find" /\ r.owner = c.owner /\ r.todo = s
            BY <1>1 DEF Fields
        <3>2. Goto(w, r)
            BY <2>2
        <3> HIDE DEF r, c, n
        <3>3. CallOK(o, n, r)
            BY <1>1, <1>3, <2>2, <3>1 DEF CallOK, Local, TodoOK
        <3> QED BY <3>2, <3>3 DEF Fine
    <2> QED BY <1>2, <2>1, <2>2
<1> QED BY <1>4, CallStep DEF Unassigned, Good

LEMMA FindGood ==
    ASSUME NEW o \in Origins, Good(o), NEW w \in Workers, Find(w)
    PROVE  Good(o)'
<1> DEFINE c == call[w]
           n == drawn.chapters
           d == Head(c.todo)
           doc == graph.docs[d]
<1>1. c.at = "find" /\ DOMAIN c = Fields /\ c.owner \in Accounts /\ TodoOK(c)
    BY CallIs DEF Find, At, Local
<1>2. Fine(o, n, w)
    <2>1. CASE Turn(w) \/ Refused(w)
        BY <1>1, <2>1, TurnFine, RefusedFine DEF At
    <2>2. CASE /\ d \in LiveDocs(graph)
               /\ Goto(w, [c EXCEPT !.old = doc.title, !.source = Located(doc.owner, doc.title),
                                    !.at = IF Located(doc.owner, doc.title) = NoTree THEN "stamp" ELSE "copy"])
        <3> DEFINE source == Located(doc.owner, doc.title)
                   at == IF source = NoTree THEN "stamp" ELSE "copy"
                   old == doc.title
                   r == [c EXCEPT !.old = old, !.source = source, !.at = at]
        <3>1. doc \in Document
            BY <2>2 DEF LiveDocs, Good, GraphOK, Graph
        <3>2. old \in Titles /\ source \in Accounts \cup {Flat, NoTree}
            BY <3>1 DEF Document, Located
        <3>3. at \in {"stamp", "copy"} /\ (at = "copy" => source # NoTree)
            OBVIOUS
        <3>4. Goto(w, r)
            BY <2>2
        <3> HIDE DEF source, at, old
        <3>5. /\ DOMAIN r = Fields /\ r.at = at /\ r.owner = c.owner /\ r.todo = c.todo
              /\ r.old = old /\ r.source = source
            BY <1>1 DEF Fields
        <3> HIDE DEF r, c, n
        <3>6. CallOK(o, n, r)
            BY <1>1, <3>2, <3>3, <3>5 DEF CallOK, Local, TodoOK, SourceOK
        <3> QED BY <3>4, <3>6 DEF Fine
    <2> QED BY <2>1, <2>2 DEF Find, Summary
<1> QED BY <1>2, CallStep DEF Find, Good

LEMMA AdoptGood ==
    ASSUME NEW o \in Origins, Good(o), NEW w \in Workers, Adopt(w)
    PROVE  Good(o)'
<1> DEFINE c == call[w]
           n == drawn.chapters
<1>1. /\ c.at = "copy" /\ DOMAIN c = Fields /\ c.owner \in Accounts /\ SourceOK(c)
      /\ TodoOK(c) /\ c.old \in Titles /\ c.source \in Accounts \cup {Flat}
    BY CallIs DEF Adopt, At, Local, SourceOK
<1>2. <<c.owner, c.old>> \in Places \X Titles /\ <<c.source, c.old>> \in Places \X Titles
    BY <1>1, AccountsArePlaces
<1>3. CASE ~HasTree(c.source, c.old)
    <2> DEFINE r == [c EXCEPT !.at = "stamp"]
    <2>1. Goto(w, r) /\ UNCHANGED trees
        BY <1>3 DEF Adopt, Step
    <2>2. /\ DOMAIN r = Fields /\ r.at = "stamp" /\ r.owner = c.owner /\ r.todo = c.todo
          /\ r.old = c.old /\ r.source = c.source
        BY <1>1 DEF Fields
    <2> HIDE DEF r, c, n
    <2>3. CallOK(o, n, r)
        BY <1>1, <2>2 DEF CallOK, Local, TodoOK, SourceOK
    <2>4. Fine(o, n, w)
        BY <2>1, <2>3 DEF Fine
    <2> QED BY <2>1, <2>4, CallStep DEF Adopt, Good, n
<1>4. CASE HasTree(c.source, c.old) /\ HasTree(c.owner, c.old)
    <2>1. Refused(w) /\ UNCHANGED trees
        BY <1>4 DEF Adopt, AdoptOnto
    <2>2. Fine(o, n, w)
        BY <1>1, <2>1, RefusedFine DEF At
    <2> QED BY <2>1, <2>2, CallStep DEF Adopt, Good
<1>5. CASE HasTree(c.source, c.old) /\ ~HasTree(c.owner, c.old)
    <2> DEFINE tree == trees[<<c.source, c.old>>]
               left == FilesIn(tree)
               at == IF left = {} THEN "adopted" ELSE "copying"
               r == [c EXCEPT !.left = left, !.at = at]
               new == [EmptyTree EXCEPT !.meta = tree.meta]
    <2>1. Goto(w, r) /\ trees' = [trees EXCEPT ![<<c.owner, c.old>>] = new]
        BY <1>5 DEF Adopt
    <2>2. TreeOK(o, n, tree)
        BY <1>2, <1>5 DEF HasTree, Good, TreesOK
    <2>3. TreeOK(o, n, new)
        <3>1. EmptyTree \in Tree /\ tree.meta \in Titles \cup {NoTitle}
            BY <2>2, EmptyTreeOK DEF TreeOK, Tree
        <3>2. new \in Tree /\ new.files = EmptyTree.files
            BY <3>1 DEF Tree
        <3> HIDE DEF new
        <3> QED BY <3>2, EmptyTreeOK DEF TreeOK, FilesIn
    <2>4. TreesOK(o, n, trees')
        <3> HIDE DEF new
        <3> QED BY <1>2, <2>1, <2>3, PutTree DEF Good
    <2>5. left \subseteq Paths /\ at \in {"adopted", "copying"}
        BY DEF FilesIn
    <2> HIDE DEF left, at
    <2>6. /\ DOMAIN r = Fields /\ r.at = at /\ r.owner = c.owner /\ r.todo = c.todo
          /\ r.old = c.old /\ r.source = c.source /\ r.left = left
        BY <1>1 DEF Fields
    <2> HIDE DEF r, c, n
    <2>7. CallOK(o, n, r)
        BY <1>1, <2>5, <2>6 DEF CallOK, Local, TodoOK, SourceOK
    <2>8. Fine(o, n, w)
        BY <2>1, <2>7 DEF Fine
    <2> QED BY <2>4, <2>8, CallStep DEF Adopt, n
<1> QED BY <1>3, <1>4, <1>5

LEMMA CopyFileGood ==
    ASSUME NEW o \in Origins, Good(o), NEW w \in Workers, CopyFile(w)
    PROVE  Good(o)'
<1> DEFINE c == call[w]
           n == drawn.chapters
<1>1. /\ c.at = "copying" /\ DOMAIN c = Fields /\ c.owner \in Accounts /\ SourceOK(c)
      /\ TodoOK(c) /\ c.old \in Titles /\ c.source \in Accounts \cup {Flat} /\ c.left \subseteq Paths
    BY CallIs DEF CopyFile, At, Local, SourceOK
<1>2. c.owner \in Places /\ c.source \in Places /\ <<c.source, c.old>> \in Places \X Titles
    BY <1>1, AccountsArePlaces
<1>3. CASE Done(w, "error") /\ UNCHANGED trees
    BY <1>3, DoneFine, CallStep DEF CopyFile, Good
<1>4. CASE ~(Done(w, "error") /\ UNCHANGED trees)
    <2> DEFINE tree == trees[<<c.source, c.old>>]
    <2>1. PICK path \in c.left :
            /\ HasTree(c.source, c.old) /\ path \in FilesIn(tree)
            /\ WriteFile(c.owner, c.old, path, tree.files[path])
            /\ Goto(w, [c EXCEPT !.left = c.left \ {path}, !.at = IF c.left = {path} THEN "adopted" ELSE "copying"])
        BY <1>4 DEF CopyFile
    <2> DEFINE at == IF c.left = {path} THEN "adopted" ELSE "copying"
               left == c.left \ {path}
               r == [c EXCEPT !.left = left, !.at = at]
    <2>2. Goto(w, r)
        BY <2>1
    <2>3. TreeOK(o, n, tree)
        BY <1>2, <2>1 DEF HasTree, Good, TreesOK
    <2>4. path \in Paths /\ tree.files[path] \in File /\ FileOK(o, n, path, tree.files[path])
        BY <1>1, <2>1, <2>3 DEF TreeOK, Tree, FilesIn
    <2>5. TreesOK(o, n, trees')
        <3> HIDE DEF tree
        <3> QED BY <1>1, <1>2, <2>1, <2>4, WriteFileOK DEF Good
    <2>6. left \subseteq Paths /\ at \in {"adopted", "copying"}
        BY <1>1
    <2> HIDE DEF left, at
    <2>7. /\ DOMAIN r = Fields /\ r.at = at /\ r.owner = c.owner /\ r.todo = c.todo
          /\ r.old = c.old /\ r.source = c.source /\ r.left = left
        BY <1>1 DEF Fields
    <2> HIDE DEF r, c, n
    <2>8. CallOK(o, n, r)
        BY <1>1, <2>6, <2>7 DEF CallOK, Local, TodoOK, SourceOK
    <2>9. Fine(o, n, w)
        BY <2>2, <2>8 DEF Fine
    <2> QED BY <2>5, <2>9, CallStep DEF CopyFile, n
<1> QED BY <1>3, <1>4

LEMMA AdoptedGood ==
    ASSUME NEW o \in Origins, Good(o), NEW w \in Workers, Adopted(w)
    PROVE  Good(o)'
<1> DEFINE c == call[w]
           n == drawn.chapters
           r == [c EXCEPT !.at = "stamp"]
<1>1. /\ c.at = "adopted" /\ DOMAIN c = Fields /\ c.owner \in Accounts /\ TodoOK(c)
      /\ c.source # NoTree => SourceOK(c)
    BY CallIs DEF Adopted, At, Local
<1>2. /\ DOMAIN r = Fields /\ r.at = "stamp" /\ r.owner = c.owner /\ r.todo = c.todo
      /\ r.old = c.old /\ r.source = c.source
    BY <1>1 DEF Fields
<1>3. Goto(w, r)
    BY DEF Adopted, Step
<1> HIDE DEF r, c, n
<1>4. CallOK(o, n, r)
    BY <1>1, <1>2 DEF CallOK, Local, TodoOK, SourceOK
<1>5. Fine(o, n, w)
    BY <1>3, <1>4 DEF Fine
<1> QED BY <1>5, CallStep DEF Adopted, Good, n

\* A new owner, which no title refuses.
LEMMA StampGood ==
    ASSUME NEW o \in Origins, Good(o), NEW w \in Workers, Stamp(w)
    PROVE  Good(o)'
<1> DEFINE c == call[w]
           n == drawn.chapters
           d == Head(c.todo)
           h == [graph EXCEPT !.docs[d].owner = c.owner]
<1>1. /\ c.at = "stamp" /\ DOMAIN c = Fields /\ c.owner \in Accounts /\ TodoOK(c)
      /\ c.source # NoTree => SourceOK(c)
    BY CallIs DEF Stamp, At, Local
<1>2. Fine(o, n, w)
    <2>1. CASE Refused(w) \/ Turn(w)
        BY <1>1, <2>1, RefusedFine, TurnFine DEF At
    <2>2. CASE Done(w, "error")
        BY <2>2, DoneFine
    <2>3. CASE c.source # NoTree /\ Step(w, "remove")
        <3> DEFINE r == [c EXCEPT !.at = "remove"]
        <3>1. /\ DOMAIN r = Fields /\ r.at = "remove" /\ r.owner = c.owner /\ r.todo = c.todo
              /\ r.old = c.old /\ r.source = c.source
            BY <1>1 DEF Fields
        <3>2. Goto(w, r)
            BY <2>3 DEF Step
        <3> HIDE DEF r, c, n
        <3>3. CallOK(o, n, r)
            BY <1>1, <2>3, <3>1 DEF CallOK, Local, TodoOK, SourceOK
        <3> QED BY <3>2, <3>3 DEF Fine
    <2> QED BY <2>1, <2>2, <2>3 DEF Stamp
<1>3. GraphOK(o, n, graph') /\ Unique(graph')
    <2>1. CASE UNCHANGED graph
        BY <2>1 DEF Good
    <2>2. CASE graph' = h /\ d \in LiveDocs(graph) /\ Unique(h)
        <3>1. graph \in Graph /\ GraphOK(o, n, graph)
            BY DEF Good, GraphOK
        <3>2. d \in Documents /\ graph.docs[d] \in Document
            BY <2>2, <3>1 DEF LiveDocs, Graph
        <3> DEFINE doc == [graph.docs[d] EXCEPT !.owner = c.owner]
        <3>3. doc \in Document /\ doc # NoDocument
            <4>1. doc \in Document
                BY <1>1, <3>2 DEF Document
            <4> QED BY <4>1, SentinelsAssumption
        <3>4. h = [graph EXCEPT !.docs = [graph.docs EXCEPT ![d] = doc]]
            BY <3>1 DEF Graph
        <3> HIDE DEF doc, h
        <3>5. h \in Graph /\ h.chapters = graph.chapters /\ h.docs = [graph.docs EXCEPT ![d] = doc]
            BY <3>1, <3>2, <3>3, <3>4 DEF Graph
        <3>6. LiveDocs(h) = LiveDocs(graph)
            BY <2>2, <3>1, <3>3, <3>5 DEF LiveDocs, Graph
        <3>7. GraphOK(o, n, h)
            BY <3>1, <3>5, <3>6 DEF GraphOK, LiveChaps
        <3> QED BY <2>2, <3>7
    <2> QED BY <2>1, <2>2 DEF Stamp
<1> QED BY <1>2, <1>3 DEF Stamp, Good, CallsOK, Fine, Goto

LEMMA RemoveSourceGood ==
    ASSUME NEW o \in Origins, Good(o), NEW w \in Workers, RemoveSource(w)
    PROVE  Good(o)'
<1> DEFINE c == call[w]
           n == drawn.chapters
<1>1. /\ c.at = "remove" /\ TodoOK(c) /\ c.old \in Titles /\ c.source \in Accounts \cup {Flat}
    BY CallIs DEF RemoveSource, At, Local, SourceOK
<1>2. TreesOK(o, n, trees')
    <2>1. c.source \in Places /\ RemoveTree(c.source, c.old) /\ TreesOK(o, n, trees)
        BY <1>1, AccountsArePlaces DEF RemoveSource, Good
    <2> QED BY <1>1, <2>1, RemoveTreeOK
<1>3. Fine(o, n, w)
    BY <1>1, TurnFine DEF RemoveSource, At
<1> QED BY <1>2, <1>3, CallStep DEF RemoveSource

LEMMA CrashGood ==
    ASSUME NEW o \in Origins, Good(o), NEW w \in Workers, Crash(w)
    PROVE  Good(o)'
<1>1. CallOK(o, drawn.chapters, Idle)
    BY IdleOK DEF CallOK
<1>2. Fine(o, drawn.chapters, w)
    BY <1>1 DEF Crash, Fine
<1>3. held' \in Seq(Writes(o, drawn.chapters))
    BY EmptySeq DEF Crash, Good
<1> QED BY <1>2, <1>3 DEF Crash, Good, CallsOK, Fine, Goto

\* A set of naturals has a least one.
LEMMA LeastIn ==
    ASSUME NEW S \in SUBSET Nat, S # {}
    PROVE  Min(S) \in S
<1>1. IsWellFoundedOn(OpToRel(<, Nat), Nat)
    BY NatLessThanWellFounded
<1>2. PICK x \in S : \A y \in S : ~(<<y, x>> \in OpToRel(<, Nat))
    BY <1>1, WFMin
<1>3. \A y \in S : x <= y
    <2> SUFFICES ASSUME NEW y \in S PROVE x <= y
        OBVIOUS
    <2>1. x \in Nat /\ y \in Nat
        OBVIOUS
    <2>2. ~(y < x)
        BY <1>2, <2>1 DEF OpToRel
    <2> QED BY <2>1, <2>2
<1> QED BY <1>3 DEF Min

LEMMA ResolveGood ==
    ASSUME NEW o \in Origins, Good(o), NEW w \in Workers, Resolve(w)
    PROVE  Good(o)'
<1> DEFINE c == call[w]
           n == drawn.chapters
           title == TitleIn(c.place, c.dir)
           matches == {d \in Held(c.owner) : SameKey(graph.docs[d].title, title)}
<1>1. /\ c.at = "resolve" /\ DOMAIN c = Fields /\ c.owner \in Accounts /\ ImportOK(c)
      /\ c.op = "import" /\ c.place \in Places /\ c.dir \in Titles /\ c.known = {} /\ c.ids = << >>
    BY CallIs DEF Resolve, At, Local, ImportOK
<1>2. Fine(o, n, w)
    <2>1. CASE Done(w, "error")
        BY <2>1, DoneFine
    <2>2. title \in Titles
        <3>1. TreeOK(o, n, TreeAt(c.place, c.dir)) /\ <<c.place, c.dir>> \in Places \X Titles
            BY <1>1, TreeAtOK DEF Good
        <3>2. TreeAt(c.place, c.dir).meta \in Titles \cup {NoTitle}
            BY <3>1 DEF TreeOK, Tree
        <3>3. ~HasTree(c.place, c.dir) => TreeAt(c.place, c.dir).meta = NoTitle
            BY EmptyTreeOK DEF TreeAt
        <3> QED BY <1>1, <3>2, <3>3 DEF TitleIn, TreeAt
    <2>3. CASE Goto(w, [c EXCEPT !.title = title, !.at = "new"])
        <3> DEFINE r == [c EXCEPT !.title = title, !.at = "new"]
        <3>1. Goto(w, r)
            BY <2>3
        <3> HIDE DEF title
        <3>2. /\ DOMAIN r = Fields /\ r.at = "new" /\ r.owner = c.owner /\ r.op = c.op /\ r.title = title
              /\ r.place = c.place /\ r.dir = c.dir /\ r.known = c.known /\ r.ids = c.ids
            BY <1>1 DEF Fields
        <3> HIDE DEF r, c, n
        <3>3. CallOK(o, n, r)
            BY <1>1, <2>2, <3>2 DEF CallOK, Local, ImportOK
        <3> QED BY <3>1, <3>3 DEF Fine
    <2>4. CASE matches # {} /\ Goto(w, [c EXCEPT !.title = title, !.doc = Min(matches), !.at = "shell"])
        <3> DEFINE d == Min(matches)
                   r == [c EXCEPT !.title = title, !.doc = d, !.at = "shell"]
        <3>1. d \in Documents
            <4>1. matches \in SUBSET Documents /\ matches \in SUBSET Nat
                BY IdsAssumption DEF Held
            <4> HIDE DEF matches
            <4> QED BY <2>4, <4>1, LeastIn
        <3>2. Goto(w, r)
            BY <2>4
        <3> HIDE DEF d, matches, title
        <3>3. /\ DOMAIN r = Fields /\ r.at = "shell" /\ r.owner = c.owner /\ r.op = c.op /\ r.doc = d /\ r.title = title
              /\ r.place = c.place /\ r.dir = c.dir /\ r.known = c.known /\ r.ids = c.ids
            BY <1>1 DEF Fields
        <3> HIDE DEF r, c, n
        <3>4. CallOK(o, n, r)
            BY <1>1, <2>2, <3>1, <3>3 DEF CallOK, Local, ImportOK
        <3> QED BY <3>2, <3>4 DEF Fine
    <2> QED BY <2>1, <2>3, <2>4 DEF Resolve
<1> QED BY <1>2, CallStep DEF Resolve, Good

LEMMA LoadShellGood ==
    ASSUME NEW o \in Origins, Good(o), NEW w \in Workers, LoadShell(w)
    PROVE  Good(o)'
<1> DEFINE c == call[w]
           n == drawn.chapters
           d == c.doc
<1>1. /\ c.at = "shell" /\ DOMAIN c = Fields /\ c.owner \in Accounts /\ ImportOK(c) /\ d \in Documents
      /\ c.op = "import" /\ c.place \in Places /\ c.dir \in Titles /\ c.title \in Titles /\ c.known = {} /\ c.ids = << >>
    BY CallIs DEF LoadShell, At, Local, ImportOK
<1>2. CASE Goto(w, [c EXCEPT !.known = Shell(d), !.at = "walk"])
    <2> DEFINE known == Shell(d)
               r == [c EXCEPT !.known = known, !.at = "walk"]
    <2>1. Goto(w, r)
        BY <1>2
    <2>2. known \subseteq Chapters /\ \A x \in known : x <= n /\ o[x].doc = d
        <3> HIDE DEF d
        <3> QED BY DEF Shell, In, LiveChaps, Good, GraphOK, NodeOK
    <2> HIDE DEF known
    <2>3. /\ DOMAIN r = Fields /\ r.at = "walk" /\ r.owner = c.owner /\ r.op = c.op /\ r.doc = d
          /\ r.place = c.place /\ r.dir = c.dir /\ r.known = known /\ r.ids = c.ids
        BY <1>1 DEF Fields
    <2> HIDE DEF r, c, n
    <2>4. CallOK(o, n, r)
        BY <1>1, <2>2, <2>3 DEF CallOK, Local, ImportOK, KnownOK
    <2> QED BY <2>1, <2>4, CallStep DEF LoadShell, Good, Fine, n
<1>3. CASE Step(w, "new")
    <2> DEFINE r == [c EXCEPT !.at = "new"]
    <2>1. Goto(w, r)
        BY <1>3 DEF Step
    <2>2. /\ DOMAIN r = Fields /\ r.at = "new" /\ r.owner = c.owner /\ r.op = c.op /\ r.title = c.title
          /\ r.place = c.place /\ r.dir = c.dir /\ r.known = c.known /\ r.ids = c.ids
        BY <1>1 DEF Fields
    <2> HIDE DEF r, c, n
    <2>3. CallOK(o, n, r)
        BY <1>1, <2>2 DEF CallOK, Local, ImportOK
    <2> QED BY <2>1, <2>3, CallStep DEF LoadShell, Good, Fine, n
<1> QED BY <1>2, <1>3 DEF LoadShell

\* What is read of a directory are files of it, each once and in order.
LEMMA WalkIs ==
    ASSUME NEW tree \in Tree, NEW walk \in Walks(FilesIn(tree))
    PROVE  /\ walk.files \in Seq(Paths) /\ IdsIn(walk.files) \subseteq FilesIn(tree)
           /\ walk.whole => IdsIn(walk.files) = FilesIn(tree)
           /\ \A i, j \in 1 .. Len(walk.files) :
                i < j => walk.files[i] # walk.files[j] /\ Precedes(walk.files[i], walk.files[j])
<1> DEFINE S == FilesIn(tree)
           bad(s) == {i \in 1 .. Len(s) : Raises(s, i)}
<1>1. PICK s \in Orders(S) :
        walk = [files |-> IF bad(s) = {} THEN s ELSE SubSeq(s, 1, Min(bad(s)) - 1), whole |-> bad(s) = {}]
    BY DEF Walks
<1>2. S \subseteq Paths /\ IsFiniteSet(S)
    <2>1. S \subseteq Paths
        BY DEF FilesIn
    <2> QED BY <2>1, PathsFinite, FS_Subset
<1> HIDE DEF S
<1>3. /\ s \in Seq(S) /\ IdsIn(s) = S /\ Len(s) \in Nat
      /\ \A i, j \in 1 .. Len(s) : i < j => s[i] # s[j] /\ Precedes(s[i], s[j])
    <2>1. s \in SetToSeqs(S) /\ \A i, j \in 1 .. Len(s) : i < j => Precedes(s[i], s[j])
        BY <1>1 DEF Orders
    <2>2. s \in Seq(S) /\ IdsIn(s) = S /\ Len(s) \in Nat /\ \A i, j \in 1 .. Len(s) : i # j => s[i] # s[j]
        BY <1>2, <2>1, ListedOnce
    <2> QED BY <2>1, <2>2
<1>4. CASE bad(s) = {}
    <2>1. walk.files = s
        BY <1>1, <1>4
    <2> QED BY <1>2, <1>3, <2>1, SeqMonotonic DEF S
<1>5. CASE bad(s) # {}
    <2> DEFINE m == Min(bad(s))
    <2>1. m \in 1 .. Len(s)
        <3>1. bad(s) \in SUBSET (1 .. Len(s))
            OBVIOUS
        <3> HIDE DEF bad
        <3>2. m \in bad(s)
            BY <1>3, <1>5, <3>1, MinMax
        <3> QED BY <3>1, <3>2
    <2>2. walk.files = SubSeq(s, 1, m - 1) /\ ~walk.whole
        BY <1>1, <1>5
    <2> HIDE DEF m, bad
    <2>3. /\ SubSeq(s, 1, m - 1) \in Seq(S) /\ Len(SubSeq(s, 1, m - 1)) = m - 1
          /\ \A i \in 1 .. m - 1 : SubSeq(s, 1, m - 1)[i] = s[i]
        BY <1>3, <2>1, SubSeqProperties
    <2>4. IdsIn(SubSeq(s, 1, m - 1)) \subseteq S
        BY <2>3, ElementOfSeq DEF IdsIn
    <2>5. \A i, j \in 1 .. m - 1 : i < j => s[i] # s[j] /\ Precedes(s[i], s[j])
        BY <1>3, <2>1
    <2> QED BY <1>2, <2>2, <2>3, <2>4, <2>5, SeqMonotonic DEF S
<1> QED BY <1>4, <1>5

LEMMA WalkGood ==
    ASSUME NEW o \in Origins, Good(o), NEW w \in Workers, Walk(w)
    PROVE  Good(o)'
<1> DEFINE c == call[w]
           n == drawn.chapters
<1>1. /\ c.at = "walk" /\ DOMAIN c = Fields /\ c.owner \in Accounts /\ ImportOK(c) /\ KnownOK(o, n, c)
      /\ c.op = "import" /\ c.place \in Places /\ c.dir \in Titles /\ c.ids = << >>
    BY CallIs DEF Walk, At, Local, ImportOK
<1>2. PICK walk \in Walks(FilesIn(TreeAt(c.place, c.dir))) :
        IF walk.files = << >> THEN Done(w, IF walk.whole THEN "ok" ELSE "error")
        ELSE Goto(w, [c EXCEPT !.files = walk.files, !.whole = walk.whole, !.at = "apply"])
    BY DEF Walk
<1>3. walk.files \in Seq(Paths)
    <2>1. TreeAt(c.place, c.dir) \in Tree
        BY <1>1, TreeAtOK DEF Good, TreeOK
    <2> QED BY <2>1, WalkIs
<1>4. Fine(o, n, w)
    <2>1. CASE \E answer : Done(w, answer)
        BY <2>1, DoneFine
    <2>2. CASE walk.files # << >> /\ Goto(w, [c EXCEPT !.files = walk.files, !.whole = walk.whole, !.at = "apply"])
        <3> DEFINE files == walk.files
                   whole == walk.whole
                   r == [c EXCEPT !.files = files, !.whole = whole, !.at = "apply"]
        <3>1. Goto(w, r)
            BY <2>2
        <3>2. files \in Seq(Paths) /\ Len(files) \in Nat \ {0} /\ << >> \in Seq(Chapters) /\ Len(<< >>) = 0
            BY <1>3, <2>2, EmptySeq
        <3> HIDE DEF files, whole
        <3>3. /\ DOMAIN r = Fields /\ r.at = "apply" /\ r.owner = c.owner /\ r.op = c.op /\ r.doc = c.doc
              /\ r.place = c.place /\ r.dir = c.dir /\ r.known = c.known /\ r.ids = c.ids /\ r.files = files
            BY <1>1 DEF Fields
        <3> HIDE DEF r, c, n
        <3>4. CallOK(o, n, r)
            BY <1>1, <3>2, <3>3 DEF CallOK, Local, ImportOK, KnownOK, FilesOK
        <3> QED BY <3>1, <3>4 DEF Fine
    <2> QED BY <1>2, <2>1, <2>2
<1> QED BY <1>4, CallStep DEF Walk, Good

\* After a file, the import has one more chapter of its document.
LEMMA AfterOK ==
    ASSUME NEW o \in Origins, NEW n, NEW w \in Workers, DOMAIN call[w] = Fields, call[w].owner \in Accounts,
           FilesOK(o, n, call[w]), Len(call[w].ids) < Len(call[w].files),
           NEW id \in Chapters, id <= n, o[id].doc = call[w].doc,
           o[id].path = call[w].files[Len(call[w].ids) + 1]
    PROVE  CallOK(o, n, After(w, id))
<1> DEFINE c == call[w]
           ids == Append(c.ids, id)
<1>1. /\ c.files \in Seq(Paths) /\ c.ids \in Seq(Chapters) /\ Len(c.ids) \in Nat /\ Len(c.files) \in Nat
      /\ Len(c.ids) < Len(c.files)
    BY LenProperties DEF FilesOK
<1>2. /\ ids \in Seq(Chapters) /\ Len(ids) = Len(c.ids) + 1 /\ ids[Len(c.ids) + 1] = id
      /\ \A i \in 1 .. Len(c.ids) : ids[i] = c.ids[i]
    BY <1>1, AppendProperties
<1>3. \A i \in 1 .. Len(ids) : /\ ids[i] <= n
                               /\ o[ids[i]].doc = c.doc /\ o[ids[i]].path = c.files[i]
    <2> SUFFICES ASSUME NEW i \in 1 .. Len(ids)
                 PROVE  ids[i] <= n /\ o[ids[i]].doc = c.doc /\ o[ids[i]].path = c.files[i]
        OBVIOUS
    <2> HIDE DEF ids
    <2>1. i \in 1 .. Len(c.ids) \/ i = Len(c.ids) + 1
        BY <1>1, <1>2
    <2>2. CASE i \in 1 .. Len(c.ids)
        BY <1>2, <2>2 DEF FilesOK
    <2>3. CASE i = Len(c.ids) + 1
        BY <1>2, <2>3
    <2> QED BY <2>1, <2>2, <2>3
<1>4. /\ After(w, id) = IF Len(ids) < Len(c.files) THEN [c EXCEPT !.ids = ids, !.at = "apply"]
                        ELSE IF c.whole THEN [c EXCEPT !.ids = ids, !.at = "order"]
                        ELSE [Idle EXCEPT !.op = c.op, !.answer = "error"]
    BY DEF After
<1> HIDE DEF ids
<1>5. ASSUME NEW at \in {"apply", "order"}, at = "apply" => Len(ids) < Len(c.files)
      PROVE  CallOK(o, n, [c EXCEPT !.ids = ids, !.at = at])
    <2> DEFINE r == [c EXCEPT !.ids = ids, !.at = at]
    <2>1. /\ DOMAIN r = Fields /\ r.at = at /\ r.owner = c.owner /\ r.op = c.op /\ r.doc = c.doc
          /\ r.place = c.place /\ r.dir = c.dir /\ r.known = c.known /\ r.ids = ids /\ r.files = c.files
        BY DEF Fields
    <2>2. Len(ids) <= Len(c.files)
        BY <1>1, <1>2
    <2> HIDE DEF r, c
    <2>3. FilesOK(o, n, r)
        BY <1>2, <1>3, <2>1, <2>2 DEF FilesOK, ImportOK, KnownOK, c
    <2>4. CallOK(o, n, r)
        BY <1>5, <2>1, <2>3 DEF CallOK, Local, c
    <2> QED BY <2>4 DEF r, c
<1>6. CASE Len(ids) < Len(c.files)
    BY <1>4, <1>5, <1>6
<1>7. CASE ~(Len(ids) < Len(c.files)) /\ c.whole
    BY <1>4, <1>5, <1>7
<1>8. CASE ~(Len(ids) < Len(c.files)) /\ ~c.whole
    <2>1. \A op, answer : CallOK(o, n, [Idle EXCEPT !.op = op, !.answer = answer])
        BY IdleOK
    <2>2. CallOK(o, n, [Idle EXCEPT !.op = c.op, !.answer = "error"])
        BY <2>1
    <2> QED BY <1>4, <1>8, <2>2
<1> QED BY <1>6, <1>7, <1>8

\* What is good of the ids drawn so far stays good when one more is drawn.
LEMMA FreshWrites ==
    ASSUME NEW o \in Origins, NEW n \in Nat, NEW p \in Origins, \A c \in Chapters : c <= n => p[c] = o[c]
    PROVE  Writes(o, n) \subseteq Writes(p, n + 1)
<1>1. \A c \in Chapters : c <= n => c <= n + 1 /\ p[c] = o[c]
    BY IdsAssumption
<1>2. DocWrites(o, n) \subseteq DocWrites(p, n + 1)
    <2> SUFFICES ASSUME NEW w \in DocWrites(o, n)
                 PROVE  w \in DocWrites(p, n + 1)
        OBVIOUS
    <2>1. \A c \in IdsIn(w.list) : c \in Chapters /\ c <= n /\ o[c].doc = w.doc
        <3>1. w.list \in Seq(Chapters) /\ \A c \in IdsIn(w.list) : c <= n /\ o[c].doc = w.doc
            BY DEF DocWrites
        <3>2. \A i \in 1 .. Len(w.list) : w.list[i] \in Chapters
            BY <3>1, ElementOfSeq
        <3> QED BY <3>1, <3>2 DEF IdsIn
    <2>2. \A c \in IdsIn(w.list) : c <= n + 1 /\ p[c].doc = w.doc
        BY <1>1, <2>1
    <2> QED BY <2>2 DEF DocWrites
<1>3. ChapterWrites(o, n) \subseteq ChapterWrites(p, n + 1)
    <2> SUFFICES ASSUME NEW w \in ChapterWrites(o, n)
                 PROVE  w \in ChapterWrites(p, n + 1)
        OBVIOUS
    <2>1. w.chapter \in Chapters /\ w.chapter <= n
        BY DEF ChapterWrites
    <2>2. w.chapter <= n + 1 /\ p[w.chapter] = o[w.chapter]
        BY <1>1, <2>1
    <2> QED BY <2>2 DEF ChapterWrites
<1> QED BY <1>2, <1>3 DEF Writes

LEMMA FreshCall ==
    ASSUME NEW o \in Origins, NEW n \in Nat, NEW p \in Origins, \A c \in Chapters : c <= n => p[c] = o[c],
           NEW r, CallOK(o, n, r)
    PROVE  CallOK(p, n + 1, r)
<1>1. \A c \in Chapters : c <= n => c <= n + 1 /\ p[c] = o[c]
    BY IdsAssumption
<1> SUFFICES ASSUME r.at # "idle"
             PROVE  Local(p, n + 1, r)
    BY DEF CallOK
<1>2. Local(o, n, r)
    BY DEF CallOK
<1>3. ListOK(o, n, r) => ListOK(p, n + 1, r) /\ \A c \in IdsIn(r.list) : p[c] = o[c]
    BY <1>1, ElementOfSeq DEF ListOK, IdsIn
<1>4. KnownOK(o, n, r) => KnownOK(p, n + 1, r)
    BY <1>1 DEF KnownOK
<1>5. FilesOK(o, n, r) => FilesOK(p, n + 1, r)
    <2> SUFFICES ASSUME FilesOK(o, n, r)
                 PROVE  FilesOK(p, n + 1, r)
        OBVIOUS
    <2>1. \A i \in 1 .. Len(r.ids) : r.ids[i] \in Chapters /\ r.ids[i] <= n
        BY ElementOfSeq DEF FilesOK
    <2>2. \A i \in 1 .. Len(r.ids) : r.ids[i] <= n + 1 /\ p[r.ids[i]] = o[r.ids[i]]
        BY <1>1, <2>1
    <2> QED BY <1>4, <2>2 DEF FilesOK
<1>6. r.new \in Chapters /\ r.new <= n => r.new <= n + 1 /\ p[r.new] = o[r.new]
    BY <1>1
<1> QED BY <1>2, <1>3, <1>4, <1>5, <1>6 DEF Local

LEMMA FreshGood ==
    ASSUME NEW o \in Origins, Good(o), NEW p \in Origins,
           \A c \in Chapters : c <= drawn.chapters => p[c] = o[c]
    PROVE  LET n == drawn.chapters IN
           /\ GraphOK(p, n + 1, graph) /\ TreesOK(p, n + 1, trees) /\ held \in Seq(Writes(p, n + 1))
           /\ CallsOK(p, n + 1)
<1> DEFINE n == drawn.chapters
<1>1. n \in Nat /\ \A c \in Chapters : c <= n => c <= n + 1 /\ p[c] = o[c]
    BY IdsAssumption DEF Good
<1>2. GraphOK(p, n + 1, graph)
    <2>1. \A c \in LiveChaps(graph) : c \in Chapters /\ c <= n
        BY DEF Good, GraphOK, LiveChaps
    <2>2. \A c \in LiveChaps(graph) : c <= n + 1 /\ p[c] = o[c]
        BY <1>1, <2>1
    <2> HIDE DEF n
    <2> QED BY <2>2 DEF Good, GraphOK
<1>3. TreesOK(p, n + 1, trees)
    <2> SUFFICES ASSUME NEW x \in Places \X Titles, trees[x] # NoTree, NEW f \in FilesIn(trees[x])
                 PROVE  FileOK(p, n + 1, f, trees[x].files[f])
        BY DEF Good, TreesOK, TreeOK
    <2> DEFINE file == trees[x].files[f]
    <2>1. FileOK(o, n, f, file) /\ file \in File
        BY DEF Good, TreesOK, TreeOK, Tree, FilesIn
    <2> HIDE DEF file, n
    <2>2. file.id # NoId => file.id \in Chapters
        BY <2>1 DEF File
    <2>3. FileOK(p, n + 1, f, file)
        BY <1>1, <2>1, <2>2 DEF FileOK
    <2> QED BY <2>3 DEF file, n
<1>4. held \in Seq(Writes(p, n + 1))
    <2>1. Writes(o, n) \subseteq Writes(p, n + 1)
        BY <1>1, FreshWrites
    <2> QED BY <2>1, SeqMonotonic DEF Good
<1>5. CallsOK(p, n + 1)
    BY <1>1, FreshCall DEF Good, CallsOK
<1> QED BY <1>2, <1>3, <1>4, <1>5

LEMMA ApplyGood ==
    ASSUME NEW o \in Origins, Good(o), NEW w \in Workers, Apply(w)
    PROVE  Documented'
<1> DEFINE c == call[w]
           n == drawn.chapters
           path == c.files[Len(c.ids) + 1]
           tree == TreeAt(c.place, c.dir)
           file == tree.files[path]
<1>1. /\ c.at = "apply" /\ DOMAIN c = Fields /\ c.owner \in Accounts /\ FilesOK(o, n, c) /\ Len(c.ids) < Len(c.files)
      /\ ImportOK(c) /\ KnownOK(o, n, c) /\ c.op = "import" /\ c.place \in Places /\ c.dir \in Titles
    <2>1. c.at = "apply"
        BY Zenon DEF Apply, At
    <2>2. DOMAIN c = Fields /\ c.owner \in Accounts /\ Local(o, n, c)
        BY <2>1, CallIs, Zenon
    <2> HIDE DEF c, path, tree, file, n
    <2> QED BY <2>1, <2>2 DEF Local, FilesOK, ImportOK
<1>2. path \in Paths
    <2>1. Len(c.ids) \in Nat /\ Len(c.files) \in Nat /\ c.files \in Seq(Paths)
        BY <1>1, LenProperties DEF FilesOK
    <2>2. Len(c.ids) + 1 \in 1 .. Len(c.files)
        BY <1>1, <2>1
    <2> QED BY <2>1, <2>2, ElementOfSeq
<1>3. TreeOK(o, n, tree) /\ n \in Nat
    BY <1>1, TreeAtOK DEF Good
<1>4. file # NoFile => file \in File /\ FileOK(o, n, path, file)
    <2> HIDE DEF tree, path
    <2> QED BY <1>2, <1>3 DEF TreeOK, Tree, FilesIn
<1>5. CASE \E answer : Done(w, answer) /\ UNCHANGED drawn
    <2>1. Good(o)'
        BY <1>5, DoneFine, CallStep DEF Apply, Good
    <2> QED BY <2>1 DEF Documented
<1>6. CASE /\ file # NoFile /\ file.id # NoId /\ ~Mismatch(w, file.id) /\ UNCHANGED drawn
           /\ Goto(w, After(w, file.id)) \/ Goto(w, [c EXCEPT !.new = file.id, !.text = file.text, !.at = "persist"])
    <2>1. file.id \in Chapters /\ file.id <= n /\ o[file.id].path = path /\ o[file.id].text = file.text
        BY <1>4, <1>6, Zenon DEF File, FileOK
    <2>2. file.id \in c.known /\ o[file.id].doc = c.doc
        BY <1>1, <1>6 DEF Mismatch, KnownOK
    <2>3. CallOK(o, n, After(w, file.id))
        <3> DEFINE id == file.id
        <3>1. id \in Chapters /\ id <= n /\ o[id].path = path /\ o[id].doc = c.doc
            BY <2>1, <2>2
        <3> HIDE DEF id
        <3>2. CallOK(o, n, After(w, id))
            BY <1>1, <3>1, AfterOK
        <3> QED BY <3>2 DEF id
    <2>4. CallOK(o, n, [c EXCEPT !.new = file.id, !.text = file.text, !.at = "persist"])
        <3> DEFINE id == file.id
                   text == file.text
                   r == [c EXCEPT !.new = id, !.text = text, !.at = "persist"]
        <3>1. /\ id \in Chapters /\ id <= n /\ o[id].path = path /\ o[id].text = text /\ o[id].doc = c.doc
              /\ text \in Texts \cup {NoText}
            BY <1>4, <1>6, <2>1, <2>2 DEF File
        <3> HIDE DEF id, text
        <3>2. /\ DOMAIN r = Fields /\ r.at = "persist" /\ r.owner = c.owner /\ r.op = c.op /\ r.doc = c.doc
              /\ r.place = c.place /\ r.dir = c.dir /\ r.known = c.known /\ r.ids = c.ids /\ r.files = c.files
              /\ r.new = id /\ r.text = text
            BY <1>1 DEF Fields
        <3>3. o[id] = [doc |-> c.doc, path |-> path, text |-> text]
            BY <3>1 DEF Origins
        <3> HIDE DEF r, n
        <3>4. FilesOK(o, n, r)
            BY <1>1, <3>2 DEF FilesOK, ImportOK, KnownOK
        <3>5. CallOK(o, n, r)
            BY <1>1, <3>1, <3>2, <3>3, <3>4 DEF CallOK, Local
        <3> QED BY <3>5, Zenon DEF r, id, text, n
    <2>5. Fine(o, n, w)
        BY <1>6, <2>3, <2>4, Zenon DEF Fine
    <2>6. Good(o)'
        BY <1>6, <2>5, CallStep DEF Apply, Good
    <2> QED BY <2>6 DEF Documented
<1>7. CASE /\ file # NoFile /\ file.id = NoId /\ n + 1 \in Chapters
           /\ drawn' = [drawn EXCEPT !.chapters = n + 1]
           /\ Goto(w, [c EXCEPT !.new = n + 1, !.text = file.text, !.at = "persist"])
    <2> DEFINE text == file.text
               origin == [doc |-> c.doc, path |-> path, text |-> text]
               m == n + 1
               r == [c EXCEPT !.new = m, !.text = text, !.at = "persist"]
    <2>1. text \in Texts \cup {NoText}
        BY <1>4, <1>7 DEF File
    <2>2. PICK p \in Origins : p[m] = origin /\ \A x \in Chapters : x <= n => p[x] = o[x]
        <3> DEFINE p == [o EXCEPT ![m] = origin]
        <3>1. origin \in [doc : Documents \cup {NoId}, path : Paths \cup {NoPath}, text : Texts \cup {NoText}]
            BY <1>1, <1>2, <2>1 DEF KnownOK
        <3>2. \A x \in Chapters : x <= n => x # n + 1
            BY <1>3, IdsAssumption
        <3> HIDE DEF origin
        <3>3. p \in Origins /\ p[m] = origin /\ \A x \in Chapters : x <= n => p[x] = o[x]
            BY <1>7, <3>1, <3>2 DEF Origins
        <3> QED BY <3>3
    <2>3. GraphOK(p, m, graph) /\ TreesOK(p, m, trees) /\ held \in Seq(Writes(p, m)) /\ CallsOK(p, m)
        BY <2>2, FreshGood
    <2>4. drawn' \in [docs : Nat, chapters : Nat] /\ drawn'.chapters = m
        <3>1. m \in Nat /\ drawn \in [docs : Nat, chapters : Nat] /\ drawn' = [drawn EXCEPT !.chapters = m]
            <4>1. n + 1 \in Nat
                BY <1>3
            <4>2. drawn \in [docs : Nat, chapters : Nat]
                BY DEF Good
            <4> QED BY <1>7, <4>1, <4>2
        <3> HIDE DEF m
        <3> QED BY <3>1
    <2>5. CallOK(p, m, r)
        <3>1. CallOK(p, m, c)
            BY <2>3 DEF CallsOK
        <3>2. FilesOK(p, m, c)
            BY <1>1, <3>1 DEF CallOK, Local
        <3>3. m \in Chapters /\ m <= m
            <4>1. m \in Nat
                BY <1>3
            <4> HIDE DEF m
            <4>2. m <= m
                BY <4>1
            <4> QED BY <1>7, <4>2 DEF m
        <3> HIDE DEF m, text
        <3>4. /\ DOMAIN r = Fields /\ r.at = "persist" /\ r.owner = c.owner /\ r.op = c.op /\ r.doc = c.doc
              /\ r.place = c.place /\ r.dir = c.dir /\ r.known = c.known /\ r.ids = c.ids /\ r.files = c.files
              /\ r.new = m /\ r.text = text
            BY <1>1 DEF Fields
        <3> HIDE DEF r
        <3>5. FilesOK(p, m, r)
            BY <3>2, <3>4 DEF FilesOK, ImportOK, KnownOK
        <3> QED BY <1>1, <2>1, <2>2, <3>3, <3>4, <3>5 DEF CallOK, Local
    <2>6. Goto(w, r) /\ UNCHANGED <<graph, trees, held>>
        BY <1>7 DEF Apply
    <2> HIDE DEF m, r
    <2>7. Good(p)'
        BY <2>3, <2>4, <2>5, <2>6 DEF Good, CallsOK, Goto
    <2> QED BY <2>2, <2>7 DEF Documented
<1> QED BY <1>5, <1>6, <1>7, Zenon DEF Apply

LEMMA PersistGood ==
    ASSUME NEW o \in Origins, Good(o), NEW w \in Workers, Persist(w)
    PROVE  Good(o)'
<1> DEFINE c == call[w]
           n == drawn.chapters
           path == c.files[Len(c.ids) + 1]
           write == [kind |-> "chapter new", doc |-> c.doc, owner |-> c.owner, chapter |-> c.new,
                     path |-> path, text |-> c.text]
           after == IF c.writeBack THEN [c EXCEPT !.at = "back"] ELSE After(w, c.new)
<1>1. /\ c.at = "persist" /\ DOMAIN c = Fields /\ c.owner \in Accounts /\ FilesOK(o, n, c) /\ Len(c.ids) < Len(c.files)
      /\ KnownOK(o, n, c) /\ c.new \in Chapters /\ c.new <= n /\ c.text \in Texts \cup {NoText}
      /\ o[c.new] = [doc |-> c.doc, path |-> path, text |-> c.text]
    <2>1. c.at = "persist" /\ DOMAIN c = Fields /\ c.owner \in Accounts /\ Local(o, n, c)
        BY CallIs DEF Persist, At
    <2> HIDE DEF c, n, path
    <2>2. FilesOK(o, n, c)
        BY <2>1 DEF Local
    <2> QED BY <2>1, <2>2 DEF Local, FilesOK, path
<1>2. path \in Paths
    <2>1. Len(c.ids) \in Nat /\ Len(c.files) \in Nat /\ c.files \in Seq(Paths)
        BY <1>1, LenProperties DEF FilesOK
    <2>2. Len(c.ids) + 1 \in 1 .. Len(c.files)
        BY <1>1, <2>1
    <2> QED BY <2>1, <2>2, ElementOfSeq
<1>3. Commit(w, write, after) /\ UNCHANGED <<trees, drawn>>
    BY DEF Persist
<1>4. drawn' \in [docs : Nat, chapters : Nat] /\ drawn'.chapters = n
    BY <1>3 DEF Good
<1>5. write \in Writes(o, n)
    <2>1. /\ write \in [kind : {"chapter new"}, doc : Documents, owner : Accounts, chapter : Chapters,
                        path : Paths, text : Texts \cup {NoText}]
          /\ write.chapter = c.new /\ write.doc = c.doc /\ write.path = path /\ write.text = c.text
        BY <1>1, <1>2 DEF KnownOK
    <2> HIDE DEF write, path
    <2> QED BY <1>1, <2>1 DEF Writes, ChapterWrites
<1>6. CallOK(o, n, after)
    <2>1. CASE c.writeBack
        <3> DEFINE r == [c EXCEPT !.at = "back"]
        <3>1. /\ DOMAIN r = Fields /\ r.at = "back" /\ r.owner = c.owner /\ r.op = c.op /\ r.doc = c.doc
              /\ r.place = c.place /\ r.dir = c.dir /\ r.known = c.known /\ r.ids = c.ids /\ r.files = c.files
              /\ r.new = c.new /\ r.text = c.text
            BY <1>1 DEF Fields
        <3>2. after = r
            BY <2>1
        <3> HIDE DEF r, n, after
        <3>3. FilesOK(o, n, r)
            BY <1>1, <3>1 DEF FilesOK, ImportOK, KnownOK
        <3> QED BY <1>1, <3>1, <3>2, <3>3 DEF CallOK, Local
    <2>2. CASE ~c.writeBack
        <3> DEFINE id == c.new
        <3>1. id \in Chapters /\ id <= n /\ o[id].path = path /\ o[id].doc = c.doc
            BY <1>1
        <3> HIDE DEF id
        <3>2. CallOK(o, n, After(w, id))
            BY <1>1, <3>1, AfterOK
        <3> QED BY <2>2, <3>2 DEF id
    <2> QED BY <2>1, <2>2
<1> HIDE DEF write, after
<1> QED BY <1>3, <1>4, <1>5, <1>6, CommitStep

LEMMA WriteBackGood ==
    ASSUME NEW o \in Origins, Good(o), NEW w \in Workers, WriteBack(w)
    PROVE  Good(o)'
<1> DEFINE c == call[w]
           n == drawn.chapters
           path == c.files[Len(c.ids) + 1]
           file == [id |-> c.new, text |-> c.text]
<1>1. /\ c.at = "back" /\ DOMAIN c = Fields /\ c.owner \in Accounts /\ FilesOK(o, n, c) /\ Len(c.ids) < Len(c.files)
      /\ ImportOK(c) /\ c.new \in Chapters /\ c.new <= n /\ c.text \in Texts \cup {NoText}
      /\ o[c.new] = [doc |-> c.doc, path |-> path, text |-> c.text] /\ c.place \in Places /\ c.dir \in Titles
    BY CallIs DEF WriteBack, At, Local, FilesOK, ImportOK
<1>2. path \in Paths
    <2>1. Len(c.ids) \in Nat /\ Len(c.files) \in Nat /\ c.files \in Seq(Paths)
        BY <1>1, LenProperties DEF FilesOK
    <2>2. Len(c.ids) + 1 \in 1 .. Len(c.files)
        BY <1>1, <2>1
    <2> QED BY <2>1, <2>2, ElementOfSeq
<1>3. CASE Done(w, "error") /\ UNCHANGED trees
    BY <1>3, DoneFine, CallStep DEF WriteBack, Good
<1>4. CASE WriteFile(c.place, c.dir, path, file) /\ Goto(w, After(w, c.new))
    <2>1. file \in File /\ FileOK(o, n, path, file)
        <3>1. file \in File /\ file.id = c.new /\ file.text = c.text
            BY <1>1 DEF File
        <3>2. o[c.new].path = path /\ o[c.new].text = c.text
            BY <1>1
        <3> HIDE DEF file
        <3> QED BY <1>1, <3>1, <3>2 DEF FileOK
    <2>2. TreesOK(o, n, trees')
        <3> HIDE DEF file, path
        <3> QED BY <1>1, <1>2, <1>4, <2>1, WriteFileOK DEF Good
    <2> DEFINE id == c.new
    <2>3. id \in Chapters /\ id <= n /\ o[id].path = path /\ o[id].doc = c.doc
        BY <1>1
    <2>4. Goto(w, After(w, id))
        BY <1>4
    <2> HIDE DEF id
    <2>5. CallOK(o, n, After(w, id))
        BY <1>1, <2>3, AfterOK
    <2>6. Fine(o, n, w)
        BY <2>4, <2>5 DEF Fine
    <2> QED BY <2>2, <2>6, CallStep DEF WriteBack
<1> QED BY <1>3, <1>4 DEF WriteBack

\* The order of the chapters is no matter of where they came from.
LEMMA OrderGood ==
    ASSUME NEW o \in Origins, Good(o), NEW w \in Workers, Order(w)
    PROVE  Good(o)'
<1> DEFINE c == call[w]
           n == drawn.chapters
           g == graph
           h == Reordered(graph, c.doc, c.ids)
           S == In(g, c.doc) \cap IdsIn(c.ids)
           index(x) == SelectLastInSeq(c.ids, LAMBDA y : y = x) - 1
<1>1. c.at = "order" /\ FilesOK(o, n, c) /\ c.doc \in Documents /\ c.ids \in Seq(Chapters)
    <2>1. c.at = "order" /\ Local(o, n, c)
        BY CallIs DEF Order, At
    <2> HIDE DEF c, n
    <2>2. FilesOK(o, n, c)
        BY <2>1 DEF Local
    <2> QED BY <2>1, <2>2 DEF FilesOK, KnownOK
<1>2. Fine(o, n, w)
    BY DoneFine DEF Order
<1>3. GraphOK(o, n, h) /\ Unique(h)
    <2>1. g \in Graph /\ GraphOK(o, n, g) /\ Unique(g)
        BY DEF Good, GraphOK
    <2>2. h = [g EXCEPT !.chapters = [x \in Chapters |->
                 IF x \in S THEN [g.chapters[x] EXCEPT !.in[c.doc] = index(x)] ELSE g.chapters[x]]]
        BY DEF Reordered
    <2>3. \A x \in S : index(x) \in Nat
        <3> SUFFICES ASSUME NEW x \in S PROVE index(x) \in Nat
            OBVIOUS
        <3>1. SelectLastInSeq(c.ids, LAMBDA y : y = x) \in 1 .. Len(c.ids) /\ Len(c.ids) \in Nat
            BY <1>1, Selected, LenProperties
        <3> QED BY <3>1
    <2>4. S \subseteq In(g, c.doc)
        OBVIOUS
    <2> HIDE DEF h, S, index, g
    <2>5. /\ h.docs = g.docs /\ DOMAIN h = {"docs", "chapters"}
          /\ \A x \in Chapters : h.chapters[x] =
               IF x \in S THEN [g.chapters[x] EXCEPT !.in[c.doc] = index(x)] ELSE g.chapters[x]
          /\ h.chapters = [x \in Chapters |-> h.chapters[x]]
        BY <2>1, <2>2 DEF Graph
    <2>6. ASSUME NEW x \in LiveChaps(g)
          PROVE  /\ h.chapters[x] \in Node /\ Parents(h.chapters[x]) = Parents(g.chapters[x])
                 /\ h.chapters[x].path = g.chapters[x].path /\ h.chapters[x].text = g.chapters[x].text
                 /\ h.chapters[x].home = g.chapters[x].home
        <3>1. g.chapters[x] \in Node /\ x \in Chapters
            BY <2>1 DEF Graph, LiveChaps
        <3>2. CASE x \in S
            <4> DEFINE i == index(x)
                       d == c.doc
            <4>1. i \in Nat /\ d \in Documents /\ h.chapters[x] = [g.chapters[x] EXCEPT !.in[d] = i]
                BY <1>1, <2>3, <2>5, <3>1, <3>2
            <4>2. d \in Parents(g.chapters[x])
                BY <2>4, <3>2 DEF In
            <4> HIDE DEF i, d
            <4>3. /\ h.chapters[x] \in Node /\ Parents(h.chapters[x]) = Parents(g.chapters[x]) \cup {d}
                  /\ h.chapters[x].path = g.chapters[x].path /\ h.chapters[x].text = g.chapters[x].text
                  /\ h.chapters[x].home = g.chapters[x].home
                BY <3>1, <4>1, PutIn
            <4> QED BY <4>2, <4>3
        <3>3. CASE x \notin S
            BY <2>5, <3>1, <3>3
        <3> QED BY <3>2, <3>3
    <2>7. \A x \in Chapters : x \notin LiveChaps(g) => h.chapters[x] = NoChapter
        BY <2>4, <2>5 DEF In, LiveChaps
    <2>8. LiveChaps(h) = LiveChaps(g) /\ LiveDocs(h) = LiveDocs(g)
        <3>1. \A x \in LiveChaps(g) : h.chapters[x] # NoChapter
            BY <2>6, SentinelsAssumption
        <3> QED BY <2>5, <2>7, <3>1 DEF LiveChaps, LiveDocs
    <2>9. h \in Graph
        <3>1. h.chapters \in [Chapters -> Node \cup {NoChapter}]
            <4>1. \A x \in Chapters : h.chapters[x] \in Node \cup {NoChapter}
                BY <2>6, <2>7
            <4> QED BY <2>5, <4>1
        <3>2. h = [docs |-> h.docs, chapters |-> h.chapters]
            <4>1. h = [x \in {"docs", "chapters"} |-> h[x]]
                BY <2>1, <2>2, <2>5 DEF Graph
            <4> QED BY <4>1
        <3> QED BY <2>1, <2>5, <3>1, <3>2 DEF Graph
    <2>10. GraphOK(o, n, h)
        BY <2>1, <2>6, <2>8, <2>9 DEF GraphOK, NodeOK
    <2>11. Unique(h)
        BY <2>1, <2>5, <2>6, <2>8 DEF Unique
    <2> QED BY <2>10, <2>11
<1>4. GraphOK(o, n, graph') /\ Unique(graph')
    <2>1. graph' = h \/ graph' = graph
        BY DEF Order
    <2> HIDE DEF h
    <2> QED BY <1>3, <2>1 DEF Good
<1> QED BY <1>2, <1>4 DEF Order, Good, CallsOK, Fine, Goto

\* Every step keeps some origin good.
LEMMA NextDocumented == Documented /\ [Next]_vars => Documented'
<1> SUFFICES ASSUME Documented, [Next]_vars
             PROVE  Documented'
    OBVIOUS
<1>1. PICK o \in Origins : Good(o)
    BY DEF Documented
<1>2. CASE UNCHANGED vars
    BY <1>1, <1>2 DEF vars, Documented, Good, CallsOK
<1>3. ASSUME NEW w \in Workers, Begin(w) \/ Load(w) \/ Exists(w) \/ Materialize(w) \/ Check(w) \/ New(w)
      PROVE  Documented'
    BY <1>1, <1>3, BeginGood, LoadGood, ExistsGood, MaterializeGood, CheckGood, NewGood DEF Documented
<1>4. ASSUME NEW w \in Workers, Update(w) \/ Rename(w) \/ Meta(w) \/ Snapshot(w) \/ DeleteTree(w) \/ Delete(w)
      PROVE  Documented'
    BY <1>1, <1>4, UpdateGood, RenameGood, MetaGood, SnapshotGood, DeleteTreeGood, DeleteGood DEF Documented
<1>5. ASSUME NEW w \in Workers,
             Unassigned(w) \/ Find(w) \/ Adopt(w) \/ CopyFile(w) \/ Adopted(w) \/ Stamp(w) \/ RemoveSource(w)
      PROVE  Documented'
    BY <1>1, <1>5, UnassignedGood, FindGood, AdoptGood, CopyFileGood, AdoptedGood, StampGood, RemoveSourceGood DEF Documented
<1>6. ASSUME NEW w \in Workers, Resolve(w) \/ LoadShell(w) \/ Walk(w) \/ Persist(w) \/ WriteBack(w) \/ Order(w) \/ Crash(w)
      PROVE  Documented'
    BY <1>1, <1>6, ResolveGood, LoadShellGood, WalkGood, PersistGood, WriteBackGood, OrderGood, CrashGood DEF Documented
<1>7. ASSUME NEW w \in Workers, Apply(w)
      PROVE  Documented'
    BY <1>1, <1>7, ApplyGood
<1> QED BY <1>2, <1>3, <1>4, <1>5, <1>6, <1>7 DEF Next

LEMMA DocumentedImplies == Documented => OneDocumentEach
<1> SUFFICES ASSUME NEW o \in Origins, Good(o)
             PROVE  OneDocumentEach
    BY DEF Documented
<1>1. GraphOK(o, drawn.chapters, graph) /\ trees \in [Places \X Titles -> Tree \cup {NoTree}]
    BY DEF Good, TreesOK
<1>2. ASSUME NEW c \in LiveChaps(graph)
      PROVE  \E d \in LiveDocs(graph) :
               /\ Parents(graph.chapters[c]) = {d}
               /\ graph.chapters[c].home = IF graph.chapters[c].path = NoPath THEN NoId ELSE d
    <2>1. o[c].doc \in LiveDocs(graph) /\ NodeOK(o[c], graph.chapters[c])
        BY <1>1 DEF GraphOK
    <2>2. NoPath \notin Paths
        BY SentinelsAssumption
    <2> QED BY <2>1, <2>2 DEF NodeOK
<1> QED BY <1>1, <1>2 DEF OneDocumentEach, WellFormed, GraphOK, Graph

\* Whatever the two processes do, and wherever they die: every chapter in the
\* graph is part of one document that is there, and has its home in it; no
\* import takes a chapter of another document, whatever ids its files carry,
\* and none is left over where a document goes.  The types are part of it.
THEOREM ChaptersStayInOneDocument == Spec => []OneDocumentEach
<1>1. Init => Documented
    BY InitDocumented
<1>2. Documented /\ [Next]_vars => Documented'
    BY NextDocumented
<1>3. Documented => OneDocumentEach
    BY DocumentedImplies
<1> QED BY <1>1, <1>2, <1>3, PTL DEF Spec

-----------------------------------------------------------------------------
(* Texts are not lost: what a call knows of the trees while it is alone.   *)
(* A call that met no other is the only one there is, so that the trees    *)
(* are as it left them, whatever crashed or failed before.                 *)
-----------------------------------------------------------------------------
There(ts, p, t) == IF ts[<<p, t>>] = NoTree THEN {} ELSE FilesIn(ts[<<p, t>>])

\* The directory of an assignment before and after the copy.
Copied(r, from, to) ==
    from # NoTree => to # NoTree /\ \A p \in Paths : to.files[p] = from.files[p]
Copying(r, from, to) ==
    /\ from # NoTree /\ to # NoTree /\ r.left \subseteq FilesIn(from)
    /\ \A p \in Paths : to.files[p] = IF p \in r.left THEN NoFile ELSE from.files[p]

\* The chapters to materialize have each a file of their own; the file to
\* write back to is the one that was read.
Apart(r) ==
    /\ \A i, j \in 1 .. Len(r.list) : i # j => r.list[i] # r.list[j]
    /\ \A x, y \in IdsIn(r.list) : r.texts[x].path # NoPath /\ r.texts[x].path = r.texts[y].path => x = y
Read(r, ts, path) ==
    path \in There(ts, r.place, r.dir) /\ ts[<<r.place, r.dir>>].files[path].text = r.text

Alone(r, ts) ==
    /\ r.at \in {"exists", "materialize"} => Apart(r)
    /\ r.at = "materialize" => \A x \in IdsIn(r.list) : r.texts[x].path \notin There(ts, r.owner, r.old)
    /\ r.at \in {"copy", "copying", "adopted", "stamp", "remove"} => r.source # r.owner
    /\ r.at = "copying" => Copying(r, ts[<<r.source, r.old>>], ts[<<r.owner, r.old>>])
    /\ r.at \in {"adopted", "stamp", "remove"} /\ r.source # NoTree
         => Copied(r, ts[<<r.source, r.old>>], ts[<<r.owner, r.old>>])
    /\ r.at \in {"persist", "back"} => Read(r, ts, r.files[Len(r.ids) + 1])

LoneInv ==
    \A w \in Workers : call[w].lone /\ ~At(w, "idle") =>
      (\A v \in Workers \ {w} : At(v, "idle")) /\ Alone(call[w], trees)

\* Where nothing is known of the trees.
Plain == {"idle", "load", "check", "new", "commit", "rename", "meta", "snapshot", "tree", "drop", "unowned", "find",
          "resolve", "shell", "walk", "apply", "order"}

LEMMA PlainAlone == \A r, ts : r.at \in Plain => Alone(r, ts)
BY DEF Plain, Alone

LEMMA LoneStep ==
    ASSUME NEW o, Good(o), LoneInv, NEW w \in Workers, ~At(w, "idle"), NEW r, Goto(w, r),
           r.at = "idle" \/ (r.lone => call[w].lone /\ Alone(r, trees'))
    PROVE  LoneInv'
<1>1. call = [v \in Workers |-> call[v]] /\ call' = [call EXCEPT ![w] = r]
    BY DEF Good, CallsOK, Goto
<1>2. \A v \in Workers : call'[v] = IF v = w THEN r ELSE call[v]
    BY <1>1
<1> SUFFICES ASSUME NEW v \in Workers, call'[v].lone, call'[v].at # "idle"
             PROVE  (\A u \in Workers \ {v} : call'[u].at = "idle") /\ Alone(call'[v], trees')
    BY DEF LoneInv, At
<1>3. v = w
    <2> SUFFICES ASSUME v # w PROVE FALSE
        OBVIOUS
    <2>1. call'[v] = call[v]
        BY <1>2
    <2>2. At(w, "idle")
        BY <2>1 DEF LoneInv, At
    <2> QED BY <2>2
<1>4. r.lone /\ r.at # "idle" /\ call[w].lone /\ Alone(r, trees')
    BY <1>2, <1>3
<1>5. \A u \in Workers \ {w} : call[u].at = "idle"
    BY <1>4 DEF LoneInv, At
<1> QED BY <1>2, <1>3, <1>4, <1>5

LEMMA DoneLone ==
    ASSUME NEW o, Good(o), LoneInv, NEW w \in Workers, ~At(w, "idle"), NEW answer, Done(w, answer)
    PROVE  LoneInv'
<1> DEFINE r == [Idle EXCEPT !.op = call[w].op, !.answer = answer]
<1>1. Goto(w, r) /\ r.at = "idle"
    BY DEF Done, Idle
<1> HIDE DEF r
<1> QED BY <1>1, LoneStep

\* A step to where nothing is known.
LEMMA PlainStep ==
    ASSUME NEW o, Good(o), LoneInv, NEW w \in Workers, ~At(w, "idle"), NEW r, Goto(w, r),
           r.at \in Plain, r.lone = call[w].lone
    PROVE  LoneInv'
BY LoneStep, PlainAlone

LEMMA TurnLone ==
    ASSUME NEW o, Good(o), LoneInv, NEW w \in Workers, ~At(w, "idle"), Turn(w)
    PROVE  LoneInv'
<1> DEFINE c == call[w]
           b == Asked(c.op, "find", c.owner)
           r == [b EXCEPT !.todo = Tail(c.todo), !.lone = c.lone]
<1>1. CASE Done(w, "ok")
    BY <1>1, DoneLone
<1>2. CASE Goto(w, r)
    <2>1. DOMAIN b = Fields /\ b.at = "find"
        BY AskedIs
    <2> HIDE DEF b
    <2>2. r.at = "find" /\ r.lone = c.lone
        BY <2>1 DEF Fields
    <2> HIDE DEF r
    <2>3. r.at \in Plain
        BY <2>2 DEF Plain
    <2> QED BY <1>2, <2>2, <2>3, PlainStep
<1> QED BY <1>1, <1>2 DEF Turn

LEMMA RefusedLone ==
    ASSUME NEW o, Good(o), LoneInv, NEW w \in Workers, ~At(w, "idle"), Refused(w)
    PROVE  LoneInv'
BY TurnLone, DoneLone DEF Refused

LEMMA CommitLone ==
    ASSUME NEW o, Good(o), LoneInv, NEW w \in Workers, ~At(w, "idle"), NEW write, NEW after, Commit(w, write, after),
           after.at = "idle" \/ (after.lone => call[w].lone /\ Alone(after, trees'))
    PROVE  LoneInv'
<1>1. Goto(w, after) \/ Done(w, "error")
    BY DEF Commit
<1> QED BY <1>1, LoneStep, DoneLone

\* Where a call starts.
LEMMA AskingAt ==
    ASSUME NEW c \in Requests \cup Commands
    PROVE  DOMAIN c = Fields /\ c.at \in {"load", "check", "resolve", "find", "unowned"} /\ c.answer = "none"
<1>1. ASSUME NEW op, NEW at, NEW a, NEW d, NEW t
      PROVE  /\ About(op, at, a, d, t).at = at /\ DOMAIN About(op, at, a, d, t) = Fields
             /\ About(op, at, a, d, t).answer = "none"
    BY AboutIs
<1>2. \A op, at, a :
        Asked(op, at, a).at = at /\ DOMAIN Asked(op, at, a) = Fields /\ Asked(op, at, a).answer = "none"
    BY AskedIs
<1>3. ASSUME NEW a, NEW p, NEW t
      PROVE  Import(a, p, t).at = "resolve" /\ DOMAIN Import(a, p, t) = Fields /\ Import(a, p, t).answer = "none"
    <2> DEFINE b == Asked("import", "resolve", a)
    <2>1. b.at = "resolve" /\ DOMAIN b = Fields /\ b.answer = "none"
        BY <1>2
    <2>2. Import(a, p, t) = [b EXCEPT !.place = p, !.dir = t, !.writeBack = DefaultWriteBack(p)]
        BY DEF Import
    <2> HIDE DEF b
    <2> QED BY <2>1, <2>2 DEF Fields
<1>4. ASSUME NEW a, NEW d
      PROVE  Assign(a, d).at = "find" /\ DOMAIN Assign(a, d) = Fields /\ Assign(a, d).answer = "none"
    <2> DEFINE b == Asked("assign", "find", a)
    <2>1. b.at = "find" /\ DOMAIN b = Fields /\ b.answer = "none"
        BY <1>2
    <2>2. Assign(a, d) = [b EXCEPT !.todo = <<d>>]
        BY DEF Assign
    <2> HIDE DEF b
    <2> QED BY <2>1, <2>2 DEF Fields
<1>5. \A a : AssignAll(a).at = "unowned" /\ DOMAIN AssignAll(a) = Fields /\ AssignAll(a).answer = "none"
    BY <1>2 DEF AssignAll
<1> QED BY <1>1, <1>3, <1>4, <1>5 DEF Requests, Commands, Uploads, Imports

LEMMA BeginLone ==
    ASSUME NEW o, Good(o), LoneInv, NEW w \in Workers, Begin(w)
    PROVE  LoneInv'
<1> DEFINE others == {u \in Workers \ {w} : ~At(u, "idle")}
           lone == others = {}
           leftover == w = Server /\ held # << >>
<1>1. PICK c \in Requests \cup Commands :
        call' = [v \in Workers |-> IF v = w THEN [c EXCEPT !.lone = lone, !.leftover = leftover]
                                   ELSE IF v \in others THEN [call[v] EXCEPT !.lone = FALSE] ELSE call[v]]
    BY DEF Begin
<1>2. DOMAIN c = Fields /\ c.at \in {"load", "check", "resolve", "find", "unowned"}
    BY AskingAt
<1>3. \A v \in Workers : DOMAIN call[v] = Fields
    BY CallIs
<1> SUFFICES ASSUME NEW v \in Workers, call'[v].lone, call'[v].at # "idle"
             PROVE  (\A u \in Workers \ {v} : call'[u].at = "idle") /\ Alone(call'[v], trees')
    BY DEF LoneInv, At
<1>4. v \in Workers \ {w} => call'[v] = IF v \in others THEN [call[v] EXCEPT !.lone = FALSE] ELSE call[v]
    BY <1>1
<1>5. v = w
    <2> SUFFICES ASSUME v # w PROVE FALSE
        OBVIOUS
    <2> HIDE DEF others
    <2>1. CASE v \in others
        BY <1>3, <1>4, <2>1 DEF Fields
    <2>2. CASE v \notin others
        BY <1>4, <2>2 DEF others, At
    <2> QED BY <2>1, <2>2
<1>6. call'[v] = [c EXCEPT !.lone = lone, !.leftover = leftover]
    BY <1>1, <1>5
<1>7. lone
    <2> HIDE DEF lone, leftover
    <2> QED BY <1>2, <1>6 DEF Fields
<1>8. call'[v].at \in Plain
    <2> HIDE DEF lone, leftover
    <2> QED BY <1>2, <1>6 DEF Fields, Plain
<1>9. ASSUME NEW u \in Workers \ {w}
      PROVE  call'[u] = call[u] /\ call[u].at = "idle"
    <2>1. u \notin others /\ call[u].at = "idle"
        BY <1>7 DEF At
    <2> HIDE DEF others, lone, leftover
    <2> QED BY <1>1, <2>1
<1> QED BY <1>5, <1>8, <1>9, PlainAlone

\* The chapters of a document: each has a file of its own.
LEMMA LoadLone ==
    ASSUME NEW o \in Origins, Good(o), LoneInv, NEW w \in Workers, Load(w)
    PROVE  LoneInv'
<1> DEFINE c == call[w]
<1>1. c.at = "load" /\ DOMAIN c = Fields /\ c.doc \in Documents /\ c.op \in {"open", "update", "delete"}
    BY CallIs DEF Load, At, Local
<1>2. CASE \E answer : Done(w, answer)
    BY <1>1, <1>2, DoneLone DEF At
<1>3. CASE ~\E answer : Done(w, answer)
    <2>1. PICK s \in ChapterList(c.doc) :
            Goto(w, [c EXCEPT !.old = graph.docs[c.doc].title, !.list = s,
                              !.texts = [x \in IdsIn(s) |-> graph.chapters[x]],
                              !.at = CASE c.op = "open" -> "exists" [] c.op = "update" -> "commit"
                                       [] c.op = "delete" -> "tree"])
        BY <1>3 DEF Load
    <2> DEFINE at == CASE c.op = "open" -> "exists" [] c.op = "update" -> "commit" [] c.op = "delete" -> "tree"
               texts == [x \in IdsIn(s) |-> graph.chapters[x]]
               old == graph.docs[c.doc].title
               r == [c EXCEPT !.old = old, !.list = s, !.texts = texts, !.at = at]
    <2>2. Goto(w, r)
        BY <2>1
    <2>3. at \in {"exists", "commit", "tree"}
        <3>1. c.op = "open" => at = "exists"
            OBVIOUS
        <3>2. c.op = "update" => at = "commit"
            OBVIOUS
        <3>3. c.op = "delete" => at = "tree"
            OBVIOUS
        <3> QED BY <1>1, <3>1, <3>2, <3>3
    <2>4. \A x \in IdsIn(s) : texts[x] = graph.chapters[x]
        OBVIOUS
    <2> HIDE DEF at, texts, old
    <2>5. r.at = at /\ r.list = s /\ r.texts = texts /\ r.lone = c.lone
        BY <1>1 DEF Fields
    <2> DEFINE d == c.doc
    <2>6. /\ \A i, j \in 1 .. Len(s) : i # j => s[i] # s[j]
          /\ \A x \in IdsIn(s) : x \in LiveChaps(graph) /\ o[x].doc = d /\ NodeOK(o[x], graph.chapters[x])
        BY <1>1, ListedOK
    <2>7. d # NoId /\ Unique(graph)
        BY <1>1, IdsAssumption DEF Good
    <2> HIDE DEF r, c, d
    <2>8. \A x \in IdsIn(s) : graph.chapters[x].path # NoPath => graph.chapters[x].home = d
        BY <2>6 DEF NodeOK
    <2>9. \A x, y \in IdsIn(s) : texts[x].path # NoPath /\ texts[x].path = texts[y].path => x = y
        BY <2>4, <2>6, <2>7, <2>8 DEF Unique
    <2>10. Apart(r)
        BY <2>5, <2>6, <2>9 DEF Apart
    <2>11. Alone(r, trees')
        BY <2>3, <2>5, <2>10 DEF Alone
    <2> QED BY <1>1, <2>2, <2>5, <2>11, LoneStep DEF At, c
<1> QED BY <1>2, <1>3

LEMMA SnapshotLone ==
    ASSUME NEW o \in Origins, Good(o), LoneInv, NEW w \in Workers, ~At(w, "idle"), Step(w, "snapshot")
    PROVE  LoneInv'
<1> DEFINE c == call[w]
           r == [c EXCEPT !.at = "snapshot"]
<1>1. DOMAIN c = Fields
    BY CallIs DEF At
<1>2. r.at \in Plain /\ r.lone = c.lone
    BY <1>1 DEF Fields, Plain
<1>3. Goto(w, r)
    BY DEF Step
<1> HIDE DEF r
<1> QED BY <1>2, <1>3, PlainStep

LEMMA ExistsLone ==
    ASSUME NEW o \in Origins, Good(o), LoneInv, NEW w \in Workers, Exists(w)
    PROVE  LoneInv'
<1> DEFINE c == call[w]
           x == <<c.owner, c.old>>
<1>1. c.at = "exists" /\ DOMAIN c = Fields /\ c.owner \in Accounts /\ c.old \in Titles
    BY CallIs DEF Exists, At, Local
<1>2. CASE Done(w, "ok")
    BY <1>1, <1>2, DoneLone DEF At
<1>4. CASE Step(w, "snapshot")
    BY <1>1, <1>4, SnapshotLone DEF At
<1>3. CASE Step(w, "materialize") /\ ~HasTree(c.owner, c.old)
    <2> DEFINE r == [c EXCEPT !.at = "materialize"]
               tree == [EmptyTree EXCEPT !.meta = c.old]
    <2>1. Goto(w, r)
        BY <1>3 DEF Step
    <2>2. r.at = "materialize" /\ r.owner = c.owner /\ r.old = c.old /\ r.list = c.list /\ r.texts = c.texts
          /\ r.lone = c.lone
        BY <1>1 DEF Fields
    <2>3. trees' = [trees EXCEPT ![x] = tree] /\ x \in Places \X Titles /\ x \in DOMAIN trees
        BY <1>1, <1>3, AccountsArePlaces DEF Exists, WriteMeta, TreeAt, Good, TreesOK
    <2>4. FilesIn(tree) = {}
        <3>1. tree.files = EmptyTree.files
            BY DEF EmptyTree
        <3> HIDE DEF tree
        <3> QED BY <3>1, EmptyTreeOK DEF FilesIn
    <2> HIDE DEF tree
    <2>5. There(trees', c.owner, c.old) = {}
        BY <2>3, <2>4 DEF There
    <2> HIDE DEF r, c, x
    <2>6. c.lone => Alone(r, trees')
        <3> SUFFICES ASSUME c.lone PROVE Alone(r, trees')
            OBVIOUS
        <3>1. Alone(c, trees)
            BY <1>1 DEF LoneInv, At, c
        <3>2. Apart(r)
            BY <1>1, <2>2, <3>1 DEF Alone, Apart
        <3> QED BY <2>2, <2>5, <3>2 DEF Alone
    <2> QED BY <1>1, <2>1, <2>2, <2>6, LoneStep DEF At, c
<1> QED BY <1>2, <1>3, <1>4 DEF Exists

LEMMA MaterializeLone ==
    ASSUME NEW o \in Origins, Good(o), LoneInv, NEW w \in Workers, Materialize(w)
    PROVE  LoneInv'
<1> DEFINE c == call[w]
           x == <<c.owner, c.old>>
           e == Head(c.list)
           path == c.texts[e].path
<1>1. c.at = "materialize" /\ DOMAIN c = Fields /\ c.owner \in Accounts /\ c.old \in Titles
      /\ c.list \in Seq(Chapters) /\ c.list # << >>
      /\ \A y \in IdsIn(c.list) : c.texts[y] \in Node
    BY CallIs DEF Materialize, At, Local, ListOK
<1>2. CASE \E answer : Done(w, answer)
    BY <1>1, <1>2, DoneLone DEF At
<1>3. CASE path # NoPath /\ Goto(w, [c EXCEPT !.list = Tail(@)])
    <2> DEFINE r == [c EXCEPT !.list = Tail(c.list)]
               file == [id |-> e, text |-> c.texts[e].text]
    <2>1. Goto(w, r)
        BY <1>3
    <2>2. /\ r.at = "materialize" /\ r.owner = c.owner /\ r.old = c.old /\ r.list = Tail(c.list)
          /\ r.texts = c.texts /\ r.lone = c.lone
        BY <1>1 DEF Fields
    <2>3. /\ Tail(c.list) \in Seq(Chapters) /\ Len(Tail(c.list)) = Len(c.list) - 1 /\ Len(c.list) \in Nat \ {0}
          /\ \A i \in 1 .. Len(Tail(c.list)) : Tail(c.list)[i] = c.list[i + 1]
          /\ e = c.list[1]
        <3>1. Len(c.list) \in Nat \ {0}
            BY <1>1, EmptySeq
        <3> QED BY <1>1, <3>1, HeadTailProperties
    <2>4. e \in IdsIn(c.list)
        BY <2>3 DEF IdsIn
    <2>5. There(trees', c.owner, c.old) \subseteq There(trees, c.owner, c.old) \cup {path}
        <3> DEFINE tree == TreeAt(c.owner, c.old)
                   new == [tree EXCEPT !.files[path] = file]
        <3>1. x \in Places \X Titles /\ TreeOK(o, drawn.chapters, tree) /\ trees \in [Places \X Titles -> Tree \cup {NoTree}]
            BY <1>1, AccountsArePlaces, TreeAtOK DEF Good, TreesOK
        <3>2. tree \in Tree
            BY <3>1 DEF TreeOK
        <3>3. trees' = [trees EXCEPT ![x] = new]
            BY <1>3 DEF Materialize, WriteFile
        <3>4. new.files = [tree.files EXCEPT ![path] = file]
            BY <3>2 DEF Tree
        <3>5. FilesIn(tree) = There(trees, c.owner, c.old)
            BY EmptyTreeOK DEF TreeAt, There, HasTree
        <3> HIDE DEF new, tree, file
        <3>6. FilesIn(new) \subseteq FilesIn(tree) \cup {path}
            BY <3>2, <3>4 DEF FilesIn, Tree
        <3>7. trees'[x] = new
            BY <3>1, <3>3
        <3> HIDE DEF path
        <3> QED BY <3>5, <3>6, <3>7 DEF There
    <2> HIDE DEF r
    <2>6. c.lone => Alone(r, trees')
        <3> SUFFICES ASSUME c.lone PROVE Alone(r, trees')
            OBVIOUS
        <3>1. Alone(c, trees)
            BY <1>1 DEF LoneInv, At
        <3> HIDE DEF c
        <3>2. Apart(c) /\ \A y \in IdsIn(c.list) : c.texts[y].path \notin There(trees, c.owner, c.old)
            BY <1>1, <3>1 DEF Alone
        <3>3. \A y \in IdsIn(r.list) : y \in IdsIn(c.list) /\ y # e
            BY <2>2, <2>3, <3>2 DEF IdsIn, Apart
        <3>4. Apart(r)
            <4>1. \A i \in 1 .. Len(r.list) : i + 1 \in 1 .. Len(c.list) /\ r.list[i] = c.list[i + 1]
                BY <2>2, <2>3
            <4>2. \A i, j \in 1 .. Len(r.list) : i # j => r.list[i] # r.list[j]
                <5> SUFFICES ASSUME NEW i \in 1 .. Len(r.list), NEW j \in 1 .. Len(r.list), i # j
                             PROVE  r.list[i] # r.list[j]
                    OBVIOUS
                <5>1. i + 1 # j + 1
                    OBVIOUS
                <5> QED BY <3>2, <4>1, <5>1 DEF Apart
            <4> QED BY <2>2, <3>2, <3>3, <4>2 DEF Apart
        <3>5. \A y \in IdsIn(r.list) : c.texts[y].path # path
            BY <1>3, <2>4, <3>2, <3>3 DEF Apart
        <3> HIDE DEF path
        <3>6. \A y \in IdsIn(r.list) : c.texts[y].path \notin There(trees', c.owner, c.old)
            BY <2>5, <3>2, <3>3, <3>5
        <3> QED BY <2>2, <3>4, <3>6 DEF Alone
    <2> QED BY <1>1, <2>1, <2>2, <2>6, LoneStep DEF At
<1>4. CASE Step(w, "snapshot")
    BY <1>1, <1>4, SnapshotLone DEF At
<1> QED BY <1>2, <1>3, <1>4 DEF Materialize

LEMMA FindLone ==
    ASSUME NEW o \in Origins, Good(o), LoneInv, NEW w \in Workers, Find(w)
    PROVE  LoneInv'
<1> DEFINE c == call[w]
           d == Head(c.todo)
           doc == graph.docs[d]
           source == Located(doc.owner, doc.title)
           at == IF source = NoTree THEN "stamp" ELSE "copy"
           old == doc.title
           r == [c EXCEPT !.old = old, !.source = source, !.at = at]
<1>1. c.at = "find" /\ DOMAIN c = Fields /\ c.owner \in Accounts
    BY CallIs DEF Find, At, Local
<1>2. CASE Turn(w) \/ Refused(w)
    BY <1>1, <1>2, TurnLone, RefusedLone DEF At
<1>3. CASE ~(Turn(w) \/ Refused(w))
    <2>1. Goto(w, r) /\ doc.owner # c.owner
        BY <1>3 DEF Find, Summary
    <2>2. source # c.owner
        BY <1>1, <2>1, PlacesAssumption DEF Located
    <2>3. at \in {"stamp", "copy"} /\ (at = "stamp" => source = NoTree)
        OBVIOUS
    <2> HIDE DEF source, at, old, doc
    <2>4. r.at = at /\ r.owner = c.owner /\ r.source = source /\ r.lone = c.lone
        BY <1>1 DEF Fields
    <2> HIDE DEF r, c
    <2>5. Alone(r, trees')
        BY <2>2, <2>3, <2>4 DEF Alone
    <2> QED BY <1>1, <2>1, <2>4, <2>5, LoneStep DEF At, c
<1> QED BY <1>2, <1>3

LEMMA AdoptLone ==
    ASSUME NEW o \in Origins, Good(o), LoneInv, NEW w \in Workers, Adopt(w)
    PROVE  LoneInv'
<1> DEFINE c == call[w]
           x == <<c.source, c.old>>
           y == <<c.owner, c.old>>
           tree == trees[x]
           left == FilesIn(tree)
           at == IF left = {} THEN "adopted" ELSE "copying"
           new == [EmptyTree EXCEPT !.meta = tree.meta]
<1>1. /\ c.at = "copy" /\ DOMAIN c = Fields /\ c.owner \in Accounts /\ c.old \in Titles
      /\ c.source \in Accounts \cup {Flat}
    BY CallIs DEF Adopt, At, Local, SourceOK
<1>2. x \in Places \X Titles /\ y \in Places \X Titles /\ trees \in [Places \X Titles -> Tree \cup {NoTree}]
    BY <1>1, AccountsArePlaces DEF Good, TreesOK
<1>3. c.lone => c.source # c.owner
    BY <1>1 DEF LoneInv, Alone, At
<1>4. CASE ~HasTree(c.source, c.old)
    <2> DEFINE r == [c EXCEPT !.at = "stamp"]
    <2>1. Goto(w, r) /\ UNCHANGED trees
        BY <1>4 DEF Adopt, Step
    <2>2. r.at = "stamp" /\ r.owner = c.owner /\ r.old = c.old /\ r.source = c.source /\ r.lone = c.lone
        BY <1>1 DEF Fields
    <2>3. trees[x] = NoTree
        BY <1>4 DEF HasTree
    <2> HIDE DEF r
    <2>4. c.lone => Alone(r, trees')
        BY <1>3, <2>1, <2>2, <2>3 DEF Alone, Copied
    <2> QED BY <1>1, <2>1, <2>2, <2>4, LoneStep DEF At
<1>5. CASE HasTree(c.source, c.old) /\ HasTree(c.owner, c.old)
    <2>1. Refused(w)
        BY <1>5 DEF Adopt, AdoptOnto
    <2> QED BY <1>1, <2>1, RefusedLone DEF At
<1>6. CASE HasTree(c.source, c.old) /\ ~HasTree(c.owner, c.old)
    <2> DEFINE r == [c EXCEPT !.left = left, !.at = at]
    <2>1. Goto(w, r) /\ trees' = [trees EXCEPT ![y] = new]
        BY <1>6 DEF Adopt
    <2>2. tree \in Tree
        BY <1>2, <1>6 DEF HasTree
    <2>3. new # NoTree /\ \A p \in Paths : new.files[p] = NoFile
        <3>1. EmptyTree \in Tree /\ tree.meta \in Titles \cup {NoTitle}
            BY <2>2, EmptyTreeOK DEF TreeOK, Tree
        <3>2. new \in Tree /\ new.files = EmptyTree.files
            BY <3>1 DEF Tree
        <3> HIDE DEF new
        <3> QED BY <3>2, SentinelsAssumption DEF EmptyTree
    <2>4. at \in {"adopted", "copying"} /\ (at = "adopted" => left = {}) /\ left = {p \in Paths : tree.files[p] # NoFile}
        BY DEF FilesIn
    <2>6. tree # NoTree
        BY <1>6 DEF HasTree
    <2>7. x # y => trees'[x] = tree /\ trees'[y] = new
        <3> HIDE DEF new
        <3> QED BY <1>2, <2>1
    <2> HIDE DEF left, at, new, tree
    <2>5. /\ r.at = at /\ r.owner = c.owner /\ r.old = c.old /\ r.source = c.source /\ r.lone = c.lone /\ r.left = left
        BY <1>1 DEF Fields
    <2> HIDE DEF r
    <2>8. c.lone => Alone(r, trees')
        <3> SUFFICES ASSUME c.lone PROVE Alone(r, trees')
            OBVIOUS
        <3>1. trees'[x] = tree /\ trees'[y] = new
            BY <1>3, <2>7
        <3>2. Copying(r, tree, new)
            BY <2>3, <2>4, <2>5, <2>6 DEF Copying, FilesIn
        <3>3. at = "adopted" => Copied(r, tree, new)
            BY <2>3, <2>4, <2>6 DEF Copied
        <3> HIDE DEF c
        <3> QED BY <1>3, <2>4, <2>5, <3>1, <3>2, <3>3 DEF Alone
    <2> QED BY <1>1, <2>1, <2>5, <2>8, LoneStep DEF At
<1> QED BY <1>4, <1>5, <1>6

LEMMA CopyFileLone ==
    ASSUME NEW o \in Origins, Good(o), LoneInv, NEW w \in Workers, CopyFile(w)
    PROVE  LoneInv'
<1> DEFINE c == call[w]
           x == <<c.source, c.old>>
           y == <<c.owner, c.old>>
           from == trees[x]
           to == trees[y]
<1>1. /\ c.at = "copying" /\ DOMAIN c = Fields /\ c.owner \in Accounts /\ c.old \in Titles
      /\ c.source \in Accounts \cup {Flat} /\ c.left \subseteq Paths
    BY CallIs DEF CopyFile, At, Local, SourceOK
<1>2. x \in Places \X Titles /\ y \in Places \X Titles /\ trees \in [Places \X Titles -> Tree \cup {NoTree}]
    BY <1>1, AccountsArePlaces DEF Good, TreesOK
<1>3. CASE Done(w, "error")
    BY <1>1, <1>3, DoneLone DEF At
<1>4. CASE ~Done(w, "error")
    <2>1. PICK path \in c.left :
            /\ HasTree(c.source, c.old) /\ path \in FilesIn(from) /\ HasTree(c.owner, c.old)
            /\ WriteFile(c.owner, c.old, path, from.files[path])
            /\ Goto(w, [c EXCEPT !.left = c.left \ {path}, !.at = IF c.left = {path} THEN "adopted" ELSE "copying"])
        BY <1>4 DEF CopyFile
    <2> DEFINE at == IF c.left = {path} THEN "adopted" ELSE "copying"
               left == c.left \ {path}
               r == [c EXCEPT !.left = left, !.at = at]
               file == from.files[path]
               new == [to EXCEPT !.files[path] = file]
    <2>2. Goto(w, r) /\ trees' = [trees EXCEPT ![y] = new]
        BY <2>1 DEF WriteFile, TreeAt
    <2>3. at \in {"adopted", "copying"} /\ (at = "adopted" => left = {}) /\ left = c.left \ {path}
        OBVIOUS
    <2>4. from \in Tree /\ to \in Tree /\ from # NoTree
        BY <1>2, <2>1 DEF HasTree
    <2>5. path \in Paths /\ file \in File
        BY <1>1, <2>1, <2>4 DEF FilesIn, Tree
    <2>6. new \in Tree /\ new.files = [to.files EXCEPT ![path] = file]
        <3> HIDE DEF file, to
        <3> QED BY <2>4, <2>5 DEF Tree
    <2>7. new # NoTree /\ \A p \in Paths : new.files[p] = IF p = path THEN from.files[path] ELSE to.files[p]
        <3> HIDE DEF new
        <3>1. to.files \in [Paths -> File \cup {NoFile}]
            BY <2>4 DEF Tree
        <3> QED BY <2>5, <2>6, <3>1, SentinelsAssumption
    <2> HIDE DEF left, at, new
    <2>8. /\ r.at = at /\ r.owner = c.owner /\ r.old = c.old /\ r.source = c.source /\ r.lone = c.lone /\ r.left = left
        BY <1>1 DEF Fields
    <2> HIDE DEF r
    <2>9. c.lone => Alone(r, trees')
        <3> SUFFICES ASSUME c.lone PROVE Alone(r, trees')
            OBVIOUS
        <3>1. c.source # c.owner /\ Copying(c, from, to)
            BY <1>1 DEF LoneInv, Alone, At
        <3>2. trees'[x] = from /\ trees'[y] = new
            BY <1>2, <2>2, <3>1
        <3> HIDE DEF from, to, c
        <3>3. Copying(r, from, new)
            BY <2>1, <2>3, <2>4, <2>7, <2>8, <3>1 DEF Copying
        <3>4. at = "adopted" => Copied(r, from, new)
            BY <2>1, <2>3, <2>4, <2>7, <3>1 DEF Copied, Copying
        <3> QED BY <2>3, <2>8, <3>1, <3>2, <3>3, <3>4 DEF Alone
    <2> QED BY <1>1, <2>2, <2>8, <2>9, LoneStep DEF At
<1> QED BY <1>3, <1>4

LEMMA AdoptedLone ==
    ASSUME NEW o \in Origins, Good(o), LoneInv, NEW w \in Workers, Adopted(w)
    PROVE  LoneInv'
<1> DEFINE c == call[w]
           r == [c EXCEPT !.at = "stamp"]
<1>1. c.at = "adopted" /\ DOMAIN c = Fields /\ ~At(w, "idle") /\ trees' = trees
    BY CallIs DEF Adopted, At
<1>2. r.at = "stamp" /\ r.owner = c.owner /\ r.old = c.old /\ r.source = c.source /\ r.lone = c.lone
    BY <1>1 DEF Fields
<1>3. Goto(w, r)
    BY DEF Adopted, Step
<1>4. c.lone => Alone(c, trees)
    BY <1>1 DEF LoneInv
<1> HIDE DEF r, c
<1>5. r.lone => Alone(r, trees')
    BY <1>1, <1>2, <1>4 DEF Alone, Copied
<1> QED BY <1>1, <1>2, <1>3, <1>5, LoneStep DEF c

LEMMA StampLone ==
    ASSUME NEW o \in Origins, Good(o), LoneInv, NEW w \in Workers, Stamp(w)
    PROVE  LoneInv'
<1> DEFINE c == call[w]
<1>1. c.at = "stamp" /\ DOMAIN c = Fields /\ ~At(w, "idle")
    BY CallIs DEF Stamp, At
<1>2. CASE Refused(w) \/ Turn(w) \/ Done(w, "error")
    BY <1>1, <1>2, RefusedLone, TurnLone, DoneLone
<1>3. CASE c.source # NoTree /\ Step(w, "remove")
    <2> DEFINE r == [c EXCEPT !.at = "remove"]
    <2>1. Goto(w, r) /\ UNCHANGED trees
        BY <1>3 DEF Stamp, Step
    <2>2. r.at = "remove" /\ r.owner = c.owner /\ r.old = c.old /\ r.source = c.source /\ r.lone = c.lone
        BY <1>1 DEF Fields
    <2> HIDE DEF r
    <2>3. c.lone => Alone(r, trees')
        <3> SUFFICES ASSUME c.lone PROVE Alone(r, trees')
            OBVIOUS
        <3>1. c.source # c.owner /\ Copied(c, trees[<<c.source, c.old>>], trees[<<c.owner, c.old>>])
            BY <1>1, <1>3 DEF LoneInv, Alone, At
        <3> HIDE DEF c
        <3> QED BY <2>1, <2>2, <3>1 DEF Alone, Copied
    <2> QED BY <1>1, <2>1, <2>2, <2>3, LoneStep
<1> QED BY <1>2, <1>3 DEF Stamp

LEMMA AfterAt ==
    ASSUME NEW w \in Workers, DOMAIN call[w] = Fields, NEW id
    PROVE  \/ After(w, id).at = "idle"
           \/ /\ After(w, id).at \in {"apply", "order"} /\ After(w, id).lone = call[w].lone
              /\ After(w, id).leftover = call[w].leftover /\ After(w, id).answer = call[w].answer
<1> DEFINE c == call[w]
           ids == Append(c.ids, id)
<1>1. \/ After(w, id) = [c EXCEPT !.ids = ids, !.at = "apply"]
      \/ After(w, id) = [c EXCEPT !.ids = ids, !.at = "order"]
      \/ After(w, id) = [Idle EXCEPT !.op = c.op, !.answer = "error"]
    BY DEF After
<1> HIDE DEF ids
<1>2. [Idle EXCEPT !.op = c.op, !.answer = "error"].at = "idle"
    BY DEF Idle
<1> QED BY <1>1, <1>2 DEF Fields

LEMMA AfterLone ==
    ASSUME NEW o, Good(o), LoneInv, NEW w \in Workers, ~At(w, "idle"), NEW id, Goto(w, After(w, id))
    PROVE  LoneInv'
<1> DEFINE r == After(w, id)
<1>1. r.at = "idle" \/ (r.at \in {"apply", "order"} /\ r.lone = call[w].lone)
    BY CallIs, AfterAt
<1> HIDE DEF r
<1>2. r.at \in Plain
    BY <1>1 DEF Plain
<1> QED BY <1>1, <1>2, LoneStep, PlainAlone DEF r

LEMMA ApplyLone ==
    ASSUME NEW o \in Origins, Good(o), LoneInv, NEW w \in Workers, Apply(w)
    PROVE  LoneInv'
<1> DEFINE c == call[w]
           path == c.files[Len(c.ids) + 1]
           file == TreeAt(c.place, c.dir).files[path]
<1>1. /\ c.at = "apply" /\ DOMAIN c = Fields /\ ~At(w, "idle")
      /\ c.files \in Seq(Paths) /\ Len(c.ids) \in Nat /\ Len(c.ids) < Len(c.files)
    <2>1. c.at = "apply" /\ DOMAIN c = Fields /\ ~At(w, "idle") /\ Local(o, drawn.chapters, c)
        BY CallIs DEF Apply, At
    <2> HIDE DEF c
    <2> QED BY <2>1, LenProperties DEF Local, FilesOK
<1>2. path \in Paths
    <2>1. Len(c.ids) + 1 \in 1 .. Len(c.files)
        BY <1>1, LenProperties
    <2> QED BY <1>1, <2>1, ElementOfSeq
<1>3. CASE (\E answer : Done(w, answer)) \/ (\E id : Goto(w, After(w, id)))
    BY <1>1, <1>3, DoneLone, AfterLone
<1>4. CASE file # NoFile /\ \E id : Goto(w, [c EXCEPT !.new = id, !.text = file.text, !.at = "persist"])
    <2>1. PICK id : Goto(w, [c EXCEPT !.new = id, !.text = file.text, !.at = "persist"])
        BY <1>4, Zenon
    <2> DEFINE text == file.text
               r == [c EXCEPT !.new = id, !.text = text, !.at = "persist"]
    <2>2. Goto(w, r) /\ UNCHANGED trees
        BY <2>1 DEF Apply
    <2>3. HasTree(c.place, c.dir) /\ path \in There(trees, c.place, c.dir)
          /\ trees[<<c.place, c.dir>>].files[path].text = text
        <3>1. HasTree(c.place, c.dir)
            BY <1>2, <1>4 DEF TreeAt, EmptyTree
        <3>2. TreeAt(c.place, c.dir) = trees[<<c.place, c.dir>>] /\ trees[<<c.place, c.dir>>] # NoTree
            BY <3>1 DEF TreeAt, HasTree
        <3> HIDE DEF path
        <3> QED BY <1>2, <1>4, <3>1, <3>2 DEF There, FilesIn
    <2> HIDE DEF text
    <2>4. /\ r.at = "persist" /\ r.place = c.place /\ r.dir = c.dir /\ r.files = c.files /\ r.ids = c.ids
          /\ r.text = text /\ r.lone = c.lone
        BY <1>1 DEF Fields
    <2> HIDE DEF r
    <2>5. Read(r, trees', r.files[Len(r.ids) + 1])
        <3> HIDE DEF c
        <3> QED BY <2>2, <2>3, <2>4 DEF Read
    <2>6. Alone(r, trees')
        BY <2>4, <2>5 DEF Alone
    <2> QED BY <1>1, <2>2, <2>4, <2>6, LoneStep
<1> QED BY <1>3, <1>4 DEF Apply

LEMMA PersistLone ==
    ASSUME NEW o \in Origins, Good(o), LoneInv, NEW w \in Workers, Persist(w)
    PROVE  LoneInv'
<1> DEFINE c == call[w]
           back == [c EXCEPT !.at = "back"]
<1>1. c.at = "persist" /\ DOMAIN c = Fields /\ ~At(w, "idle") /\ UNCHANGED trees
    BY CallIs DEF Persist, At
<1>2. Done(w, "error") \/ Goto(w, back) \/ \E id : Goto(w, After(w, id))
    <2>1. PICK write : Commit(w, write, IF c.writeBack THEN back ELSE After(w, c.new))
        BY DEF Persist
    <2> QED BY <2>1 DEF Commit
<1>3. CASE Goto(w, back)
    <2>1. /\ back.at = "back" /\ back.place = c.place /\ back.dir = c.dir /\ back.files = c.files /\ back.ids = c.ids
          /\ back.text = c.text /\ back.lone = c.lone
        BY <1>1 DEF Fields
    <2> HIDE DEF back
    <2>2. c.lone => Alone(back, trees')
        <3> SUFFICES ASSUME c.lone PROVE Alone(back, trees')
            OBVIOUS
        <3>1. Read(c, trees, c.files[Len(c.ids) + 1])
            BY <1>1 DEF LoneInv, Alone, At
        <3> HIDE DEF c
        <3> QED BY <1>1, <2>1, <3>1 DEF Alone, Read
    <2> QED BY <1>1, <1>3, <2>1, <2>2, LoneStep
<1> QED BY <1>1, <1>2, <1>3, DoneLone, AfterLone

\* The other steps go to where nothing is known.
LEMMA PlainLone ==
    ASSUME NEW o \in Origins, Good(o), LoneInv, NEW w \in Workers,
           \/ Check(w) \/ New(w) \/ Update(w) \/ Rename(w) \/ Meta(w) \/ Snapshot(w) \/ DeleteTree(w) \/ Delete(w)
           \/ Unassigned(w) \/ RemoveSource(w) \/ Resolve(w) \/ LoadShell(w) \/ Walk(w) \/ WriteBack(w) \/ Order(w)
    PROVE  LoneInv'
<1> DEFINE c == call[w]
<1>1. DOMAIN c = Fields /\ ~At(w, "idle")
    BY CallIs DEF Check, New, Update, Rename, Meta, Snapshot, DeleteTree, Delete, Unassigned, RemoveSource, Resolve, LoadShell, Walk,
                  WriteBack, Order, At
<1>2. ASSUME NEW at \in Plain, Goto(w, [c EXCEPT !.at = at])
      PROVE  LoneInv'
    <2> DEFINE r == [c EXCEPT !.at = at]
    <2>1. r.at = at /\ r.lone = c.lone
        BY <1>1 DEF Fields
    <2> HIDE DEF r
    <2> QED BY <1>1, <1>2, <2>1, PlainStep DEF r
<1>3. CASE Check(w) \/ Rename(w) \/ Meta(w) \/ Snapshot(w) \/ DeleteTree(w)
    <2>1. (\E answer : Done(w, answer)) \/ (\E at \in Plain : Goto(w, [c EXCEPT !.at = at]))
        BY <1>3 DEF Check, Rename, Meta, Snapshot, DeleteTree, Step, Plain
    <2> QED BY <1>1, <1>2, <2>1, DoneLone
<1>4. CASE New(w)
    <2> DEFINE d == drawn.docs + 1
               at == IF c.writeBack THEN "meta" ELSE "walk"
               r == [c EXCEPT !.doc = d, !.at = at]
    <2>1. Done(w, "error") \/ Goto(w, [c EXCEPT !.at = "meta"]) \/ Goto(w, r)
        BY <1>4 DEF New, Commit
    <2>2. at \in Plain /\ "meta" \in Plain
        BY DEF Plain
    <2> HIDE DEF d, at
    <2>3. r.at = at /\ r.lone = c.lone
        BY <1>1 DEF Fields
    <2> HIDE DEF r
    <2> QED BY <1>1, <1>2, <2>1, <2>2, <2>3, DoneLone, PlainStep
<1>5. CASE Update(w)
    <2> DEFINE at == IF c.title = c.old THEN "meta" ELSE "rename"
    <2>1. Done(w, "error") \/ Goto(w, [c EXCEPT !.at = at])
        BY <1>5 DEF Update, Commit
    <2>2. at \in Plain
        BY DEF Plain
    <2> HIDE DEF at
    <2> QED BY <1>1, <1>2, <2>1, <2>2, DoneLone
<1>6. CASE Delete(w)
    <2> DEFINE r == [Idle EXCEPT !.op = c.op, !.answer = "ok"]
    <2>1. Done(w, "error") \/ Goto(w, r)
        BY <1>6 DEF Delete, Commit
    <2>2. r.at = "idle"
        BY DEF Idle
    <2> HIDE DEF r
    <2> QED BY <1>1, <2>1, <2>2, DoneLone, LoneStep
<1>7. CASE Unassigned(w)
    <2>1. PICK s : Done(w, "ok") \/ Goto(w, [c EXCEPT !.todo = s, !.at = "find"])
        BY <1>7 DEF Unassigned
    <2> DEFINE r == [c EXCEPT !.todo = s, !.at = "find"]
    <2>2. r.at \in Plain /\ r.lone = c.lone
        BY <1>1 DEF Fields, Plain
    <2> HIDE DEF r
    <2> QED BY <1>1, <2>1, <2>2, DoneLone, PlainStep DEF r
<1>8. CASE RemoveSource(w)
    BY <1>1, <1>8, TurnLone DEF RemoveSource
<1>9. CASE Resolve(w)
    <2> DEFINE title == TitleIn(c.place, c.dir)
               r == [c EXCEPT !.title = title, !.at = "new"]
    <2>1. \/ Done(w, "error") \/ Goto(w, r)
          \/ \E d : Goto(w, [c EXCEPT !.title = title, !.doc = d, !.at = "shell"])
        BY <1>9 DEF Resolve
    <2> HIDE DEF title
    <2>2. r.at \in Plain /\ r.lone = c.lone
        BY <1>1 DEF Fields, Plain
    <2> HIDE DEF r
    <2>3. ASSUME NEW d, Goto(w, [c EXCEPT !.title = title, !.doc = d, !.at = "shell"])
          PROVE  LoneInv'
        <3> DEFINE q == [c EXCEPT !.title = title, !.doc = d, !.at = "shell"]
        <3>1. q.at \in Plain /\ q.lone = c.lone
            BY <1>1 DEF Fields, Plain
        <3>2. Goto(w, q)
            BY <2>3
        <3> HIDE DEF q
        <3> QED BY <1>1, <3>1, <3>2, PlainStep
    <2> QED BY <1>1, <2>1, <2>2, <2>3, DoneLone, PlainStep
<1>13. CASE LoadShell(w)
    <2> DEFINE known == Shell(c.doc)
               r == [c EXCEPT !.known = known, !.at = "walk"]
    <2>1. Goto(w, r) \/ Goto(w, [c EXCEPT !.at = "new"])
        BY <1>13 DEF LoadShell, Step
    <2> HIDE DEF known
    <2>2. r.at \in Plain /\ r.lone = c.lone /\ "new" \in Plain
        BY <1>1 DEF Fields, Plain
    <2> HIDE DEF r
    <2> QED BY <1>1, <1>2, <2>1, <2>2, PlainStep
<1>10. CASE Walk(w)
    <2>1. PICK files, whole : \/ \E answer : Done(w, answer)
                              \/ Goto(w, [c EXCEPT !.files = files, !.whole = whole, !.at = "apply"])
        BY <1>10 DEF Walk
    <2> DEFINE r == [c EXCEPT !.files = files, !.whole = whole, !.at = "apply"]
    <2>2. r.at \in Plain /\ r.lone = c.lone
        BY <1>1 DEF Fields, Plain
    <2> HIDE DEF r
    <2> QED BY <1>1, <2>1, <2>2, DoneLone, PlainStep DEF r
<1>11. CASE WriteBack(w)
    BY <1>1, <1>11, DoneLone, AfterLone DEF WriteBack
<1>12. CASE Order(w)
    BY <1>1, <1>12, DoneLone DEF Order
<1> QED BY <1>3, <1>4, <1>5, <1>6, <1>7, <1>8, <1>9, <1>10, <1>11, <1>12, <1>13

LEMMA CrashLone ==
    ASSUME NEW o, Good(o), LoneInv, NEW w \in Workers, Crash(w)
    PROVE  LoneInv'
BY LoneStep, IdleOK DEF Crash

LEMMA NextLone ==
    ASSUME NEW o \in Origins, Good(o), LoneInv, [Next]_vars
    PROVE  LoneInv'
<1>1. CASE UNCHANGED vars
    BY <1>1 DEF vars, LoneInv, At
<1>2. ASSUME NEW w \in Workers, Begin(w) \/ Load(w) \/ Exists(w) \/ Materialize(w)
      PROVE  LoneInv'
    BY <1>2, BeginLone, LoadLone, ExistsLone, MaterializeLone
<1>3. ASSUME NEW w \in Workers, Find(w) \/ Adopt(w) \/ CopyFile(w) \/ Adopted(w) \/ Stamp(w)
      PROVE  LoneInv'
    BY <1>3, FindLone, AdoptLone, CopyFileLone, AdoptedLone, StampLone
<1>4. ASSUME NEW w \in Workers, Apply(w) \/ Persist(w) \/ Crash(w)
      PROVE  LoneInv'
    BY <1>4, ApplyLone, PersistLone, CrashLone
<1>5. ASSUME NEW w \in Workers,
             \/ Check(w) \/ New(w) \/ Update(w) \/ Rename(w) \/ Meta(w) \/ Snapshot(w) \/ DeleteTree(w) \/ Delete(w)
             \/ Unassigned(w) \/ RemoveSource(w) \/ Resolve(w) \/ LoadShell(w) \/ Walk(w) \/ WriteBack(w) \/ Order(w)
      PROVE  LoneInv'
    BY <1>5, PlainLone
<1> QED BY <1>1, <1>2, <1>3, <1>4, <1>5 DEF Next

LEMMA InitLone == Init => LoneInv
BY DEF Init, LoneInv, Idle, At

-----------------------------------------------------------------------------
(* Texts are not lost: the steps that write to the trees. *)
-----------------------------------------------------------------------------
Says(ts, x, p, text) ==
    x \in Places \X Titles /\ ts[x] # NoTree /\ p \in FilesIn(ts[x]) /\ ts[x].files[p].text = text

LEMMA InTexts == \A ts, text : text \in TextsOf(ts) <=> \E x, p : Says(ts, x, p, text)
BY DEF TextsOf, Says

\* A tree put in the place of another keeps the texts that its files keep.
LEMMA PutKeeps ==
    ASSUME NEW ts \in [Places \X Titles -> Tree \cup {NoTree}], NEW x \in Places \X Titles, NEW tree,
           ts[x] # NoTree => /\ tree # NoTree
                             /\ \A p \in FilesIn(ts[x]) : p \in FilesIn(tree) /\ tree.files[p].text = ts[x].files[p].text
    PROVE  TextsOf(ts) \subseteq TextsOf([ts EXCEPT ![x] = tree])
<1> DEFINE new == [ts EXCEPT ![x] = tree]
<1>1. \A y \in Places \X Titles : new[y] = IF y = x THEN tree ELSE ts[y]
    OBVIOUS
<1> HIDE DEF new
<1>2. \A y, p, text : Says(ts, y, p, text) => Says(new, y, p, text)
    BY <1>1 DEF Says
<1>3. TextsOf(ts) \subseteq TextsOf(new)
    BY <1>2, InTexts
<1> QED BY <1>3 DEF new

LEMMA WriteMetaKeeps ==
    ASSUME NEW o, NEW n, TreesOK(o, n, trees), NEW p \in Places, NEW t \in Titles, NEW m \in Titles, WriteMeta(p, t, m)
    PROVE  TextsOf(trees) \subseteq TextsOf(trees')
<1> DEFINE x == <<p, t>>
           tree == [TreeAt(p, t) EXCEPT !.meta = m]
<1>1. TreeAt(p, t) \in Tree
    BY TreeAtOK DEF TreeOK
<1>2. tree \in Tree /\ tree.files = TreeAt(p, t).files
    BY <1>1 DEF Tree
<1>3. trees' = [trees EXCEPT ![x] = tree]
    BY DEF WriteMeta
<1>4. trees[x] # NoTree => TreeAt(p, t) = trees[x]
    BY DEF TreeAt, HasTree
<1>5. x \in Places \X Titles /\ trees \in [Places \X Titles -> Tree \cup {NoTree}] /\ tree # NoTree
    BY <1>2, SentinelsAssumption DEF TreesOK
<1> HIDE DEF tree
<1>6. trees[x] # NoTree => \A q \in FilesIn(trees[x]) : q \in FilesIn(tree) /\ tree.files[q].text = trees[x].files[q].text
    BY <1>2, <1>4 DEF FilesIn
<1> HIDE DEF x
<1> QED BY <1>3, <1>5, <1>6, PutKeeps

\* A file written where there is none, or over one of the same text.
LEMMA WriteFileKeeps ==
    ASSUME NEW o, NEW n, TreesOK(o, n, trees), NEW p \in Places, NEW t \in Titles, NEW path \in Paths, NEW file \in File,
           path \in There(trees, p, t) => trees[<<p, t>>].files[path].text = file.text,
           WriteFile(p, t, path, file)
    PROVE  TextsOf(trees) \subseteq TextsOf(trees')
<1> DEFINE x == <<p, t>>
           tree == [TreeAt(p, t) EXCEPT !.files[path] = file]
<1>1. TreeAt(p, t) \in Tree
    BY TreeAtOK DEF TreeOK
<1>2. tree \in Tree /\ tree.files = [TreeAt(p, t).files EXCEPT ![path] = file]
    BY <1>1 DEF Tree
<1>3. trees' = [trees EXCEPT ![x] = tree]
    BY DEF WriteFile
<1>4. trees[x] # NoTree => TreeAt(p, t) = trees[x] /\ There(trees, p, t) = FilesIn(trees[x])
    BY DEF TreeAt, HasTree, There
<1>5. x \in Places \X Titles /\ trees \in [Places \X Titles -> Tree \cup {NoTree}] /\ tree # NoTree
    BY <1>2, SentinelsAssumption DEF TreesOK
<1> HIDE DEF tree
<1>6. \A q \in Paths : tree.files[q] = IF q = path THEN file ELSE TreeAt(p, t).files[q]
    BY <1>1, <1>2 DEF Tree
<1>7. trees[x] # NoTree => \A q \in FilesIn(trees[x]) : q \in FilesIn(tree) /\ tree.files[q].text = trees[x].files[q].text
    BY <1>4, <1>6, SentinelsAssumption DEF FilesIn
<1> HIDE DEF x
<1> QED BY <1>3, <1>5, <1>7, PutKeeps

LEMMA RenameKeeps ==
    ASSUME NEW o \in Origins, Good(o), NEW w \in Workers, Rename(w)
    PROVE  TextsOf(trees) \subseteq TextsOf(trees')
<1> DEFINE c == call[w]
           x == <<c.owner, c.old>>
           y == <<c.owner, c.title>>
           tree == trees[x]
           new == IF tree.meta = NoTitle THEN tree ELSE [tree EXCEPT !.meta = c.title]
<1>1. c.owner \in Accounts /\ c.old \in Titles /\ c.title \in Titles
    BY CallIs DEF Rename, At, Local
<1>2. x \in Places \X Titles /\ y \in Places \X Titles /\ trees \in [Places \X Titles -> Tree \cup {NoTree}]
    BY <1>1, AccountsArePlaces DEF Good, TreesOK
<1>3. CASE ~(HasTree(c.owner, c.old) /\ ~HasTree(c.owner, c.title) /\ x \in tracked)
    BY <1>3 DEF Rename
<1>4. CASE HasTree(c.owner, c.old) /\ ~HasTree(c.owner, c.title) /\ x \in tracked
    <2>1. trees[x] # NoTree /\ trees[y] = NoTree /\ tree \in Tree
        BY <1>2, <1>4 DEF HasTree
    <2>2. new \in Tree /\ new.files = tree.files
        BY <1>1, <2>1 DEF Tree
    <2>3. trees' = [trees EXCEPT ![x] = NoTree, ![y] = new]
        BY <1>4 DEF Rename, Renamed
    <2>4. new # NoTree
        BY <2>2, SentinelsAssumption
    <2> HIDE DEF new
    <2>5. \A z \in Places \X Titles : trees'[z] = IF z = y THEN new ELSE IF z = x THEN NoTree ELSE trees[z]
        BY <1>2, <2>3
    <2> HIDE DEF x, y
    <2>6. \A z, p, text : Says(trees, z, p, text) => Says(trees', IF z = x THEN y ELSE z, p, text)
        BY <1>2, <2>1, <2>2, <2>4, <2>5 DEF Says, FilesIn
    <2>7. \A text : (\E z, p : Says(trees, z, p, text)) => (\E z, p : Says(trees', z, p, text))
        BY <2>6
    <2> QED BY <2>7, InTexts
<1> QED BY <1>3, <1>4

LEMMA AdoptKeeps ==
    ASSUME NEW o \in Origins, Good(o), NEW w \in Workers, Adopt(w)
    PROVE  TextsOf(trees) \subseteq TextsOf(trees')
<1> DEFINE c == call[w]
           y == <<c.owner, c.old>>
<1>1. c.owner \in Accounts /\ c.old \in Titles
    BY CallIs DEF Adopt, At, Local, SourceOK
<1>2. y \in Places \X Titles /\ trees \in [Places \X Titles -> Tree \cup {NoTree}]
    BY <1>1, AccountsArePlaces DEF Good, TreesOK
<1>3. CASE UNCHANGED trees
    BY <1>3
<1>4. CASE ~(UNCHANGED trees)
    <2> DEFINE new == [EmptyTree EXCEPT !.meta = trees[<<c.source, c.old>>].meta]
    <2>1. ~HasTree(c.owner, c.old) /\ trees' = [trees EXCEPT ![y] = new]
        BY <1>4 DEF Adopt
    <2> HIDE DEF new
    <2>2. trees[y] = NoTree
        BY <2>1 DEF HasTree
    <2> HIDE DEF y
    <2> QED BY <1>2, <2>1, <2>2, PutKeeps
<1> QED BY <1>3, <1>4

\* The copy of a file goes to where there is none yet.
LEMMA CopyFileKeeps ==
    ASSUME NEW o \in Origins, Good(o), LoneInv, NEW w \in Workers, CopyFile(w), call[w].lone
    PROVE  TextsOf(trees) \subseteq TextsOf(trees')
<1> DEFINE c == call[w]
           x == <<c.source, c.old>>
           y == <<c.owner, c.old>>
<1>1. /\ c.at = "copying" /\ c.owner \in Accounts /\ c.old \in Titles
      /\ c.source \in Accounts \cup {Flat} /\ c.left \subseteq Paths
    BY CallIs DEF CopyFile, At, Local, SourceOK
<1>2. x \in Places \X Titles /\ c.owner \in Places /\ TreesOK(o, drawn.chapters, trees)
      /\ trees \in [Places \X Titles -> Tree \cup {NoTree}]
    BY <1>1, AccountsArePlaces DEF Good, TreesOK
<1>3. CASE UNCHANGED trees
    BY <1>3
<1>4. CASE ~(UNCHANGED trees)
    <2>1. PICK path \in c.left :
            /\ HasTree(c.source, c.old) /\ path \in FilesIn(trees[x])
            /\ WriteFile(c.owner, c.old, path, trees[x].files[path])
        BY <1>4 DEF CopyFile
    <2> DEFINE file == trees[x].files[path]
    <2>2. path \in Paths /\ file \in File
        BY <1>1, <1>2, <2>1 DEF HasTree, FilesIn, Tree
    <2>3. Copying(c, trees[x], trees[y])
        BY <1>1 DEF LoneInv, Alone, At
    <2>4. path \notin There(trees, c.owner, c.old)
        BY <2>1, <2>2, <2>3 DEF Copying, There, FilesIn
    <2>5. WriteFile(c.owner, c.old, path, file)
        BY <2>1
    <2> HIDE DEF file, c
    <2> QED BY <1>1, <1>2, <2>2, <2>4, <2>5, WriteFileKeeps DEF c
<1> QED BY <1>3, <1>4

LEMMA MaterializeKeeps ==
    ASSUME NEW o \in Origins, Good(o), LoneInv, NEW w \in Workers, Materialize(w), call[w].lone
    PROVE  TextsOf(trees) \subseteq TextsOf(trees')
<1> DEFINE c == call[w]
           e == Head(c.list)
           path == c.texts[e].path
           file == [id |-> e, text |-> c.texts[e].text]
<1>1. c.at = "materialize" /\ c.owner \in Accounts /\ c.old \in Titles
      /\ c.list \in Seq(Chapters) /\ c.list # << >>
      /\ \A y \in IdsIn(c.list) : c.texts[y] \in Node
    BY CallIs DEF Materialize, At, Local, ListOK
<1>2. e \in IdsIn(c.list) /\ e \in Chapters /\ c.texts[e] \in Node
    <2>1. Len(c.list) \in Nat \ {0} /\ e = c.list[1]
        BY <1>1, EmptySeq
    <2> QED BY <1>1, <2>1, ElementOfSeq DEF IdsIn
<1>3. CASE path = NoPath
    BY <1>3 DEF Materialize
<1>4. CASE path # NoPath
    <2>1. WriteFile(c.owner, c.old, path, file) /\ c.owner \in Places /\ TreesOK(o, drawn.chapters, trees)
        BY <1>1, <1>4, AccountsArePlaces DEF Materialize, Good
    <2>2. path \in Paths /\ file \in File
        BY <1>2, <1>4 DEF Node, File
    <2>3. path \notin There(trees, c.owner, c.old)
        BY <1>1, <1>2 DEF LoneInv, Alone, At
    <2> HIDE DEF file, path
    <2> QED BY <1>1, <2>1, <2>2, <2>3, WriteFileKeeps
<1> QED BY <1>3, <1>4

\* The file is written back with the text that was read.
LEMMA WriteBackKeeps ==
    ASSUME NEW o \in Origins, Good(o), LoneInv, NEW w \in Workers, WriteBack(w), call[w].lone
    PROVE  TextsOf(trees) \subseteq TextsOf(trees')
<1> DEFINE c == call[w]
           path == c.files[Len(c.ids) + 1]
           file == [id |-> c.new, text |-> c.text]
<1>1. /\ c.at = "back" /\ c.new \in Chapters /\ c.text \in Texts \cup {NoText} /\ c.place \in Places /\ c.dir \in Titles
      /\ c.files \in Seq(Paths) /\ Len(c.ids) \in Nat /\ Len(c.ids) < Len(c.files)
    <2>1. c.at = "back" /\ Local(o, drawn.chapters, c)
        BY CallIs DEF WriteBack, At
    <2> HIDE DEF c
    <2>2. FilesOK(o, drawn.chapters, c)
        BY <2>1 DEF Local
    <2> QED BY <2>1, <2>2, LenProperties DEF Local, FilesOK, ImportOK
<1>2. path \in Paths
    <2>1. Len(c.ids) + 1 \in 1 .. Len(c.files)
        BY <1>1, LenProperties
    <2> QED BY <1>1, <2>1, ElementOfSeq
<1>3. CASE UNCHANGED trees
    BY <1>3
<1>4. CASE WriteFile(c.place, c.dir, path, file)
    <2>1. file \in File /\ file.text = c.text /\ TreesOK(o, drawn.chapters, trees)
        BY <1>1 DEF File, Good
    <2>2. Read(c, trees, path)
        BY <1>1 DEF LoneInv, Alone, At
    <2>3. trees[<<c.place, c.dir>>].files[path].text = file.text
        BY <2>1, <2>2 DEF Read
    <2> HIDE DEF file, path
    <2> QED BY <1>1, <1>2, <1>4, <2>1, <2>3, WriteFileKeeps
<1> QED BY <1>3, <1>4 DEF WriteBack

\* The source goes when everything in it has been copied.
LEMMA RemoveSourceKeeps ==
    ASSUME NEW o \in Origins, Good(o), LoneInv, NEW w \in Workers, RemoveSource(w), call[w].lone
    PROVE  TextsOf(trees) \subseteq TextsOf(trees')
<1> DEFINE c == call[w]
           x == <<c.source, c.old>>
           y == <<c.owner, c.old>>
<1>1. c.at = "remove" /\ c.owner \in Accounts /\ c.old \in Titles /\ c.source \in Accounts \cup {Flat}
    BY CallIs DEF RemoveSource, At, Local, SourceOK
<1>2. x \in Places \X Titles /\ y \in Places \X Titles /\ trees \in [Places \X Titles -> Tree \cup {NoTree}]
    BY <1>1, AccountsArePlaces DEF Good, TreesOK
<1>3. c.source # NoTree
    BY <1>1, PlacesAssumption
<1>4. x # y /\ Copied(c, trees[x], trees[y])
    BY <1>1, <1>3 DEF LoneInv, Alone, At
<1>5. \A z \in Places \X Titles : trees'[z] = IF z = x THEN NoTree ELSE trees[z]
    BY <1>2 DEF RemoveSource, RemoveTree
<1> HIDE DEF x, y, c
<1>6. \A z, p, text : Says(trees, z, p, text) => Says(trees', IF z = x THEN y ELSE z, p, text)
    <2> SUFFICES ASSUME NEW z, NEW p, NEW text, Says(trees, z, p, text)
                 PROVE  Says(trees', IF z = x THEN y ELSE z, p, text)
        OBVIOUS
    <2>1. CASE z = x
        <3>1. p \in Paths /\ trees[x] # NoTree /\ trees[x].files[p] # NoFile /\ trees[x].files[p].text = text
            BY <2>1 DEF Says, FilesIn
        <3>2. trees[y] # NoTree /\ trees[y].files[p] = trees[x].files[p]
            BY <1>4, <3>1 DEF Copied
        <3>3. trees'[y] = trees[y]
            BY <1>2, <1>4, <1>5
        <3> QED BY <1>2, <2>1, <3>1, <3>2, <3>3 DEF Says, FilesIn
    <2>2. CASE z # x
        BY <1>5, <2>2 DEF Says
    <2> QED BY <2>1, <2>2
<1>7. \A text : (\E z, p : Says(trees, z, p, text)) => (\E z, p : Says(trees', z, p, text))
    BY <1>6
<1> QED BY <1>7, InTexts

\* A call that is beside another one has moved on.
LEMMA Moved ==
    ASSUME NEW o \in Origins, Good(o), NEW w \in Workers,
           CopyFile(w) \/ Materialize(w) \/ WriteBack(w) \/ RemoveSource(w) \/ DeleteTree(w)
    PROVE  call'[w] # call[w]
<1> DEFINE c == call[w]
<1>1. DOMAIN c = Fields /\ call = [v \in Workers |-> call[v]]
    BY CallIs DEF CallsOK
<1>2. ASSUME NEW r, Goto(w, r), r # c
      PROVE  call'[w] # c
    <2>1. call' = [call EXCEPT ![w] = r]
        BY <1>2 DEF Goto
    <2> QED BY <1>1, <1>2, <2>1
<1>3. ASSUME NEW answer, Done(w, answer), c.at # "idle"
      PROVE  call'[w] # c
    <2> DEFINE r == [Idle EXCEPT !.op = c.op, !.answer = answer]
    <2>1. r.at = "idle" /\ Goto(w, r)
        BY <1>3 DEF Idle, Done
    <2> HIDE DEF r
    <2> QED BY <1>2, <1>3, <2>1
<1>4. CASE CopyFile(w)
    <2>1. c.at = "copying"
        BY <1>4 DEF CopyFile, At
    <2>2. CASE Done(w, "error")
        BY <1>3, <2>1, <2>2
    <2>3. CASE ~Done(w, "error")
        <3>1. PICK path \in c.left :
                Goto(w, [c EXCEPT !.left = c.left \ {path}, !.at = IF c.left = {path} THEN "adopted" ELSE "copying"])
            BY <1>4, <2>3 DEF CopyFile
        <3> DEFINE at == IF c.left = {path} THEN "adopted" ELSE "copying"
                   left == c.left \ {path}
                   r == [c EXCEPT !.left = left, !.at = at]
        <3>2. Goto(w, r) /\ left # c.left
            BY <3>1
        <3> HIDE DEF left, at
        <3>3. r.left = left
            BY <1>1 DEF Fields
        <3> HIDE DEF r
        <3> QED BY <1>2, <3>2, <3>3
    <2> QED BY <2>2, <2>3
<1>5. CASE Materialize(w)
    <2>1. c.at = "materialize" /\ c.list \in Seq(Chapters) /\ c.list # << >>
        BY <1>5, CallIs DEF Materialize, At, Local, ListOK
    <2>2. CASE \E answer : Done(w, answer)
        BY <1>3, <2>1, <2>2
    <2>3. CASE Goto(w, [c EXCEPT !.list = Tail(@)])
        <3> DEFINE list == Tail(c.list)
                   r == [c EXCEPT !.list = list]
        <3>1. Goto(w, r)
            BY <2>3
        <3>2. list # c.list
            <4>1. Len(c.list) \in Nat \ {0} /\ Len(list) = Len(c.list) - 1
                BY <2>1, EmptySeq, HeadTailProperties
            <4> HIDE DEF list
            <4> QED BY <4>1
        <3> HIDE DEF list
        <3>3. r.list = list
            BY <1>1 DEF Fields
        <3> HIDE DEF r
        <3> QED BY <1>2, <3>1, <3>2, <3>3
    <2>4. CASE Step(w, "snapshot")
        <3> DEFINE r == [c EXCEPT !.at = "snapshot"]
        <3>1. Goto(w, r) /\ r # c
            BY <1>1, <2>1, <2>4 DEF Step, Fields
        <3> HIDE DEF r
        <3> QED BY <1>2, <3>1
    <2> QED BY <1>5, <2>2, <2>3, <2>4 DEF Materialize
<1>6. CASE WriteBack(w)
    <2>1. c.at = "back"
        BY <1>6 DEF WriteBack, At
    <2>2. After(w, c.new).at # "back"
        BY <1>1, AfterAt
    <2> DEFINE r == After(w, c.new)
    <2> HIDE DEF r
    <2>3. CASE Goto(w, r)
        BY <1>2, <2>1, <2>2, <2>3 DEF r
    <2> QED BY <1>3, <1>6, <2>1, <2>3 DEF WriteBack, r
<1>7. CASE RemoveSource(w)
    <2>1. c.at = "remove"
        BY <1>7 DEF RemoveSource, At
    <2>2. CASE Done(w, "ok")
        BY <1>3, <2>1, <2>2
    <2> DEFINE b == Asked(c.op, "find", c.owner)
               r == [b EXCEPT !.todo = Tail(c.todo), !.lone = c.lone]
    <2>3. CASE Goto(w, r)
        <3>1. DOMAIN b = Fields /\ b.at = "find"
            BY AskedIs
        <3> HIDE DEF b
        <3>2. r.at = "find"
            BY <3>1 DEF Fields
        <3> HIDE DEF r
        <3> QED BY <1>2, <2>1, <2>3, <3>2
    <2> QED BY <1>7, <2>2, <2>3 DEF RemoveSource, Turn
<1>8. CASE DeleteTree(w)
    <2> DEFINE r == [c EXCEPT !.at = "drop"]
    <2>1. Goto(w, r) /\ c.at = "tree"
        BY <1>8 DEF DeleteTree, Step, At
    <2>2. r.at = "drop"
        BY <1>1 DEF Fields
    <2> HIDE DEF r
    <2> QED BY <1>2, <2>1, <2>2
<1> QED BY <1>4, <1>5, <1>6, <1>7, <1>8

LEMMA StepKeeps ==
    ASSUME NEW o \in Origins, Good(o), LoneInv, [Next]_vars
    PROVE  \/ TextsOf(trees) \subseteq TextsOf(trees')
           \/ \E w \in Workers : /\ call'[w] # call[w]
                                 /\ At(w, "tree") \/ (call[w].at \in Replaces /\ ~call[w].lone)
<1> SUFFICES ASSUME ~(\E w \in Workers : /\ call'[w] # call[w]
                                         /\ At(w, "tree") \/ (call[w].at \in Replaces /\ ~call[w].lone))
             PROVE  TextsOf(trees) \subseteq TextsOf(trees')
    OBVIOUS
<1>1. CASE UNCHANGED vars
    BY <1>1 DEF vars
<1>2. ASSUME NEW w \in Workers, CopyFile(w) \/ Materialize(w) \/ WriteBack(w) \/ RemoveSource(w)
      PROVE  TextsOf(trees) \subseteq TextsOf(trees')
    <2>1. call[w].at \in Replaces /\ call'[w] # call[w]
        BY <1>2, Moved DEF CopyFile, Materialize, WriteBack, RemoveSource, At, Replaces
    <2>2. call[w].lone
        BY <2>1
    <2> QED BY <1>2, <2>2, CopyFileKeeps, MaterializeKeeps, WriteBackKeeps, RemoveSourceKeeps
<1>3. ASSUME NEW w \in Workers, DeleteTree(w)
      PROVE  FALSE
    BY <1>3, Moved DEF DeleteTree
<1>4. ASSUME NEW w \in Workers, Exists(w)
      PROVE  TextsOf(trees) \subseteq TextsOf(trees')
    <2>1. /\ call[w].owner \in Places /\ call[w].old \in Titles /\ WriteMeta(call[w].owner, call[w].old, call[w].old)
          /\ TreesOK(o, drawn.chapters, trees)
        BY <1>4, CallIs, AccountsArePlaces DEF Exists, At, Local, Good
    <2> QED BY <2>1, WriteMetaKeeps
<1>5. ASSUME NEW w \in Workers, Meta(w)
      PROVE  TextsOf(trees) \subseteq TextsOf(trees')
    <2> DEFINE c == call[w]
    <2>1. /\ c.owner \in Places /\ c.title \in Titles /\ (c.op = "import" => c.place \in Places /\ c.dir \in Titles)
          /\ TreesOK(o, drawn.chapters, trees)
        BY <1>5, CallIs, AccountsArePlaces DEF Meta, At, Local, ImportOK, Good
    <2>2. \/ UNCHANGED trees
          \/ WriteMeta(c.owner, c.title, c.title)
          \/ c.op = "import" /\ WriteMeta(c.place, c.dir, c.title)
        BY <1>5 DEF Meta
    <2> QED BY <2>1, <2>2, WriteMetaKeeps
<1>6. ASSUME NEW w \in Workers, Rename(w) \/ Adopt(w)
      PROVE  TextsOf(trees) \subseteq TextsOf(trees')
    BY <1>6, RenameKeeps, AdoptKeeps
<1>7. ASSUME NEW w \in Workers,
             \/ Begin(w) \/ Load(w) \/ Check(w) \/ New(w) \/ Update(w) \/ Delete(w) \/ Unassigned(w) \/ Find(w)
             \/ Snapshot(w) \/ Adopted(w) \/ Stamp(w) \/ Resolve(w) \/ LoadShell(w) \/ Walk(w) \/ Apply(w) \/ Persist(w) \/ Order(w) \/ Crash(w)
      PROVE  TextsOf(trees) \subseteq TextsOf(trees')
    BY <1>7 DEF Begin, Load, Check, New, Update, Delete, Unassigned, Find, Snapshot, Adopted, Stamp, Resolve, LoadShell, Walk, Apply, Persist, Order, Crash
<1> QED BY <1>1, <1>2, <1>3, <1>4, <1>5, <1>6, <1>7 DEF Next

\* No step of the two processes, nor a crash between any two, loses the last
\* file of a text, but the deletion of its document and a call that writes
\* files beside another one.
THEOREM NoTextIsLost == Spec => FilesKept
<1>1. Init => Documented /\ LoneInv
    BY InitDocumented, InitLone
<1>2. Documented /\ LoneInv /\ [Next]_vars => (Documented /\ LoneInv)'
    <2>1. Documented /\ LoneInv /\ [Next]_vars => LoneInv'
        BY NextLone DEF Documented
    <2> QED BY <2>1, NextDocumented
<1>3. Documented /\ LoneInv /\ [Next]_vars =>
        [\A text \in TextsOf(trees) \ TextsOf(trees') :
           \E w \in Workers : /\ call'[w] # call[w]
                              /\ At(w, "tree") \/ (call[w].at \in Replaces /\ ~call[w].lone)]_vars
    BY StepKeeps DEF Documented
<1> QED BY <1>1, <1>2, <1>3, PTL DEF Spec, FilesKept

-----------------------------------------------------------------------------
(* Graph and trees have the same titles: what a call knows of both while   *)
(* nothing ever crashed, met another call or was left by a commit.         *)
-----------------------------------------------------------------------------
IsA(g, d, t, a)        == d \in LiveDocs(g) /\ g.docs[d] = [title |-> t, owner |-> a]
Taken(g, a, t, others) == \E d \in LiveDocs(g) \ others : g.docs[d].owner = a /\ SameKey(g.docs[d].title, t)
DocsDrawn(g, n)        == \A d \in LiveDocs(g) : d <= n

\* Every directory of an account, some excepted, is that of a document it has.
HeldBut(g, ts, x) ==
    \A a \in Accounts, t \in Titles :
      <<a, t>> \notin x /\ ts[<<a, t>>] # NoTree => \E d : IsA(g, d, t, a)

Strays(r) ==
    CASE r.at \in {"rename", "copying", "adopted", "stamp"} -> {<<r.owner, r.old>>}
      [] r.at = "remove" -> {<<r.source, r.old>>}
      [] OTHER -> {}

\* The document whose turn it is, and where its directory is.
Turned(r, g, ts) ==
    LET d == Head(r.todo)
        owner == g.docs[d].owner IN
    /\ d \in LiveDocs(g) /\ g.docs[d].title = r.old
    /\ owner # r.owner /\ r.source # r.owner /\ ~Taken(g, r.owner, r.old, {d})
    /\ r.source # NoTree => ts[<<r.source, r.old>>] # NoTree
    /\ owner \in Accounts /\ r.source # owner => ts[<<owner, r.old>>] = NoTree

Serial(r, g, ts) ==
    /\ HeldBut(g, ts, Strays(r))
    /\ r.at \in {"exists", "materialize", "commit", "tree", "drop"} => IsA(g, r.doc, r.old, r.owner)
    /\ r.at = "drop" => ts[<<r.owner, r.old>>] = NoTree
    /\ r.at = "rename" => IsA(g, r.doc, r.title, r.owner) /\ ts[<<r.owner, r.title>>] = NoTree
    /\ r.at = "meta" /\ r.op # "import" => \E d : IsA(g, d, r.title, r.owner)
    /\ r.at \in {"copy", "copying", "adopted", "stamp"} => Turned(r, g, ts)
    /\ r.at = "copying" => /\ ts[<<r.owner, r.old>>] # NoTree
                           /\ r.left \subseteq FilesIn(ts[<<r.source, r.old>>])

SerialInv ==
    clean =>
      /\ held = << >> /\ DocsDrawn(graph, drawn.docs)
      /\ \E w \in Workers : (\A v \in Workers \ {w} : At(v, "idle")) /\ Serial(call[w], graph, trees)

\* Where every directory of an account is that of a document.
Neutral == {"idle", "load", "check", "new", "snapshot", "unowned", "find", "resolve", "shell", "walk", "apply", "persist",
            "back", "order"}

LEMMA NeutralSerial ==
    ASSUME NEW r, NEW g, NEW ts, r.at \in Neutral \/ (r.at = "meta" /\ r.op = "import")
    PROVE  Serial(r, g, ts) <=> HeldBut(g, ts, {})
<1>1. Strays(r) = {}
    BY DEF Strays, Neutral
<1> QED BY <1>1 DEF Serial, Neutral

LEMMA SerialIs ==
    ASSUME clean, SerialInv, NEW w \in Workers, ~At(w, "idle")
    PROVE  /\ held = << >> /\ DocsDrawn(graph, drawn.docs)
           /\ (\A v \in Workers \ {w} : At(v, "idle")) /\ Serial(call[w], graph, trees)
BY DEF SerialInv

LEMMA SerialStep ==
    ASSUME NEW o, Good(o), clean, SerialInv, NEW w \in Workers, ~At(w, "idle"), NEW r, Goto(w, r),
           held' = << >>, DocsDrawn(graph', drawn'.docs), Serial(r, graph', trees')
    PROVE  SerialInv'
<1>1. call = [v \in Workers |-> call[v]] /\ call' = [call EXCEPT ![w] = r]
    BY DEF Good, CallsOK, Goto
<1>2. \A v \in Workers : call'[v] = IF v = w THEN r ELSE call[v]
    BY <1>1
<1>3. \A v \in Workers \ {w} : call'[v].at = "idle"
    BY <1>2, SerialIs DEF At
<1>4. call'[w] = r
    BY <1>2
<1> QED BY <1>3, <1>4 DEF SerialInv, At

\* A step that leaves graph and trees as they were, or the titles.
LEMMA NeutralStep ==
    ASSUME NEW o, Good(o), clean, SerialInv, NEW w \in Workers, ~At(w, "idle"), NEW r, Goto(w, r),
           r.at \in Neutral \/ (r.at = "meta" /\ r.op = "import"),
           held' = << >>, DocsDrawn(graph', drawn'.docs), HeldBut(graph', trees', {})
    PROVE  SerialInv'
BY SerialStep, NeutralSerial

LEMMA DoneSerial ==
    ASSUME NEW o, Good(o), clean, SerialInv, NEW w \in Workers, ~At(w, "idle"), NEW answer, Done(w, answer),
           held' = << >>, DocsDrawn(graph', drawn'.docs), HeldBut(graph', trees', {})
    PROVE  SerialInv'
<1> DEFINE r == [Idle EXCEPT !.op = call[w].op, !.answer = answer]
<1>1. Goto(w, r) /\ r.at = "idle"
    BY DEF Done, Idle
<1> HIDE DEF r
<1> QED BY <1>1, NeutralStep DEF Neutral

LEMMA TurnSerial ==
    ASSUME NEW o, Good(o), clean, SerialInv, NEW w \in Workers, ~At(w, "idle"), Turn(w),
           held' = << >>, DocsDrawn(graph', drawn'.docs), HeldBut(graph', trees', {})
    PROVE  SerialInv'
<1> DEFINE c == call[w]
           b == Asked(c.op, "find", c.owner)
           r == [b EXCEPT !.todo = Tail(c.todo), !.lone = c.lone]
<1>1. CASE Done(w, "ok")
    BY <1>1, DoneSerial
<1>2. CASE Goto(w, r)
    <2>1. DOMAIN b = Fields /\ b.at = "find"
        BY AskedIs
    <2> HIDE DEF b
    <2>2. r.at = "find"
        BY <2>1 DEF Fields
    <2> HIDE DEF r
    <2> QED BY <1>2, <2>2, NeutralStep DEF Neutral
<1> QED BY <1>1, <1>2 DEF Turn

LEMMA RefusedSerial ==
    ASSUME NEW o, Good(o), clean, SerialInv, NEW w \in Workers, ~At(w, "idle"), Refused(w),
           held' = << >>, DocsDrawn(graph', drawn'.docs), HeldBut(graph', trees', {})
    PROVE  SerialInv'
BY TurnSerial, DoneSerial DEF Refused

\* A commit of one model, for nothing else is held.
LEMMA SavedOne ==
    ASSUME NEW result, NEW write, NEW kinds
    PROVE  Saved(result, <<write>>, kinds) = IF write.kind \in kinds THEN Save(result, write) ELSE result
<1> DEFINE s == <<write>>
<1>1. s \in Seq({write}) /\ Len(s) = 1 /\ s[1] = write
    OBVIOUS
<1> HIDE DEF s
<1>2. PICK r : Chain(r, result, s, kinds)
    BY <1>1, SavedIsChain
<1>3. r[0] = result /\ r[1] = Saved(result, s, kinds)
      /\ r[1] = IF write.kind \in kinds THEN Save(r[1 - 1], write) ELSE r[1 - 1]
    BY <1>1, <1>2 DEF Chain
<1>4. 1 - 1 = 0
    OBVIOUS
<1>5. Saved(result, s, kinds) = IF write.kind \in kinds THEN Save(result, write) ELSE result
    BY <1>3, <1>4
<1> QED BY <1>5 DEF s

LEMMA AppendEmpty ==
    ASSUME NEW e
    PROVE  Append(<< >>, e) = <<e>>
<1> DEFINE s == Append(<< >>, e)
           t == <<e>>
<1>1. << >> \in Seq({e}) /\ Len(<< >>) = 0 /\ e \in {e}
    BY EmptySeq
<1>2. s \in Seq({e}) /\ Len(s) = 0 + 1 /\ s[0 + 1] = e
    BY <1>1, AppendProperties
<1>3. t \in Seq({e}) /\ Len(t) = 1 /\ t[1] = e
    OBVIOUS
<1> HIDE DEF s, t
<1>4. \A i \in 1 .. Len(s) : s[i] = t[i]
    BY <1>2, <1>3
<1>5. s = t
    BY <1>2, <1>3, <1>4, SeqEqual
<1> QED BY <1>5 DEF s, t

LEMMA CommitOne ==
    ASSUME NEW w \in Workers, w = Server => held = << >>, NEW write, NEW after, Commit(w, write, after),
           write.kind \in {"document new", "chapter new", "document changed", "document deleted"}
    PROVE  /\ w # Server => held' = held
           /\ clean' = (clean /\ held' = << >>)
           /\ \/ /\ Unique(Written(graph, write)) /\ graph' = Written(graph, write)
                 /\ Goto(w, after) /\ (w = Server => held' = << >>)
              \/ graph' = graph /\ Done(w, "error") /\ held' \in {held, <<write>>}
<1> DEFINE start  == [graph |-> graph, ok |-> TRUE]
           all    == IF w = Server THEN Append(held, write) ELSE <<write>>
           new    == Saved(start, all, {"document new", "chapter new"})
           result == Saved(Saved(new, all, {"document changed"}), all, {"document deleted"})
<1>1. all = <<write>>
    BY AppendEmpty
<1>2. /\ graph' = result.graph
      /\ IF result.ok THEN Goto(w, after) ELSE Done(w, "error")
      /\ held' = IF w # Server THEN held ELSE IF result.ok THEN << >> ELSE all
      /\ clean' = (clean /\ held' = << >>)
    BY DEF Commit
<1>3. result = Save(start, write)
    <2> HIDE DEF start
    <2>1. new = IF write.kind \in {"document new", "chapter new"} THEN Save(start, write) ELSE start
        BY <1>1, SavedOne
    <2> HIDE DEF new
    <2> DEFINE mid == Saved(new, all, {"document changed"})
    <2>2. mid = IF write.kind \in {"document changed"} THEN Save(new, write) ELSE new
        BY <1>1, SavedOne
    <2> HIDE DEF mid
    <2>3. Saved(mid, all, {"document deleted"}) = IF write.kind \in {"document deleted"} THEN Save(mid, write) ELSE mid
        BY <1>1, SavedOne
    <2> QED BY <2>1, <2>2, <2>3 DEF mid
<1> HIDE DEF result, all
<1> DEFINE h == Written(graph, write)
<1> HIDE DEF h
<1>4. \/ Unique(h) /\ result.ok = TRUE /\ result.graph = h
      \/ result.ok = FALSE /\ result.graph = graph
    BY <1>3 DEF Save, h
<1>5. CASE Unique(h) /\ result.ok = TRUE /\ result.graph = h
    <2>1. graph' = h /\ Goto(w, after) /\ (w = Server => held' = << >>) /\ (w # Server => held' = held)
        BY <1>2, <1>5
    <2> QED BY <1>2, <1>5, <2>1 DEF h
<1>6. CASE result.ok = FALSE /\ result.graph = graph
    <2>1. graph' = graph /\ Done(w, "error") /\ held' \in {held, all} /\ (w # Server => held' = held)
        BY <1>2, <1>6
    <2> QED BY <1>1, <1>2, <2>1
<1> QED BY <1>4, <1>5, <1>6

LEMMA CommitAlone ==
    ASSUME held = << >>, NEW w \in Workers, NEW write, NEW after, Commit(w, write, after),
           write.kind \in {"document new", "chapter new", "document changed", "document deleted"}
    PROVE  \/ /\ Unique(Written(graph, write)) /\ graph' = Written(graph, write)
              /\ Goto(w, after) /\ held' = << >> /\ (clean' => clean)
           \/ graph' = graph /\ Done(w, "error") /\ held' \in {<< >>, <<write>>} /\ (clean' => clean /\ held' = << >>)
<1> DEFINE h == Written(graph, write)
<1> HIDE DEF h
<1>1. /\ w # Server => held' = held
      /\ clean' = (clean /\ held' = << >>)
      /\ \/ Unique(h) /\ graph' = h /\ Goto(w, after) /\ (w = Server => held' = << >>)
         \/ graph' = graph /\ Done(w, "error") /\ held' \in {held, <<write>>}
    BY CommitOne DEF h
<1> QED BY <1>1 DEF h

\* Only titles and owners matter.
LEMMA SameDocs ==
    ASSUME NEW g, NEW h, h.docs = g.docs
    PROVE  /\ LiveDocs(h) = LiveDocs(g) /\ \A n : DocsDrawn(g, n) <=> DocsDrawn(h, n)
           /\ \A ts, x : HeldBut(g, ts, x) <=> HeldBut(h, ts, x)
BY DEF LiveDocs, DocsDrawn, HeldBut, IsA

\* A directory put where one is, or at the title of a document, is no stray.
LEMMA PutHeld ==
    ASSUME NEW g, NEW ts \in [Places \X Titles -> Tree \cup {NoTree}], NEW x, HeldBut(g, ts, x),
           NEW p \in Places, NEW t \in Titles, NEW tree,
           \/ ts[<<p, t>>] # NoTree
           \/ <<p, t>> \in x
           \/ \E d : IsA(g, d, t, p)
    PROVE  HeldBut(g, [ts EXCEPT ![<<p, t>>] = tree], x)
<1>1. \A y \in Places \X Titles : [ts EXCEPT ![<<p, t>>] = tree][y] = IF y = <<p, t>> THEN tree ELSE ts[y]
    OBVIOUS
<1> DEFINE new == [ts EXCEPT ![<<p, t>>] = tree]
<1> HIDE DEF new
<1>2. ASSUME NEW a \in Accounts, NEW u \in Titles, <<a, u>> \notin x, new[<<a, u>>] # NoTree
      PROVE  \E d : IsA(g, d, u, a)
    <2>1. <<a, u>> \in Places \X Titles
        BY AccountsArePlaces
    <2>2. CASE a = p /\ u = t
        BY <1>2, <2>2 DEF HeldBut
    <2>3. CASE ~(a = p /\ u = t)
        BY <1>1, <1>2, <2>1, <2>3 DEF HeldBut, new
    <2> QED BY <2>2, <2>3
<1>3. HeldBut(g, new, x)
    BY <1>2 DEF HeldBut
<1> QED BY <1>3 DEF new

LEMMA RemoveHeld ==
    ASSUME NEW g, NEW ts \in [Places \X Titles -> Tree \cup {NoTree}], NEW x,
           NEW p \in Places, NEW t \in Titles, HeldBut(g, ts, x)
    PROVE  HeldBut(g, [ts EXCEPT ![<<p, t>>] = NoTree], x \ {<<p, t>>})
<1>1. \A y \in Places \X Titles : [ts EXCEPT ![<<p, t>>] = NoTree][y] = IF y = <<p, t>> THEN NoTree ELSE ts[y]
    OBVIOUS
<1>2. \A a \in Accounts, u \in Titles : <<a, u>> \in Places \X Titles
    BY AccountsArePlaces
<1> QED BY <1>1, <1>2 DEF HeldBut

\* The trees, as Good has them.
LEMMA TreesTyped == ASSUME NEW o, Good(o) PROVE trees \in [Places \X Titles -> Tree \cup {NoTree}]
BY DEF Good, TreesOK

LEMMA BeginSerial ==
    ASSUME NEW o, Good(o), clean', SerialInv, NEW w \in Workers, Begin(w)
    PROVE  SerialInv'
<1> DEFINE others == {u \in Workers \ {w} : ~At(u, "idle")}
           lone == others = {}
           leftover == w = Server /\ held # << >>
<1>1. PICK c \in Requests \cup Commands :
        call' = [v \in Workers |-> IF v = w THEN [c EXCEPT !.lone = lone, !.leftover = leftover]
                                   ELSE IF v \in others THEN [call[v] EXCEPT !.lone = FALSE] ELSE call[v]]
    BY DEF Begin
<1>2. DOMAIN c = Fields /\ c.at \in {"load", "check", "resolve", "find", "unowned"}
    BY AskingAt
<1>3. clean /\ others = {} /\ At(w, "idle") /\ UNCHANGED <<graph, trees, held, drawn>>
    BY DEF Begin
<1>4. HeldBut(graph, trees, {}) /\ held = << >> /\ DocsDrawn(graph, drawn.docs)
    <2>1. PICK v \in Workers : Serial(call[v], graph, trees)
        BY <1>3 DEF SerialInv
    <2>2. call[v].at \in Neutral
        BY <1>3 DEF At, Neutral
    <2> QED BY <1>3, <2>1, <2>2, NeutralSerial DEF SerialInv
<1>5. call'[w].at \in Neutral
    <2> HIDE DEF others, lone, leftover
    <2>1. call'[w] = [c EXCEPT !.lone = lone, !.leftover = leftover]
        BY <1>1
    <2> QED BY <1>2, <2>1 DEF Fields, Neutral
<1>6. \A v \in Workers \ {w} : call'[v].at = "idle"
    BY <1>1, <1>3 DEF At
<1>7. Serial(call'[w], graph', trees')
    BY <1>3, <1>4, <1>5, NeutralSerial
<1> QED BY <1>3, <1>4, <1>6, <1>7 DEF SerialInv, At

LEMMA LoadSerial ==
    ASSUME NEW o \in Origins, Good(o), clean', SerialInv, NEW w \in Workers, Load(w)
    PROVE  SerialInv'
<1> DEFINE c == call[w]
<1>1. /\ c.at = "load" /\ DOMAIN c = Fields /\ c.doc \in Documents /\ c.op \in {"open", "update", "delete"}
      /\ c.owner \in Accounts /\ ~At(w, "idle") /\ clean /\ UNCHANGED <<graph, trees, held, drawn>>
    BY CallIs DEF Load, At, Local
<1>2. /\ held' = << >> /\ DocsDrawn(graph', drawn'.docs) /\ HeldBut(graph', trees', {})
    BY <1>1, SerialIs, NeutralSerial DEF Neutral
<1>3. CASE \E answer : Done(w, answer)
    BY <1>1, <1>2, <1>3, DoneSerial
<1>4. CASE OwnedBy(c.doc, c.owner) /\ ~\E answer : Done(w, answer)
    <2>1. PICK s \in ChapterList(c.doc) :
            Goto(w, [c EXCEPT !.old = graph.docs[c.doc].title, !.list = s,
                              !.texts = [x \in IdsIn(s) |-> graph.chapters[x]],
                              !.at = CASE c.op = "open" -> "exists" [] c.op = "update" -> "commit"
                                       [] c.op = "delete" -> "tree"])
        BY <1>4 DEF Load
    <2> DEFINE at == CASE c.op = "open" -> "exists" [] c.op = "update" -> "commit" [] c.op = "delete" -> "tree"
               texts == [x \in IdsIn(s) |-> graph.chapters[x]]
               old == graph.docs[c.doc].title
               r == [c EXCEPT !.old = old, !.list = s, !.texts = texts, !.at = at]
    <2>2. Goto(w, r)
        BY <2>1
    <2>3. at \in {"exists", "commit", "tree"}
        <3>1. c.op = "open" => at = "exists"
            OBVIOUS
        <3>2. c.op = "update" => at = "commit"
            OBVIOUS
        <3>3. c.op = "delete" => at = "tree"
            OBVIOUS
        <3> QED BY <1>1, <3>1, <3>2, <3>3
    <2>4. IsA(graph, c.doc, old, c.owner)
        <3>1. graph.docs[c.doc] \in Document /\ c.doc \in LiveDocs(graph) /\ graph.docs[c.doc].owner = c.owner
            BY <1>1, <1>4 DEF OwnedBy, LiveDocs, Good, GraphOK, Graph
        <3> QED BY <3>1 DEF IsA, Document
    <2> HIDE DEF at, texts, old
    <2>5. r.at = at /\ r.old = old /\ r.doc = c.doc /\ r.owner = c.owner
        BY <1>1 DEF Fields
    <2>6. Strays(r) = {}
        BY <2>3, <2>5 DEF Strays
    <2> HIDE DEF r, c
    <2>7. Serial(r, graph', trees')
        BY <1>1, <1>2, <2>3, <2>4, <2>5, <2>6 DEF Serial
    <2> QED BY <1>1, <1>2, <2>2, <2>7, SerialStep
<1> QED BY <1>3, <1>4 DEF Load

LEMMA SnapshotSerial ==
    ASSUME NEW o \in Origins, Good(o), clean, SerialInv, NEW w \in Workers, ~At(w, "idle"), Step(w, "snapshot"),
           held' = << >>, DocsDrawn(graph', drawn'.docs), HeldBut(graph', trees', {})
    PROVE  SerialInv'
<1> DEFINE r == [call[w] EXCEPT !.at = "snapshot"]
<1>1. DOMAIN call[w] = Fields
    BY CallIs DEF At
<1>2. Goto(w, r) /\ r.at = "snapshot"
    BY <1>1 DEF Step, Fields
<1> HIDE DEF r
<1> QED BY <1>2, NeutralStep DEF Neutral

LEMMA OpenSerial ==
    ASSUME NEW o \in Origins, Good(o), clean', SerialInv, NEW w \in Workers, Exists(w) \/ Materialize(w)
    PROVE  SerialInv'
<1> DEFINE c == call[w]
           x == <<c.owner, c.old>>
<1>1. /\ c.at \in {"exists", "materialize"} /\ DOMAIN c = Fields
      /\ c.owner \in Accounts /\ c.old \in Titles /\ ~At(w, "idle") /\ clean /\ UNCHANGED <<graph, held, drawn>>
    BY CallIs DEF Exists, Materialize, At, Local
<1>2. Strays(c) = {}
    BY <1>1 DEF Strays
<1>3. held = << >> /\ DocsDrawn(graph, drawn.docs) /\ HeldBut(graph, trees, {}) /\ IsA(graph, c.doc, c.old, c.owner)
    BY <1>1, <1>2, SerialIs DEF Serial
<1>4. HeldBut(graph, trees', {})
    <2>1. UNCHANGED trees \/ \E tree : trees' = [trees EXCEPT ![x] = tree]
        BY DEF Exists, Materialize, WriteMeta, WriteFile
    <2>2. ASSUME NEW tree, trees' = [trees EXCEPT ![<<c.owner, c.old>>] = tree]
          PROVE  HeldBut(graph, trees', {})
        <3> DEFINE p == c.owner
                   t == c.old
        <3>1. p \in Places /\ t \in Titles /\ \E d : IsA(graph, d, t, p)
            BY <1>1, <1>3, AccountsArePlaces
        <3>2. trees' = [trees EXCEPT ![<<p, t>>] = tree]
            BY <2>2
        <3> HIDE DEF p, t
        <3>3. HeldBut(graph, [trees EXCEPT ![<<p, t>>] = tree], {})
            BY <1>3, <3>1, PutHeld, TreesTyped
        <3> QED BY <3>2, <3>3
    <2> QED BY <1>3, <2>1, <2>2
<1>5. CASE \E answer : Done(w, answer)
    BY <1>1, <1>3, <1>4, <1>5, DoneSerial
<1>6. ASSUME NEW list, Goto(w, [c EXCEPT !.at = "materialize"]) \/ Goto(w, [c EXCEPT !.list = list])
      PROVE  SerialInv'
    <2> DEFINE r == IF Goto(w, [c EXCEPT !.at = "materialize"]) THEN [c EXCEPT !.at = "materialize"]
                    ELSE [c EXCEPT !.list = list]
    <2>1. Goto(w, r)
        BY <1>6
    <2>2. r.at \in {"exists", "materialize"} /\ r.owner = c.owner /\ r.old = c.old /\ r.doc = c.doc
        BY <1>1 DEF Fields
    <2>3. Strays(r) = {}
        BY <2>2 DEF Strays
    <2> HIDE DEF r
    <2>4. Serial(r, graph', trees')
        BY <1>1, <1>3, <1>4, <2>2, <2>3 DEF Serial
    <2> QED BY <1>1, <1>3, <2>1, <2>4, SerialStep
<1>8. CASE Step(w, "snapshot")
    BY <1>1, <1>3, <1>4, <1>8, SnapshotSerial
<1>7. \/ (\E answer : Done(w, answer)) \/ Step(w, "snapshot")
      \/ \E list : Goto(w, [c EXCEPT !.at = "materialize"]) \/ Goto(w, [c EXCEPT !.list = list])
    BY DEF Exists, Materialize, Step
<1> QED BY <1>5, <1>6, <1>7, <1>8

\* A new document has a number of its own, so that no other loses its title.
LEMMA NewSerial ==
    ASSUME NEW o \in Origins, Good(o), clean', SerialInv, NEW w \in Workers, New(w)
    PROVE  SerialInv'
<1> DEFINE c == call[w]
           n == drawn.chapters
           d == drawn.docs + 1
           write == [kind |-> "document new", doc |-> d, title |-> c.title, owner |-> c.owner, list |-> << >>]
           after == IF c.op = "create" THEN [c EXCEPT !.at = "meta"]
                    ELSE [c EXCEPT !.doc = d, !.at = IF c.writeBack THEN "meta" ELSE "walk"]
           h == Written(graph, write)
<1>1. /\ c.at = "new" /\ DOMAIN c = Fields /\ c.owner \in Accounts /\ c.title \in Titles /\ ~At(w, "idle")
      /\ c.op = "create" \/ c.op = "import"
    BY CallIs DEF New, At, Local, ImportOK
<1>2. d \in Documents /\ drawn' = [drawn EXCEPT !.docs = d] /\ Commit(w, write, after) /\ UNCHANGED trees
    BY DEF New
<1>3. clean
    BY <1>2 DEF Commit
<1>4. held = << >> /\ DocsDrawn(graph, drawn.docs) /\ HeldBut(graph, trees, {})
    BY <1>1, <1>3, SerialIs, NeutralSerial DEF Neutral
<1>5. drawn'.docs = d /\ drawn.docs \in Nat
    BY <1>2 DEF Good
<1>6. DocsDrawn(graph, d)
    <2>1. \A e \in LiveDocs(graph) : e \in Nat
        BY IdsAssumption DEF LiveDocs
    <2> QED BY <1>4, <1>5, <2>1 DEF DocsDrawn
<1>7. h = DocNew(graph, write) /\ h.docs = [graph.docs EXCEPT ![d] = [title |-> c.title, owner |-> c.owner]]
    <2>1. write \in DocWrites(o, n) /\ write.doc = d /\ write.title = c.title /\ write.owner = c.owner
          /\ write.kind = "document new"
        <3>1. << >> \in Seq(Chapters) /\ IdsIn(<< >>) = {}
            BY EmptySeq DEF IdsIn
        <3>2. write \in [kind : {"document new", "document changed"}, doc : Documents, title : Titles,
                         owner : Accounts, list : Seq(Chapters)] /\ write.list = << >>
            BY <1>1, <1>2, <3>1
        <3>3. write.doc = d /\ write.title = c.title /\ write.owner = c.owner /\ write.kind = "document new"
            OBVIOUS
        <3> HIDE DEF write
        <3> QED BY <3>1, <3>2, <3>3 DEF DocWrites
    <2> HIDE DEF write
    <2>2. h = DocNew(graph, write)
        BY <2>1 DEF Written
    <2>3. GraphOK(o, n, graph)
        BY DEF Good
    <2> HIDE DEF h
    <2>5. write \in DocWrites(o, n)
        BY <2>1
    <2> HIDE DEF n, d, c
    <2>4. DocNew(graph, write).docs = [graph.docs EXCEPT ![write.doc] = [title |-> write.title, owner |-> write.owner]]
        BY <2>3, <2>5, DocNewOK
    <2> QED BY <2>1, <2>2, <2>4
<1>8. /\ IsA(h, d, c.title, c.owner) /\ DocsDrawn(h, d) /\ HeldBut(h, trees, {})
    <2> DEFINE doc == [title |-> c.title, owner |-> c.owner]
    <2>1. graph.docs \in [Documents -> Document \cup {NoDocument}] /\ doc \in Document /\ doc # NoDocument
        BY <1>1, SentinelsAssumption DEF Good, GraphOK, Graph, Document
    <2>2. d \notin LiveDocs(graph) /\ d \in Nat
        BY <1>4, <1>5 DEF DocsDrawn
    <2> HIDE DEF h, doc, d
    <2>3. \A e \in Documents : h.docs[e] = IF e = d THEN doc ELSE graph.docs[e]
        BY <1>7, <2>1 DEF doc
    <2>4. LiveDocs(h) = LiveDocs(graph) \cup {d} /\ \A e \in LiveDocs(graph) : h.docs[e] = graph.docs[e]
        BY <1>2, <2>1, <2>2, <2>3 DEF LiveDocs
    <2>5. IsA(h, d, c.title, c.owner)
        BY <1>2, <2>3, <2>4 DEF IsA, doc
    <2>6. DocsDrawn(h, d)
        BY <1>6, <2>2, <2>4 DEF DocsDrawn
    <2> QED BY <1>4, <2>4, <2>5, <2>6 DEF HeldBut, IsA
<1>9. write.kind = "document new"
    OBVIOUS
<1> HIDE DEF write, h
<1>10. \/ graph' = h /\ Goto(w, after) /\ held' = << >>
       \/ graph' = graph /\ Done(w, "error") /\ held' = << >>
    <2> HIDE DEF after
    <2> QED BY <1>2, <1>4, <1>9, CommitAlone DEF h
<1>11. CASE graph' = graph /\ Done(w, "error") /\ held' = << >>
    BY <1>1, <1>2, <1>3, <1>4, <1>5, <1>6, <1>11, DoneSerial
<1>12. CASE graph' = h /\ Goto(w, after) /\ held' = << >>
    <2> HIDE DEF d
    <2>1. HeldBut(graph', trees', {}) /\ DocsDrawn(graph', drawn'.docs)
        BY <1>2, <1>5, <1>8, <1>12
    <2>2. CASE c.op = "create"
        <3> DEFINE r == [c EXCEPT !.at = "meta"]
        <3>1. r.at = "meta" /\ r.title = c.title /\ r.owner = c.owner /\ Goto(w, r)
            BY <1>1, <1>12, <2>2 DEF Fields
        <3>2. Strays(r) = {}
            BY <3>1 DEF Strays
        <3> HIDE DEF r, c
        <3>3. Serial(r, graph', trees')
            BY <1>8, <1>12, <2>1, <3>1, <3>2 DEF Serial
        <3> QED BY <1>1, <1>3, <1>12, <2>1, <3>1, <3>3, SerialStep
    <2>3. CASE c.op = "import"
        <3> DEFINE at == IF c.writeBack THEN "meta" ELSE "walk"
                   r == [c EXCEPT !.doc = d, !.at = at]
        <3>1. at \in {"meta", "walk"} /\ Goto(w, r)
            BY <1>12, <2>3
        <3> HIDE DEF at
        <3>2. r.at = at /\ r.op = "import"
            BY <1>1, <2>3 DEF Fields
        <3> HIDE DEF r
        <3>3. r.at \in Neutral \/ (r.at = "meta" /\ r.op = "import")
            BY <3>1, <3>2 DEF Neutral
        <3> QED BY <1>1, <1>3, <1>12, <2>1, <3>1, <3>3, NeutralStep
    <2> QED BY <1>1, <2>2, <2>3
<1> QED BY <1>10, <1>11, <1>12

\* A document that stays, with another title or owner, beside the others.
LEMMA Redone ==
    ASSUME NEW g, g.docs \in [Documents -> Document \cup {NoDocument}], NEW d \in LiveDocs(g), NEW doc \in Document,
           NEW h, h.docs = [g.docs EXCEPT ![d] = doc]
    PROVE  /\ LiveDocs(h) = LiveDocs(g) /\ h.docs[d] = doc
           /\ \A e \in LiveDocs(g) : e # d => h.docs[e] = g.docs[e]
           /\ \A n : DocsDrawn(g, n) => DocsDrawn(h, n)
<1>1. doc # NoDocument /\ d \in Documents
    BY SentinelsAssumption DEF LiveDocs
<1>2. \A e \in Documents : h.docs[e] = IF e = d THEN doc ELSE g.docs[e]
    BY <1>1
<1>3. LiveDocs(h) = LiveDocs(g)
    BY <1>1, <1>2 DEF LiveDocs
<1>4. \A e \in LiveDocs(g) : e \in Documents
    BY DEF LiveDocs
<1> QED BY <1>1, <1>2, <1>3, <1>4 DEF DocsDrawn

\* The directories of the others are held as before.
LEMMA RedoneHeld ==
    ASSUME NEW g, g.docs \in [Documents -> Document \cup {NoDocument}], NEW d \in LiveDocs(g), NEW doc \in Document,
           NEW h, h.docs = [g.docs EXCEPT ![d] = doc], NEW ts, NEW x, HeldBut(g, ts, x)
    PROVE  HeldBut(h, ts, (x \ {<<doc.owner, doc.title>>}) \cup {<<g.docs[d].owner, g.docs[d].title>>})
<1> DEFINE y == (x \ {<<doc.owner, doc.title>>}) \cup {<<g.docs[d].owner, g.docs[d].title>>}
<1>1. SUFFICES ASSUME NEW a \in Accounts, NEW t \in Titles, <<a, t>> \notin y, ts[<<a, t>>] # NoTree
               PROVE  \E e : IsA(h, e, t, a)
    BY DEF HeldBut
<1>2. LiveDocs(h) = LiveDocs(g) /\ h.docs[d] = doc /\ \A e \in LiveDocs(g) : e # d => h.docs[e] = g.docs[e]
    BY Redone
<1>3. CASE a = doc.owner /\ t = doc.title
    <2>1. doc = [title |-> t, owner |-> a]
        BY <1>3 DEF Document
    <2> QED BY <1>2, <2>1 DEF IsA
<1>4. CASE ~(a = doc.owner /\ t = doc.title)
    <2>1. <<a, t>> # <<doc.owner, doc.title>> /\ <<a, t>> \notin x
        BY <1>1, <1>4
    <2>2. PICK e : IsA(g, e, t, a)
        BY <1>1, <2>1 DEF HeldBut
    <2>3. e # d
        <3> SUFFICES ASSUME e = d PROVE FALSE
            OBVIOUS
        <3>1. g.docs[d].owner = a /\ g.docs[d].title = t
            BY <2>2 DEF IsA
        <3> QED BY <1>1, <3>1
    <2> QED BY <1>2, <2>2, <2>3 DEF IsA
<1> QED BY <1>3, <1>4

LEMMA HeldMore ==
    ASSUME NEW g, NEW ts, NEW x, NEW y, HeldBut(g, ts, x), x \subseteq y
    PROVE  HeldBut(g, ts, y)
BY DEF HeldBut

\* The title is saved where no other document of the account has it, so that
\* its directory can follow.
LEMMA UpdateSerial ==
    ASSUME NEW o \in Origins, Good(o), clean', SerialInv, NEW w \in Workers, Update(w)
    PROVE  SerialInv'
<1> DEFINE c == call[w]
           n == drawn.chapters
           write == [kind |-> "document changed", doc |-> c.doc, title |-> c.title, owner |-> c.owner, list |-> c.list]
           at == IF c.title = c.old THEN "meta" ELSE "rename"
           after == [c EXCEPT !.at = at]
           doc == [title |-> c.title, owner |-> c.owner]
           h == Written(graph, write)
<1>1. /\ c.at = "commit" /\ DOMAIN c = Fields /\ c.owner \in Accounts /\ ~At(w, "idle")
      /\ ListOK(o, n, c) /\ c.op = "update" /\ c.old \in Titles /\ c.title \in Titles
    BY CallIs DEF Update, At, Local
<1>2. Commit(w, write, after) /\ UNCHANGED <<trees, drawn>>
    BY DEF Update
<1>3. clean /\ write.kind = "document changed"
    BY <1>2 DEF Commit
<1>4. Strays(c) = {}
    BY <1>1 DEF Strays
<1>5. /\ held = << >> /\ DocsDrawn(graph, drawn.docs) /\ HeldBut(graph, trees, {})
      /\ IsA(graph, c.doc, c.old, c.owner)
    BY <1>1, <1>3, <1>4, SerialIs DEF Serial
<1>6. c.doc \in LiveDocs(graph) /\ graph.docs[c.doc] = [title |-> c.old, owner |-> c.owner] /\ doc \in Document
      /\ graph.docs \in [Documents -> Document \cup {NoDocument}]
    BY <1>1, <1>5 DEF IsA, Document, Good, GraphOK, Graph
<1>7. h.docs = [graph.docs EXCEPT ![c.doc] = doc]
    <2>1. write \in [kind : {"document new", "document changed"}, doc : Documents, title : Titles,
                     owner : Accounts, list : Seq(Chapters)] /\ write.list = c.list /\ write.doc = c.doc
          /\ write.title = c.title /\ write.owner = c.owner /\ write.kind = "document changed"
        BY <1>1 DEF ListOK
    <2> HIDE DEF write, c
    <2>2. write \in DocWrites(o, n)
        BY <1>1, <2>1 DEF DocWrites, ListOK
    <2>3. GraphOK(o, n, graph)
        BY DEF Good
    <2> HIDE DEF n, h
    <2>4. DocNew(graph, write).docs = [graph.docs EXCEPT ![write.doc] = [title |-> write.title, owner |-> write.owner]]
        BY <2>2, <2>3, DocNewOK
    <2>5. h = DocChanged(graph, write)
        BY <2>1 DEF Written, h
    <2> DEFINE k == DocNew(graph, write)
    <2>6. DOMAIN k = {"docs", "chapters"}
        BY DEF DocNew
    <2> HIDE DEF k
    <2>7. h.docs = k.docs
        BY <2>5, <2>6 DEF DocChanged, k
    <2> QED BY <2>1, <2>4, <2>7 DEF k
<1>8. LiveDocs(h) = LiveDocs(graph) /\ DocsDrawn(h, drawn.docs) /\ IsA(h, c.doc, c.title, c.owner)
      /\ HeldBut(h, trees, {<<c.owner, c.old>>}) /\ \A e \in LiveDocs(graph) : e # c.doc => h.docs[e] = graph.docs[e]
    <2> HIDE DEF h
    <2>1. LiveDocs(h) = LiveDocs(graph) /\ DocsDrawn(h, drawn.docs) /\ h.docs[c.doc] = doc
          /\ \A e \in LiveDocs(graph) : e # c.doc => h.docs[e] = graph.docs[e]
        <3> HIDE DEF c, doc
        <3> QED BY <1>5, <1>6, <1>7, Redone
    <2>2. HeldBut(h, trees, ({} \ {<<doc.owner, doc.title>>}) \cup {<<graph.docs[c.doc].owner, graph.docs[c.doc].title>>})
        <3> HIDE DEF c, doc
        <3> QED BY <1>5, <1>6, <1>7, RedoneHeld
    <2>3. graph.docs[c.doc].owner = c.owner /\ graph.docs[c.doc].title = c.old
        BY <1>6
    <2>4. ({} \ {<<doc.owner, doc.title>>}) \cup {<<graph.docs[c.doc].owner, graph.docs[c.doc].title>>} = {<<c.owner, c.old>>}
        BY <2>3
    <2> QED BY <1>6, <2>1, <2>2, <2>4 DEF IsA
<1> HIDE DEF write, h
<1>9. \/ Unique(h) /\ graph' = h /\ Goto(w, after) /\ held' = << >>
      \/ graph' = graph /\ Done(w, "error") /\ held' = << >>
    <2> HIDE DEF after
    <2> QED BY <1>2, <1>3, <1>5, CommitAlone DEF h
<1>10. CASE graph' = graph /\ Done(w, "error") /\ held' = << >>
    BY <1>1, <1>2, <1>3, <1>5, <1>10, DoneSerial
<1>11. CASE Unique(h) /\ graph' = h /\ Goto(w, after) /\ held' = << >>
    <2>1. /\ after.at = at /\ after.owner = c.owner /\ after.old = c.old /\ after.title = c.title
          /\ after.doc = c.doc /\ after.op = "update"
        BY <1>1 DEF Fields
    <2>2. DocsDrawn(graph', drawn'.docs) /\ trees' = trees
        BY <1>2, <1>8, <1>11
    <2>3. CASE c.title = c.old
        <3>1. after.at = "meta"
            BY <2>1, <2>3
        <3> HIDE DEF after, at
        <3>2. Strays(after) = {}
            BY <3>1 DEF Strays
        <3>3. HeldBut(h, trees, {})
            <4>1. ASSUME NEW a \in Accounts, NEW t \in Titles, trees[<<a, t>>] # NoTree
                  PROVE  \E e : IsA(h, e, t, a)
                <5>1. CASE a = c.owner /\ t = c.old
                    BY <1>8, <2>3, <5>1
                <5>2. CASE ~(a = c.owner /\ t = c.old)
                    BY <1>8, <4>1, <5>2 DEF HeldBut
                <5> QED BY <5>1, <5>2
            <4> QED BY <4>1 DEF HeldBut
        <3> HIDE DEF c
        <3>4. Serial(after, graph', trees')
            BY <1>8, <1>11, <2>1, <2>2, <3>1, <3>2, <3>3 DEF Serial
        <3> QED BY <1>1, <1>3, <1>11, <2>2, <3>4, SerialStep DEF c
    <2>4. CASE c.title # c.old
        <3>1. after.at = "rename"
            BY <2>1, <2>4
        <3> HIDE DEF after, at
        <3>2. Strays(after) = {<<c.owner, c.old>>}
            BY <2>1, <3>1 DEF Strays
        <3>3. trees[<<c.owner, c.title>>] = NoTree
            <4> SUFFICES ASSUME trees[<<c.owner, c.title>>] # NoTree PROVE FALSE
                OBVIOUS
            <4>1. PICK e : IsA(graph, e, c.title, c.owner)
                BY <1>1, <1>5 DEF HeldBut
            <4>2. e # c.doc
                <5> SUFFICES ASSUME e = c.doc PROVE FALSE
                    OBVIOUS
                <5>1. graph.docs[e].title = c.title /\ graph.docs[e].title = c.old
                    BY <1>6, <4>1 DEF IsA
                <5> QED BY <2>4, <5>1
            <4>3. e \in LiveDocs(h) /\ c.doc \in LiveDocs(h)
                BY <1>8, <4>1 DEF IsA
            <4>4. h.docs[e] = [title |-> c.title, owner |-> c.owner] /\ h.docs[c.doc] = [title |-> c.title, owner |-> c.owner]
                BY <1>8, <4>1, <4>2 DEF IsA
            <4>5. h.docs[e].title = c.title /\ h.docs[e].owner = c.owner /\ h.docs[c.doc].title = c.title /\ h.docs[c.doc].owner = c.owner
                BY <4>4
            <4>6. c.owner # Unowned
                BY <1>1, AccountsArePlaces
            <4> HIDE DEF c
            <4> QED BY <1>11, <4>2, <4>3, <4>5, <4>6 DEF Unique, SameKey
        <3> HIDE DEF c
        <3>4. Serial(after, graph', trees')
            BY <1>8, <1>11, <2>1, <2>2, <3>1, <3>2, <3>3 DEF Serial
        <3> QED BY <1>1, <1>3, <1>11, <2>2, <3>4, SerialStep DEF c
    <2> QED BY <2>3, <2>4
<1> QED BY <1>9, <1>10, <1>11

LEMMA RenameSerial ==
    ASSUME NEW o \in Origins, Good(o), clean', SerialInv, NEW w \in Workers, Rename(w)
    PROVE  SerialInv'
<1> DEFINE c == call[w]
           x == <<c.owner, c.old>>
           y == <<c.owner, c.title>>
<1>1. /\ c.at = "rename" /\ DOMAIN c = Fields /\ c.owner \in Accounts /\ ~At(w, "idle") /\ c.op = "update"
      /\ c.old \in Titles /\ c.title \in Titles /\ clean /\ UNCHANGED <<graph, held, drawn>>
      /\ (HasTree(c.owner, c.old) /\ ~HasTree(c.owner, c.title) => x \in tracked)
    BY CallIs DEF Rename, At, Local
<1>2. Strays(c) = {x}
    BY <1>1 DEF Strays
<1>3. /\ held = << >> /\ DocsDrawn(graph, drawn.docs) /\ HeldBut(graph, trees, {x})
      /\ IsA(graph, c.doc, c.title, c.owner) /\ trees[y] = NoTree
    BY <1>1, <1>2, SerialIs DEF Serial
<1>4. x \in Places \X Titles /\ y \in Places \X Titles
    BY <1>1, AccountsArePlaces
<1>5. HeldBut(graph, trees', {})
    <2>1. CASE HasTree(c.owner, c.old)
        <3> DEFINE ts == [trees EXCEPT ![x] = NoTree]
                   tree == trees[x]
                   put == IF tree.meta = NoTitle THEN tree ELSE [tree EXCEPT !.meta = c.title]
        <3>1. trees' = [trees EXCEPT ![x] = NoTree, ![y] = put]
            BY <1>1, <1>3, <2>1 DEF Rename, HasTree, Renamed
        <3> HIDE DEF put
        <3>2. trees' = [ts EXCEPT ![y] = put]
            BY <3>1
        <3>3. ts \in [Places \X Titles -> Tree \cup {NoTree}]
            BY TreesTyped
        <3>4. HeldBut(graph, ts, {})
            <4>1. HeldBut(graph, [trees EXCEPT ![<<c.owner, c.old>>] = NoTree], {x} \ {<<c.owner, c.old>>})
                <5>1. c.owner \in Places /\ c.old \in Titles
                    BY <1>1, AccountsArePlaces
                <5> HIDE DEF x, c
                <5> QED BY <1>3, <5>1, RemoveHeld, TreesTyped
            <4>2. {x} \ {<<c.owner, c.old>>} = {}
                OBVIOUS
            <4> QED BY <4>1, <4>2
        <3> HIDE DEF ts
        <3>5. HeldBut(graph, [ts EXCEPT ![<<c.owner, c.title>>] = put], {})
            <4>1. c.owner \in Places /\ c.title \in Titles /\ \E d : IsA(graph, d, c.title, c.owner)
                BY <1>1, <1>3, AccountsArePlaces
            <4> HIDE DEF c
            <4> QED BY <3>3, <3>4, <4>1, PutHeld
        <3> QED BY <3>2, <3>5
    <2>2. CASE ~HasTree(c.owner, c.old)
        <3>1. trees' = trees /\ trees[x] = NoTree
            BY <2>2 DEF Rename, HasTree
        <3>2. HeldBut(graph, trees, {})
            <4>1. ASSUME NEW a \in Accounts, NEW t \in Titles, trees[<<a, t>>] # NoTree
                  PROVE  <<a, t>> \notin {x}
                BY <3>1, <4>1
            <4> QED BY <1>3, <4>1 DEF HeldBut
        <3> QED BY <3>1, <3>2
    <2> QED BY <2>1, <2>2
<1>6. Step(w, "meta")
    BY <1>1, <1>3 DEF Rename, HasTree
<1> DEFINE r == [c EXCEPT !.at = "meta"]
<1>7. Goto(w, r) /\ r.at = "meta" /\ r.title = c.title /\ r.owner = c.owner
    BY <1>1, <1>6 DEF Fields, Step
<1>8. Strays(r) = {}
    BY <1>7 DEF Strays
<1> HIDE DEF r, c
<1>9. Serial(r, graph', trees')
    BY <1>1, <1>3, <1>5, <1>7, <1>8 DEF Serial
<1> QED BY <1>1, <1>3, <1>7, <1>9, SerialStep DEF c

LEMMA MetaSerial ==
    ASSUME NEW o \in Origins, Good(o), clean', SerialInv, NEW w \in Workers, Meta(w)
    PROVE  SerialInv'
<1> DEFINE c == call[w]
<1>1. /\ c.at = "meta" /\ DOMAIN c = Fields /\ c.owner \in Accounts /\ ~At(w, "idle") /\ c.title \in Titles
      /\ (c.op = "import" => c.place \in Places /\ c.dir \in Titles)
      /\ clean /\ UNCHANGED <<graph, held, drawn>>
    BY CallIs DEF Meta, At, Local, ImportOK
<1>2. Strays(c) = {}
    BY <1>1 DEF Strays
<1>3. /\ held = << >> /\ DocsDrawn(graph, drawn.docs) /\ HeldBut(graph, trees, {})
      /\ c.op # "import" => \E d : IsA(graph, d, c.title, c.owner)
    BY <1>1, <1>2, SerialIs DEF Serial
<1>4. CASE c.op # "import"
    <2>1. WriteMeta(c.owner, c.title, c.title) /\ (Done(w, "ok") \/ Step(w, "snapshot"))
        BY <1>4 DEF Meta
    <2>2. PICK tree : trees' = [trees EXCEPT ![<<c.owner, c.title>>] = tree]
        BY <2>1 DEF WriteMeta
    <2>3. HeldBut(graph, trees', {})
        <3>1. c.owner \in Places
            BY <1>1, AccountsArePlaces
        <3> HIDE DEF c
        <3> QED BY <1>1, <1>3, <1>4, <2>2, <3>1, PutHeld, TreesTyped
    <2> QED BY <1>1, <1>3, <2>1, <2>3, DoneSerial, SnapshotSerial
<1>5. CASE c.op = "import" /\ ~HasTree(c.place, c.dir)
    BY <1>1, <1>3, <1>5, DoneSerial DEF Meta
<1>6. CASE c.op = "import" /\ HasTree(c.place, c.dir)
    <2>1. WriteMeta(c.place, c.dir, c.title) /\ Step(w, "walk")
        BY <1>6 DEF Meta
    <2>2. PICK tree : trees' = [trees EXCEPT ![<<c.place, c.dir>>] = tree]
        BY <2>1 DEF WriteMeta
    <2>3. HeldBut(graph, trees', {})
        <3>1. trees[<<c.place, c.dir>>] # NoTree
            BY <1>6 DEF HasTree
        <3> HIDE DEF c
        <3> QED BY <1>1, <1>3, <1>6, <2>2, <3>1, PutHeld, TreesTyped
    <2> DEFINE r == [c EXCEPT !.at = "walk"]
    <2>4. Goto(w, r) /\ r.at = "walk"
        BY <1>1, <2>1 DEF Step, Fields
    <2> HIDE DEF r
    <2> QED BY <1>1, <1>3, <2>3, <2>4, NeutralStep DEF Neutral
<1> QED BY <1>4, <1>5, <1>6

LEMMA DeleteTreeSerial ==
    ASSUME NEW o \in Origins, Good(o), clean', SerialInv, NEW w \in Workers, DeleteTree(w)
    PROVE  SerialInv'
<1> DEFINE c == call[w]
           r == [c EXCEPT !.at = "drop"]
<1>1. /\ c.at = "tree" /\ DOMAIN c = Fields /\ c.owner \in Accounts /\ ~At(w, "idle") /\ c.old \in Titles
      /\ clean /\ UNCHANGED <<graph, held, drawn>> /\ RemoveTree(c.owner, c.old) /\ Goto(w, r)
    BY CallIs DEF DeleteTree, At, Local, Step
<1>2. Strays(c) = {}
    BY <1>1 DEF Strays
<1>3. held = << >> /\ DocsDrawn(graph, drawn.docs) /\ HeldBut(graph, trees, {}) /\ IsA(graph, c.doc, c.old, c.owner)
    BY <1>1, <1>2, SerialIs DEF Serial
<1>4. r.at = "drop" /\ r.owner = c.owner /\ r.old = c.old /\ r.doc = c.doc
    BY <1>1 DEF Fields
<1>5. Strays(r) = {}
    BY <1>4 DEF Strays
<1>6. c.owner \in Places
    BY <1>1, AccountsArePlaces
<1> HIDE DEF c, r
<1>7. HeldBut(graph, trees', {}) /\ trees'[<<c.owner, c.old>>] = NoTree
    <2>1. HeldBut(graph, [trees EXCEPT ![<<c.owner, c.old>>] = NoTree], {} \ {<<c.owner, c.old>>})
        BY <1>1, <1>3, <1>6, RemoveHeld, TreesTyped
    <2>2. {} \ {<<c.owner, c.old>>} = {}
        OBVIOUS
    <2>3. <<c.owner, c.old>> \in Places \X Titles
        BY <1>1, <1>6
    <2> QED BY <1>1, <2>1, <2>2, <2>3, TreesTyped DEF RemoveTree
<1>8. Serial(r, graph', trees')
    BY <1>1, <1>3, <1>4, <1>5, <1>7 DEF Serial
<1> QED BY <1>1, <1>3, <1>8, SerialStep DEF c

\* The document goes after its directory.
LEMMA DeleteSerial ==
    ASSUME NEW o \in Origins, Good(o), clean', SerialInv, NEW w \in Workers, Delete(w)
    PROVE  SerialInv'
<1> DEFINE c == call[w]
           write == [kind |-> "document deleted", doc |-> c.doc, owner |-> c.owner]
           after == [Idle EXCEPT !.op = c.op, !.answer = "ok"]
           h == Written(graph, write)
<1>1. c.at = "drop" /\ ~At(w, "idle") /\ Commit(w, write, after) /\ UNCHANGED <<trees, drawn>>
    BY DEF Delete, At
<1>2. clean /\ write.kind = "document deleted"
    BY <1>1 DEF Commit
<1>3. Strays(c) = {}
    BY <1>1 DEF Strays
<1>4. /\ held = << >> /\ DocsDrawn(graph, drawn.docs) /\ HeldBut(graph, trees, {})
      /\ IsA(graph, c.doc, c.old, c.owner) /\ trees[<<c.owner, c.old>>] = NoTree
    BY <1>1, <1>2, <1>3, SerialIs DEF Serial
<1>5. graph.docs \in [Documents -> Document \cup {NoDocument}]
    BY DEF Good, GraphOK, Graph
<1>6. h.docs = [graph.docs EXCEPT ![c.doc] = NoDocument]
    <2>1. write.kind = "document deleted" /\ write.doc = c.doc /\ write.owner = c.owner
        OBVIOUS
    <2>2. c.doc \in LiveDocs(graph) /\ graph.docs[c.doc].owner = c.owner
        BY <1>4 DEF IsA
    <2> HIDE DEF write
    <2>3. h = DocDeleted(graph, write)
        BY <2>1 DEF Written
    <2> HIDE DEF h
    <2> QED BY <2>1, <2>2, <2>3 DEF DocDeleted
<1>7. HeldBut(h, trees, {}) /\ DocsDrawn(h, drawn.docs)
    <2> HIDE DEF h
    <2>1. \A e \in Documents : h.docs[e] = IF e = c.doc THEN NoDocument ELSE graph.docs[e]
        BY <1>5, <1>6
    <2>2. LiveDocs(h) = LiveDocs(graph) \ {c.doc}
        BY <2>1 DEF LiveDocs
    <2>3. \A e \in LiveDocs(h) : e \in LiveDocs(graph) /\ h.docs[e] = graph.docs[e]
        BY <2>1, <2>2 DEF LiveDocs
    <2>4. ASSUME NEW a \in Accounts, NEW t \in Titles, trees[<<a, t>>] # NoTree
          PROVE  \E e : IsA(h, e, t, a)
        <3>1. PICK e : IsA(graph, e, t, a)
            BY <1>4, <2>4 DEF HeldBut
        <3>2. e # c.doc
            <4> SUFFICES ASSUME e = c.doc PROVE FALSE
                OBVIOUS
            <4>1. [title |-> t, owner |-> a] = [title |-> c.old, owner |-> c.owner]
                BY <1>4, <3>1 DEF IsA
            <4>2. t = c.old /\ a = c.owner
                BY <4>1
            <4> QED BY <1>4, <2>4, <4>2
        <3> QED BY <2>2, <2>3, <3>1, <3>2 DEF IsA
    <2> QED BY <1>4, <2>2, <2>4 DEF HeldBut, DocsDrawn
<1>8. after.at = "idle"
    BY DEF Idle
<1> HIDE DEF write, h, after
<1>9. \/ graph' = h /\ Goto(w, after) /\ held' = << >>
      \/ graph' = graph /\ Done(w, "error") /\ held' = << >>
    BY <1>1, <1>2, <1>4, CommitAlone DEF h
<1>10. CASE graph' = graph /\ Done(w, "error") /\ held' = << >>
    BY <1>1, <1>2, <1>4, <1>10, DoneSerial
<1>11. CASE graph' = h /\ Goto(w, after) /\ held' = << >>
    BY <1>1, <1>2, <1>7, <1>8, <1>11, NeutralStep DEF Neutral
<1> QED BY <1>9, <1>10, <1>11

\* A step that knows nothing and leaves the titles and the trees.
LEMMA StillSerial ==
    ASSUME NEW o, Good(o), clean, SerialInv, NEW w \in Workers, call[w].at \in Neutral, ~At(w, "idle"),
           held' = << >>, trees' = trees, graph'.docs = graph.docs, drawn'.docs = drawn.docs,
           NEW r, Goto(w, r), r.at \in Neutral
    PROVE  SerialInv'
<1>1. held = << >> /\ DocsDrawn(graph, drawn.docs) /\ HeldBut(graph, trees, {})
    BY SerialIs, NeutralSerial
<1>2. DocsDrawn(graph', drawn'.docs) /\ HeldBut(graph', trees', {})
    BY <1>1, SameDocs
<1> QED BY <1>2, NeutralStep

LEMMA StillTurned ==
    ASSUME NEW o, Good(o), clean, SerialInv, NEW w \in Workers, call[w].at \in Neutral, ~At(w, "idle"),
           held' = << >>, trees' = trees, graph'.docs = graph.docs, drawn'.docs = drawn.docs,
           Turn(w) \/ Refused(w) \/ (\E answer : Done(w, answer)) \/ (\E id : Goto(w, After(w, id)))
    PROVE  SerialInv'
<1>1. held = << >> /\ DocsDrawn(graph, drawn.docs) /\ HeldBut(graph, trees, {})
    BY SerialIs, NeutralSerial
<1>2. DocsDrawn(graph', drawn'.docs) /\ HeldBut(graph', trees', {})
    BY <1>1, SameDocs
<1>3. CASE \E id : Goto(w, After(w, id))
    <2>1. PICK id : Goto(w, After(w, id))
        BY <1>3
    <2>2. After(w, id).at \in Neutral
        BY AfterAt, CallIs DEF Neutral
    <2> QED BY <1>2, <2>1, <2>2, NeutralStep
<1> QED BY <1>2, <1>3, TurnSerial, RefusedSerial, DoneSerial

LEMMA NeutralOnesSerial ==
    ASSUME NEW o \in Origins, Good(o), clean', SerialInv, NEW w \in Workers,
           Check(w) \/ Snapshot(w) \/ Unassigned(w) \/ Resolve(w) \/ LoadShell(w) \/ Walk(w) \/ Apply(w) \/ Order(w)
    PROVE  SerialInv'
<1> DEFINE c == call[w]
<1>1. /\ c.at \in Neutral /\ ~At(w, "idle") /\ DOMAIN c = Fields /\ clean /\ held' = held /\ trees' = trees
      /\ drawn \in [docs : Nat, chapters : Nat]
    BY CallIs DEF Check, Snapshot, Unassigned, Resolve, LoadShell, Walk, Apply, Order, At, Neutral, Good
<1>2. graph'.docs = graph.docs
    <2>1. UNCHANGED graph \/ graph' = Reordered(graph, c.doc, c.ids)
        BY DEF Check, Snapshot, Unassigned, Resolve, LoadShell, Walk, Apply, Order
    <2>2. DOMAIN graph = {"docs", "chapters"}
        BY DEF Good, GraphOK, Graph
    <2> QED BY <2>1, <2>2 DEF Reordered
<1>3. drawn'.docs = drawn.docs
    <2>1. UNCHANGED drawn \/ drawn' = [drawn EXCEPT !.chapters = @ + 1]
        BY DEF Check, Snapshot, Unassigned, Resolve, LoadShell, Walk, Apply, Order
    <2> QED BY <1>1, <2>1
<1>4. held = << >>
    BY <1>1, SerialIs
<1>5. \A r : Goto(w, r) /\ r.at \in Neutral => SerialInv'
    BY <1>1, <1>2, <1>3, <1>4, StillSerial
<1>6. CASE (\E answer : Done(w, answer)) \/ (\E id : Goto(w, After(w, id)))
    BY <1>1, <1>2, <1>3, <1>4, <1>6, StillTurned
<1>7. CASE Step(w, "new")
    <2> DEFINE r == [c EXCEPT !.at = "new"]
    <2>1. Goto(w, r) /\ r.at = "new"
        BY <1>1, <1>7 DEF Step, Fields
    <2> HIDE DEF r
    <2> QED BY <1>5, <2>1 DEF Neutral
<1>8. ASSUME NEW s, Goto(w, [c EXCEPT !.todo = s, !.at = "find"])
      PROVE  SerialInv'
    <2> DEFINE r == [c EXCEPT !.todo = s, !.at = "find"]
    <2>1. Goto(w, r) /\ r.at = "find"
        BY <1>1, <1>8 DEF Fields
    <2> HIDE DEF r
    <2> QED BY <1>5, <2>1 DEF Neutral
<1>9. ASSUME NEW title, Goto(w, [c EXCEPT !.title = title, !.at = "new"])
      PROVE  SerialInv'
    <2> DEFINE r == [c EXCEPT !.title = title, !.at = "new"]
    <2>1. Goto(w, r) /\ r.at = "new"
        BY <1>1, <1>9 DEF Fields
    <2> HIDE DEF r
    <2> QED BY <1>5, <2>1 DEF Neutral
<1>10. ASSUME NEW known, Goto(w, [c EXCEPT !.known = known, !.at = "walk"])
       PROVE  SerialInv'
    <2> DEFINE r == [c EXCEPT !.known = known, !.at = "walk"]
    <2>1. Goto(w, r) /\ r.at = "walk"
        BY <1>1, <1>10 DEF Fields
    <2> HIDE DEF r
    <2> QED BY <1>5, <2>1 DEF Neutral
<1>19. ASSUME NEW title, NEW d, Goto(w, [c EXCEPT !.title = title, !.doc = d, !.at = "shell"])
       PROVE  SerialInv'
    <2> DEFINE r == [c EXCEPT !.title = title, !.doc = d, !.at = "shell"]
    <2>1. Goto(w, r) /\ r.at = "shell"
        BY <1>1, <1>19 DEF Fields
    <2> HIDE DEF r
    <2> QED BY <1>5, <2>1 DEF Neutral
<1>11. ASSUME NEW files, NEW whole, Goto(w, [c EXCEPT !.files = files, !.whole = whole, !.at = "apply"])
       PROVE  SerialInv'
    <2> DEFINE r == [c EXCEPT !.files = files, !.whole = whole, !.at = "apply"]
    <2>1. Goto(w, r) /\ r.at = "apply"
        BY <1>1, <1>11 DEF Fields
    <2> HIDE DEF r
    <2> QED BY <1>5, <2>1 DEF Neutral
<1>12. ASSUME NEW id, NEW text, Goto(w, [c EXCEPT !.new = id, !.text = text, !.at = "persist"])
       PROVE  SerialInv'
    <2> DEFINE r == [c EXCEPT !.new = id, !.text = text, !.at = "persist"]
    <2>1. Goto(w, r) /\ r.at = "persist"
        BY <1>1, <1>12 DEF Fields
    <2> HIDE DEF r
    <2> QED BY <1>5, <2>1 DEF Neutral
<1>13. CASE Check(w)
    BY <1>6, <1>7, <1>13 DEF Check
<1>14. CASE Unassigned(w)
    BY <1>6, <1>8, <1>14 DEF Unassigned
<1>15. CASE Resolve(w)
    BY <1>6, <1>9, <1>15, <1>19 DEF Resolve
<1>20. CASE LoadShell(w)
    BY <1>7, <1>10, <1>20 DEF LoadShell
<1>21. CASE Snapshot(w)
    BY <1>6, <1>21 DEF Snapshot
<1>16. CASE Walk(w)
    BY <1>6, <1>11, <1>16, Zenon DEF Walk
<1>17. CASE Apply(w)
    BY <1>6, <1>12, <1>17 DEF Apply
<1>18. CASE Order(w)
    BY <1>6, <1>18 DEF Order
<1> QED BY <1>13, <1>14, <1>15, <1>16, <1>17, <1>18, <1>20, <1>21

LEMMA PersistSerial ==
    ASSUME NEW o \in Origins, Good(o), clean', SerialInv, NEW w \in Workers, Persist(w)
    PROVE  SerialInv'
<1> DEFINE c == call[w]
           write == [kind |-> "chapter new", doc |-> c.doc, owner |-> c.owner, chapter |-> c.new,
                     path |-> c.files[Len(c.ids) + 1], text |-> c.text]
           back == [c EXCEPT !.at = "back"]
           after == IF c.writeBack THEN back ELSE After(w, c.new)
           h == Written(graph, write)
<1>1. /\ c.at = "persist" /\ DOMAIN c = Fields /\ ~At(w, "idle") /\ Commit(w, write, after)
      /\ UNCHANGED <<trees, drawn>>
    BY CallIs, Zenon DEF Persist, At
<1>2. clean /\ write.kind = "chapter new" /\ c.at \in Neutral
    BY <1>1 DEF Commit, Neutral
<1>3. held = << >>
    BY <1>1, <1>2, SerialIs
<1>4. h.docs = graph.docs
    <2> HIDE DEF write
    <2>1. h = ChapterNew(graph, write)
        BY <1>2 DEF Written
    <2>2. DOMAIN graph = {"docs", "chapters"}
        BY DEF Good, GraphOK, Graph
    <2> QED BY <2>1, <2>2 DEF ChapterNew
<1> HIDE DEF write, h
<1>5. \/ graph' = h /\ Goto(w, after) /\ held' = << >>
      \/ graph' = graph /\ Done(w, "error") /\ held' = << >>
    <2> HIDE DEF after
    <2> QED BY <1>1, <1>2, <1>3, CommitAlone DEF h
<1>6. graph'.docs = graph.docs /\ held' = << >> /\ (Goto(w, back) \/ Done(w, "error") \/ \E id : Goto(w, After(w, id)))
    BY <1>4, <1>5
<1>7. CASE Goto(w, back)
    <2>1. back.at = "back"
        BY <1>1 DEF Fields
    <2>2. back.at \in Neutral
        BY <2>1 DEF Neutral
    <2> HIDE DEF back
    <2> QED BY <1>1, <1>2, <1>6, <1>7, <2>2, StillSerial
<1> HIDE DEF back
<1> QED BY <1>1, <1>2, <1>6, <1>7, StillTurned

LEMMA WriteBackSerial ==
    ASSUME NEW o \in Origins, Good(o), clean', SerialInv, NEW w \in Workers, WriteBack(w)
    PROVE  SerialInv'
<1> DEFINE c == call[w]
<1>1. c.at = "back" /\ DOMAIN c = Fields /\ ~At(w, "idle") /\ clean /\ UNCHANGED <<graph, held, drawn>>
    BY CallIs DEF WriteBack, At
<1>2. c.place \in Places /\ c.dir \in Titles
    <2>1. Local(o, drawn.chapters, c)
        BY <1>1, CallIs
    <2> HIDE DEF c
    <2> QED BY <1>1, <2>1 DEF Local, FilesOK, ImportOK
<1>3. held = << >> /\ DocsDrawn(graph, drawn.docs) /\ HeldBut(graph, trees, {})
    BY <1>1, SerialIs, NeutralSerial DEF Neutral
<1>4. CASE ~HasTree(c.place, c.dir)
    BY <1>1, <1>3, <1>4, DoneSerial DEF WriteBack
<1>5. CASE HasTree(c.place, c.dir)
    <2>1. Goto(w, After(w, c.new)) /\ \E tree : trees' = [trees EXCEPT ![<<c.place, c.dir>>] = tree]
        BY <1>5 DEF WriteBack, WriteFile
    <2>2. PICK tree : trees' = [trees EXCEPT ![<<c.place, c.dir>>] = tree]
        BY <2>1
    <2>3. HeldBut(graph, trees', {})
        <3>1. trees[<<c.place, c.dir>>] # NoTree
            BY <1>5 DEF HasTree
        <3> HIDE DEF c
        <3> QED BY <1>2, <1>3, <2>2, <3>1, PutHeld, TreesTyped
    <2>4. After(w, c.new).at \in Neutral
        BY <1>1, AfterAt DEF Neutral
    <2> QED BY <1>1, <1>3, <2>1, <2>3, <2>4, NeutralStep
<1> QED BY <1>4, <1>5

LEMMA FindSerial ==
    ASSUME NEW o \in Origins, Good(o), clean', SerialInv, NEW w \in Workers, Find(w)
    PROVE  SerialInv'
<1> DEFINE c == call[w]
           d == Head(c.todo)
           doc == graph.docs[d]
           source == Located(doc.owner, doc.title)
           at == IF source = NoTree THEN "stamp" ELSE "copy"
           old == doc.title
           r == [c EXCEPT !.old = old, !.source = source, !.at = at]
<1>1. /\ c.at = "find" /\ DOMAIN c = Fields /\ c.owner \in Accounts /\ ~At(w, "idle") /\ c.at \in Neutral
      /\ clean /\ UNCHANGED <<graph, trees, held, drawn>>
    BY CallIs DEF Find, At, Local, Neutral
<1>2. held = << >> /\ DocsDrawn(graph, drawn.docs) /\ HeldBut(graph, trees, {})
    BY <1>1, SerialIs, NeutralSerial
<1>3. CASE Turn(w) \/ Refused(w)
    BY <1>1, <1>2, <1>3, StillTurned
<1>4. CASE ~(Turn(w) \/ Refused(w))
    <2>1. /\ Goto(w, r) /\ doc.owner # c.owner /\ d \in LiveDocs(graph)
          /\ ~TitleTaken(c.owner, old, {d})
        BY <1>4 DEF Find, Summary
    <2>2. ~Taken(graph, c.owner, old, {d})
        <3> HIDE DEF c, d, old
        <3> QED BY <2>1 DEF Taken, TitleTaken, Held, OwnedBy, LiveDocs
    <2>3. /\ source \in {doc.owner, Flat, NoTree} /\ source # c.owner
          /\ source # NoTree => trees[<<source, old>>] # NoTree
          /\ doc.owner \in Accounts /\ source # doc.owner => trees[<<doc.owner, old>>] = NoTree
        <3> DEFINE own == doc.owner
        <3>1. own # c.owner /\ c.owner \in Accounts /\ c.owner # Flat /\ c.owner # NoTree /\ Unowned \notin Accounts
            BY <1>1, <2>1, PlacesAssumption
        <3>2. source = Located(own, old)
            OBVIOUS
        <3> HIDE DEF own, old, source, c
        <3>3. source = IF own # Unowned /\ HasTree(own, old) THEN own ELSE IF HasTree(Flat, old) THEN Flat ELSE NoTree
            BY <3>2 DEF Located
        <3>4. CASE own # Unowned /\ HasTree(own, old)
            BY <3>1, <3>3, <3>4 DEF HasTree, own
        <3>5. CASE ~(own # Unowned /\ HasTree(own, old)) /\ HasTree(Flat, old)
            BY <3>1, <3>3, <3>5 DEF HasTree, own
        <3>6. CASE ~(own # Unowned /\ HasTree(own, old)) /\ ~HasTree(Flat, old)
            BY <3>1, <3>3, <3>6 DEF HasTree, own
        <3> QED BY <3>4, <3>5, <3>6
    <2>4. at \in {"stamp", "copy"}
        OBVIOUS
    <2> HIDE DEF at, source
    <2>5. doc.title = old
        OBVIOUS
    <2> HIDE DEF old
    <2>6. r.at = at /\ r.owner = c.owner /\ r.source = source /\ r.todo = c.todo /\ r.old = old
        BY <1>1 DEF Fields
    <2> HIDE DEF r
    <2>7. Turned(r, graph, trees)
        <3>1. Head(r.todo) = d
            BY <2>6
        <3> HIDE DEF c, d
        <3> QED BY <2>1, <2>2, <2>3, <2>5, <2>6, <3>1 DEF Turned
    <2>8. HeldBut(graph, trees, Strays(r))
        BY <1>2, HeldMore
    <2> HIDE DEF c, d
    <2>9. Serial(r, graph', trees')
        BY <1>1, <2>4, <2>6, <2>7, <2>8 DEF Serial
    <2> QED BY <1>1, <1>2, <2>1, <2>9, SerialStep DEF c
<1> QED BY <1>3, <1>4

\* The directory is where the document was found, and nothing is in the way.
LEMMA AdoptSerial ==
    ASSUME NEW o \in Origins, Good(o), clean', SerialInv, NEW w \in Workers, Adopt(w)
    PROVE  SerialInv'
<1> DEFINE c == call[w]
           x == <<c.owner, c.old>>
           tree == trees[<<c.source, c.old>>]
           new == [EmptyTree EXCEPT !.meta = tree.meta]
           at == IF FilesIn(tree) = {} THEN "adopted" ELSE "copying"
           left == FilesIn(tree)
           r == [c EXCEPT !.left = left, !.at = at]
<1>1. /\ c.at = "copy" /\ DOMAIN c = Fields /\ c.owner \in Accounts /\ ~At(w, "idle")
      /\ c.old \in Titles /\ c.source \in Accounts \cup {Flat} /\ clean /\ UNCHANGED <<graph, held, drawn>>
    BY CallIs DEF Adopt, At, Local, SourceOK
<1>2. Strays(c) = {}
    BY <1>1 DEF Strays
<1>3. held = << >> /\ DocsDrawn(graph, drawn.docs) /\ HeldBut(graph, trees, {}) /\ Turned(c, graph, trees)
    BY <1>1, <1>2, SerialIs DEF Serial
<1>4. HasTree(c.source, c.old)
    BY <1>1, <1>3, AccountsArePlaces DEF Turned, HasTree
<1>5. CASE HasTree(c.owner, c.old)
    <2>1. Refused(w) /\ UNCHANGED trees
        BY <1>4, <1>5 DEF Adopt, AdoptOnto
    <2> QED BY <1>1, <1>3, <2>1, RefusedSerial
<1>6. CASE ~HasTree(c.owner, c.old)
    <2>1. trees' = [trees EXCEPT ![<<c.owner, c.old>>] = new] /\ Goto(w, r)
        BY <1>4, <1>6 DEF Adopt
    <2>2. at \in {"adopted", "copying"}
        OBVIOUS
    <2>3. new \in Tree
        <3>1. tree \in Tree
            <4>1. <<c.source, c.old>> \in Places \X Titles
                BY <1>1, AccountsArePlaces
            <4> QED BY <1>4, <4>1, TreesTyped DEF HasTree
        <3> HIDE DEF tree
        <3> QED BY <3>1, EmptyTreeOK DEF TreeOK, Tree
    <2>4. new # NoTree
        BY <2>3, SentinelsAssumption
    <2>5. x \in Places \X Titles /\ c.owner \in Places /\ x # <<c.source, c.old>>
        BY <1>1, <1>3, AccountsArePlaces DEF Turned
    <2> HIDE DEF new, at, left
    <2>6. r.at = at /\ r.owner = c.owner /\ r.source = c.source /\ r.todo = c.todo /\ r.old = c.old /\ r.left = left
        BY <1>1 DEF Fields
    <2> HIDE DEF r
    <2>7. Strays(r) = {x}
        BY <2>2, <2>6 DEF Strays
    <2>8. \A y \in Places \X Titles : trees'[y] = IF y = x THEN new ELSE trees[y]
        BY <2>1, TreesTyped
    <2>9. HeldBut(graph, trees', {x})
        <3>1. HeldBut(graph, trees, {x}) /\ <<c.owner, c.old>> \in {x}
            BY <1>3, HeldMore
        <3> HIDE DEF x, c
        <3> QED BY <1>1, <2>1, <2>5, <3>1, PutHeld, TreesTyped
    <2>10. trees'[<<c.source, c.old>>] = tree /\ trees'[x] = new
        <3>1. <<c.source, c.old>> \in Places \X Titles
            BY <1>1, AccountsArePlaces
        <3> HIDE DEF x
        <3> QED BY <2>5, <2>8, <3>1
    <2>11. Turned(r, graph, trees')
        <3> DEFINE d == Head(c.todo)
                   owner == graph.docs[d].owner
        <3>1. /\ d \in LiveDocs(graph) /\ graph.docs[d].title = c.old
              /\ owner # c.owner /\ c.source # c.owner /\ ~Taken(graph, c.owner, c.old, {d})
              /\ c.source # NoTree => tree # NoTree
              /\ owner \in Accounts /\ c.source # owner => trees[<<owner, c.old>>] = NoTree
            BY <1>3 DEF Turned
        <3>2. owner \in Accounts => trees'[<<owner, c.old>>] = trees[<<owner, c.old>>]
            <4> SUFFICES ASSUME owner \in Accounts PROVE trees'[<<owner, c.old>>] = trees[<<owner, c.old>>]
                OBVIOUS
            <4>1. <<owner, c.old>> \in Places \X Titles /\ <<owner, c.old>> # x
                BY <1>1, <3>1, AccountsArePlaces
            <4> HIDE DEF owner, x
            <4> QED BY <2>8, <4>1
        <3>3. Head(r.todo) = d
            BY <2>6
        <3> HIDE DEF c, tree, d
        <3> QED BY <2>6, <2>10, <3>1, <3>2, <3>3 DEF Turned
    <2>12. Serial(r, graph', trees')
        <3>1. left \subseteq FilesIn(trees'[<<c.source, c.old>>]) /\ trees'[<<c.owner, c.old>>] # NoTree
            BY <2>4, <2>10 DEF left
        <3> HIDE DEF c, x, tree
        <3> QED BY <1>1, <2>2, <2>6, <2>7, <2>9, <2>11, <3>1 DEF Serial
    <2> QED BY <1>1, <1>3, <2>1, <2>12, SerialStep
<1> QED BY <1>5, <1>6

LEMMA CopyFileSerial ==
    ASSUME NEW o \in Origins, Good(o), clean', SerialInv, NEW w \in Workers, CopyFile(w)
    PROVE  SerialInv'
<1> DEFINE c == call[w]
           x == <<c.owner, c.old>>
           tree == trees[<<c.source, c.old>>]
<1>1. /\ c.at = "copying" /\ DOMAIN c = Fields /\ c.owner \in Accounts /\ ~At(w, "idle") /\ c.left \subseteq Paths
      /\ c.old \in Titles /\ c.source \in Accounts \cup {Flat} /\ clean /\ UNCHANGED <<graph, held, drawn>>
    BY CallIs DEF CopyFile, At, Local, SourceOK
<1>2. Strays(c) = {x}
    BY <1>1 DEF Strays
<1>3. /\ held = << >> /\ DocsDrawn(graph, drawn.docs) /\ HeldBut(graph, trees, {x}) /\ Turned(c, graph, trees)
      /\ trees[x] # NoTree /\ c.left \subseteq FilesIn(tree)
    BY <1>1, <1>2, SerialIs DEF Serial
<1>4. HasTree(c.source, c.old) /\ HasTree(c.owner, c.old)
    BY <1>1, <1>3, AccountsArePlaces DEF Turned, HasTree
<1>5. /\ x \in Places \X Titles /\ c.owner \in Places /\ x # <<c.source, c.old>>
      /\ <<c.source, c.old>> \in Places \X Titles
    BY <1>1, <1>3, AccountsArePlaces DEF Turned
<1>6. PICK path \in c.left :
        /\ WriteFile(c.owner, c.old, path, tree.files[path])
        /\ Goto(w, [c EXCEPT !.left = c.left \ {path}, !.at = IF c.left = {path} THEN "adopted" ELSE "copying"])
    BY <1>3, <1>4 DEF CopyFile
<1> DEFINE at == IF c.left = {path} THEN "adopted" ELSE "copying"
           left == c.left \ {path}
           r == [c EXCEPT !.left = left, !.at = at]
           new == [trees[x] EXCEPT !.files[path] = tree.files[path]]
<1>7. Goto(w, r) /\ at \in {"adopted", "copying"} /\ left \subseteq c.left
    BY <1>6
<1>8. trees' = [trees EXCEPT ![<<c.owner, c.old>>] = new]
    BY <1>4, <1>6 DEF WriteFile, TreeAt
<1>9. new # NoTree
    <2>1. tree \in Tree /\ trees[x] \in Tree
        BY <1>3, <1>4, <1>5, TreesTyped DEF HasTree
    <2>2. path \in Paths /\ tree.files[path] \in File
        <3> HIDE DEF tree
        <3> QED BY <1>3, <2>1 DEF Tree, FilesIn
    <2>3. new \in Tree
        <3> DEFINE file == tree.files[path]
                   at0 == trees[x]
        <3> HIDE DEF file, at0
        <3>1. file \in File /\ at0 \in Tree
            BY <2>1, <2>2 DEF file, at0
        <3>2. [at0 EXCEPT !.files[path] = file] \in Tree
            BY <2>2, <3>1 DEF Tree
        <3> QED BY <3>2 DEF file, at0
    <2> QED BY <2>3, SentinelsAssumption
<1> HIDE DEF new, at, left
<1>10. r.at = at /\ r.owner = c.owner /\ r.source = c.source /\ r.todo = c.todo /\ r.old = c.old /\ r.left = left
    BY <1>1 DEF Fields
<1> HIDE DEF r
<1>11. Strays(r) = {x}
    BY <1>7, <1>10 DEF Strays
<1>12. \A y \in Places \X Titles : trees'[y] = IF y = x THEN new ELSE trees[y]
    BY <1>8, TreesTyped
<1>13. HeldBut(graph, trees', {x})
    <2>1. <<c.owner, c.old>> \in {x}
        OBVIOUS
    <2> HIDE DEF x, c
    <2> QED BY <1>1, <1>3, <1>5, <1>8, <2>1, PutHeld, TreesTyped
<1>14. trees'[<<c.source, c.old>>] = tree /\ trees'[x] = new
    <2> HIDE DEF x
    <2> QED BY <1>5, <1>12
<1>15. Turned(r, graph, trees')
    <2> DEFINE d == Head(c.todo)
               owner == graph.docs[d].owner
    <2>1. /\ d \in LiveDocs(graph) /\ graph.docs[d].title = c.old
          /\ owner # c.owner /\ c.source # c.owner /\ ~Taken(graph, c.owner, c.old, {d})
          /\ c.source # NoTree => tree # NoTree
          /\ owner \in Accounts /\ c.source # owner => trees[<<owner, c.old>>] = NoTree
        BY <1>3 DEF Turned
    <2>2. owner \in Accounts => trees'[<<owner, c.old>>] = trees[<<owner, c.old>>]
        <3> SUFFICES ASSUME owner \in Accounts PROVE trees'[<<owner, c.old>>] = trees[<<owner, c.old>>]
            OBVIOUS
        <3>1. <<owner, c.old>> \in Places \X Titles /\ <<owner, c.old>> # x
            BY <1>1, <2>1, AccountsArePlaces
        <3> HIDE DEF owner, x
        <3> QED BY <1>12, <3>1
    <2>3. Head(r.todo) = d
        BY <1>10
    <2> HIDE DEF c, tree, d
    <2> QED BY <1>10, <1>14, <2>1, <2>2, <2>3 DEF Turned
<1>16. Serial(r, graph', trees')
    <2>1. left \subseteq FilesIn(trees'[<<c.source, c.old>>]) /\ trees'[<<c.owner, c.old>>] # NoTree
        BY <1>3, <1>7, <1>9, <1>14
    <2> HIDE DEF c, x, tree
    <2> QED BY <1>1, <1>7, <1>10, <1>11, <1>13, <1>15, <2>1 DEF Serial
<1> QED BY <1>1, <1>3, <1>7, <1>16, SerialStep

LEMMA AdoptedSerial ==
    ASSUME NEW o \in Origins, Good(o), clean', SerialInv, NEW w \in Workers, Adopted(w)
    PROVE  SerialInv'
<1> DEFINE c == call[w]
           r == [c EXCEPT !.at = "stamp"]
<1>1. c.at = "adopted" /\ DOMAIN c = Fields /\ ~At(w, "idle") /\ clean /\ UNCHANGED <<graph, trees, held, drawn>>
    BY CallIs DEF Adopted, At
<1>2. Goto(w, r)
    BY DEF Adopted, Step
<1>3. r.at = "stamp" /\ r.owner = c.owner /\ r.old = c.old /\ r.source = c.source /\ r.todo = c.todo
    BY <1>1 DEF Fields
<1>4. held = << >> /\ DocsDrawn(graph, drawn.docs) /\ Serial(c, graph, trees)
    BY <1>1, SerialIs
<1> HIDE DEF r, c
<1>5. Strays(r) = Strays(c)
    BY <1>1, <1>3 DEF Strays
<1>6. Serial(r, graph', trees')
    BY <1>1, <1>3, <1>4, <1>5 DEF Serial, Turned
<1> QED BY <1>1, <1>2, <1>4, <1>6, SerialStep DEF c

\* The database does not refuse the owner, and the directory that is a stray
\* from then on is the one the document had.
LEMMA StampSerial ==
    ASSUME NEW o \in Origins, Good(o), clean', SerialInv, NEW w \in Workers, Stamp(w)
    PROVE  SerialInv'
<1> DEFINE c == call[w]
           d == Head(c.todo)
           h == [graph EXCEPT !.docs[d].owner = c.owner]
           owner == graph.docs[d].owner
           doc == [title |-> c.old, owner |-> c.owner]
<1>1. /\ c.at = "stamp" /\ DOMAIN c = Fields /\ c.owner \in Accounts /\ ~At(w, "idle")
      /\ clean /\ UNCHANGED <<trees, held, drawn>>
    BY CallIs DEF Stamp, At, Local
<1>2. Strays(c) = {<<c.owner, c.old>>}
    BY <1>1 DEF Strays
<1>3. /\ held = << >> /\ DocsDrawn(graph, drawn.docs) /\ HeldBut(graph, trees, {<<c.owner, c.old>>})
      /\ Turned(c, graph, trees)
    BY <1>1, <1>2, SerialIs DEF Serial
<1>4. /\ d \in LiveDocs(graph) /\ graph.docs[d].title = c.old
      /\ owner # c.owner /\ c.source # c.owner /\ ~Taken(graph, c.owner, c.old, {d})
      /\ owner \in Accounts /\ c.source # owner => trees[<<owner, c.old>>] = NoTree
    BY <1>3 DEF Turned
<1>5. /\ graph.docs \in [Documents -> Document \cup {NoDocument}] /\ graph.docs[d] \in Document
      /\ graph \in Graph /\ Unique(graph) /\ doc \in Document
    <2>1. graph \in Graph /\ Unique(graph)
        BY DEF Good, GraphOK
    <2>2. graph.docs[d] \in Document
        BY <1>4, <2>1 DEF LiveDocs, Graph
    <2>3. c.old \in Titles
        BY <1>4, <2>2 DEF Document
    <2> QED BY <1>1, <2>1, <2>2, <2>3 DEF Graph, Document
<1>6. h.docs = [graph.docs EXCEPT ![d] = doc] /\ h.chapters = graph.chapters
    <2>1. [graph.docs[d] EXCEPT !.owner = c.owner] = doc
        <3> DEFINE was == graph.docs[d]
        <3>1. was \in Document /\ was.title = c.old
            BY <1>4, <1>5
        <3> HIDE DEF was
        <3>2. [was EXCEPT !.owner = c.owner] = doc
            BY <3>1 DEF Document
        <3> QED BY <3>2 DEF was
    <2>2. h = [graph EXCEPT !.docs = [graph.docs EXCEPT ![d] = [graph.docs[d] EXCEPT !.owner = c.owner]]]
        BY <1>5 DEF Graph
    <2> HIDE DEF doc, h
    <2> QED BY <1>5, <2>1, <2>2 DEF Graph
<1> HIDE DEF h
<1>7. /\ LiveDocs(h) = LiveDocs(graph) /\ h.docs[d] = doc /\ DocsDrawn(h, drawn.docs)
      /\ \A e \in LiveDocs(graph) : e # d => h.docs[e] = graph.docs[e]
    <2> HIDE DEF doc, d
    <2> QED BY <1>3, <1>4, <1>5, <1>6, Redone
<1>8. HeldBut(h, trees, {<<owner, c.old>>})
    <2>1. HeldBut(h, trees, ({<<c.owner, c.old>>} \ {<<doc.owner, doc.title>>}) \cup {<<graph.docs[d].owner, graph.docs[d].title>>})
        <3> DEFINE x == {<<c.owner, c.old>>}
        <3>1. HeldBut(graph, trees, x)
            BY <1>3
        <3> HIDE DEF doc, d, x
        <3>2. HeldBut(h, trees, (x \ {<<doc.owner, doc.title>>}) \cup {<<graph.docs[d].owner, graph.docs[d].title>>})
            BY <1>4, <1>5, <1>6, <3>1, RedoneHeld
        <3> QED BY <3>2 DEF x
    <2>2. doc.owner = c.owner /\ doc.title = c.old
        OBVIOUS
    <2> HIDE DEF doc
    <2>3. ({<<c.owner, c.old>>} \ {<<doc.owner, doc.title>>}) \cup {<<graph.docs[d].owner, graph.docs[d].title>>} = {<<owner, c.old>>}
        BY <1>4, <2>2
    <2> QED BY <2>1, <2>3
<1>9. Unique(h)
    <2>1. LiveChaps(h) = LiveChaps(graph)
        BY <1>6 DEF LiveChaps
    <2>2. ASSUME NEW e \in LiveDocs(graph), e # d, graph.docs[e].owner = c.owner,
                 SameKey(graph.docs[e].title, c.old)
          PROVE  FALSE
        BY <1>4, <2>2 DEF Taken
    <2>3. ASSUME NEW e \in LiveDocs(h), NEW f \in LiveDocs(h), h.docs[e].owner = h.docs[f].owner,
                 h.docs[e].owner # Unowned, SameKey(h.docs[e].title, h.docs[f].title)
          PROVE  e = f
        <3>1. doc.owner = c.owner /\ doc.title = c.old
            OBVIOUS
        <3> HIDE DEF doc, c, d
        <3>2. CASE e # d /\ f # d
            BY <1>5, <1>7, <2>3, <3>2 DEF Unique
        <3>3. CASE e = d /\ f # d
            BY <1>7, <2>2, <2>3, <3>1, <3>3 DEF SameKey
        <3>4. CASE e # d /\ f = d
            BY <1>7, <2>2, <2>3, <3>1, <3>4 DEF SameKey
        <3> QED BY <3>2, <3>3, <3>4
    <2> QED BY <1>5, <1>6, <2>1, <2>3 DEF Unique
<1>10. graph' = h /\ IF c.source = NoTree THEN Turn(w) ELSE Step(w, "remove")
    BY <1>4, <1>9 DEF Stamp, h
<1>11. DocsDrawn(graph', drawn'.docs)
    BY <1>1, <1>7, <1>10
<1>12. CASE c.source = NoTree
    <2>1. HeldBut(h, trees, {})
        <3>1. c.source \notin Accounts
            BY <1>12, AccountsArePlaces
        <3>2. owner \in Accounts => trees[<<owner, c.old>>] = NoTree
            BY <1>4, <3>1
        <3> HIDE DEF owner, c
        <3>3. ASSUME NEW a \in Accounts, NEW t \in Titles, trees[<<a, t>>] # NoTree
              PROVE  <<a, t>> \notin {<<owner, c.old>>}
            BY <3>2, <3>3
        <3> QED BY <1>8, <3>3 DEF HeldBut
    <2>2. Turn(w) /\ HeldBut(graph', trees', {})
        BY <1>1, <1>10, <1>12, <2>1
    <2> QED BY <1>1, <1>3, <1>11, <2>2, TurnSerial
<1>13. CASE c.source # NoTree
    <2> DEFINE r == [c EXCEPT !.at = "remove"]
    <2>1. Goto(w, r) /\ r.at = "remove" /\ r.source = c.source /\ r.old = c.old
        BY <1>1, <1>10, <1>13 DEF Step, Fields
    <2>2. Strays(r) = {<<c.source, c.old>>}
        BY <2>1 DEF Strays
    <2> HIDE DEF r
    <2>3. HeldBut(h, trees, {<<c.source, c.old>>})
        <3>1. ASSUME NEW a \in Accounts, NEW t \in Titles, <<a, t>> \notin {<<c.source, c.old>>}, trees[<<a, t>>] # NoTree
              PROVE  <<a, t>> \notin {<<owner, c.old>>}
            <4>1. owner \in Accounts /\ c.source # owner => trees[<<owner, c.old>>] = NoTree
                BY <1>4
            <4> HIDE DEF owner, c
            <4> QED BY <3>1, <4>1
        <3> HIDE DEF owner, c
        <3> QED BY <1>8, <3>1 DEF HeldBut
    <2> HIDE DEF c
    <2>4. Serial(r, graph', trees')
        BY <1>1, <1>10, <2>1, <2>2, <2>3 DEF Serial
    <2> QED BY <1>1, <1>3, <1>11, <2>1, <2>4, SerialStep
<1> QED BY <1>12, <1>13

LEMMA RemoveSourceSerial ==
    ASSUME NEW o \in Origins, Good(o), clean', SerialInv, NEW w \in Workers, RemoveSource(w)
    PROVE  SerialInv'
<1> DEFINE c == call[w]
<1>1. /\ c.at = "remove" /\ ~At(w, "idle") /\ c.old \in Titles /\ c.source \in Accounts \cup {Flat}
      /\ clean /\ UNCHANGED <<graph, held, drawn>> /\ RemoveTree(c.source, c.old) /\ Turn(w)
    BY CallIs DEF RemoveSource, At, Local, SourceOK
<1>2. Strays(c) = {<<c.source, c.old>>}
    BY <1>1 DEF Strays
<1>3. held = << >> /\ DocsDrawn(graph, drawn.docs) /\ HeldBut(graph, trees, {<<c.source, c.old>>})
    BY <1>1, <1>2, SerialIs DEF Serial
<1>4. HeldBut(graph, trees', {})
    <2>1. c.source \in Places
        BY <1>1, AccountsArePlaces
    <2> HIDE DEF c
    <2>2. HeldBut(graph, [trees EXCEPT ![<<c.source, c.old>>] = NoTree], {<<c.source, c.old>>} \ {<<c.source, c.old>>})
        BY <1>1, <1>3, <2>1, RemoveHeld, TreesTyped
    <2>3. {<<c.source, c.old>>} \ {<<c.source, c.old>>} = {}
        OBVIOUS
    <2> QED BY <1>1, <2>2, <2>3 DEF RemoveTree
<1> QED BY <1>1, <1>3, <1>4, TurnSerial

LEMMA NextSerial ==
    ASSUME NEW o \in Origins, Good(o), SerialInv, [Next]_vars
    PROVE  SerialInv'
<1>1. CASE UNCHANGED vars
    BY <1>1 DEF vars, SerialInv, At
<1>2. CASE ~clean'
    BY <1>2 DEF SerialInv
<1>3. ASSUME NEW w \in Workers, clean', Begin(w) \/ Load(w) \/ Exists(w) \/ Materialize(w) \/ New(w)
      PROVE  SerialInv'
    BY <1>3, BeginSerial, LoadSerial, OpenSerial, NewSerial
<1>4. ASSUME NEW w \in Workers, clean', Update(w) \/ Rename(w) \/ Meta(w) \/ DeleteTree(w) \/ Delete(w)
      PROVE  SerialInv'
    BY <1>4, UpdateSerial, RenameSerial, MetaSerial, DeleteTreeSerial, DeleteSerial
<1>5. ASSUME NEW w \in Workers, clean', Find(w) \/ Adopt(w) \/ CopyFile(w) \/ Adopted(w) \/ Stamp(w) \/ RemoveSource(w)
      PROVE  SerialInv'
    BY <1>5, FindSerial, AdoptSerial, CopyFileSerial, AdoptedSerial, StampSerial, RemoveSourceSerial
<1>6. ASSUME NEW w \in Workers, clean',
             \/ Check(w) \/ Snapshot(w) \/ Unassigned(w) \/ Resolve(w) \/ LoadShell(w) \/ Walk(w) \/ Apply(w) \/ Order(w)
             \/ Persist(w) \/ WriteBack(w)
      PROVE  SerialInv'
    BY <1>6, NeutralOnesSerial, PersistSerial, WriteBackSerial
<1>7. ASSUME NEW w \in Workers, Crash(w)
      PROVE  ~clean'
    BY <1>7 DEF Crash
<1> QED BY <1>1, <1>2, <1>3, <1>4, <1>5, <1>6, <1>7 DEF Next

LEMMA InitSerial == Init => SerialInv
<1> SUFFICES ASSUME Init PROVE SerialInv
    OBVIOUS
<1>1. PICK l \in Libraries : graph = l.graph /\ trees = l.trees /\ drawn = l.drawn
    BY DEF Init
<1>2. IsLibrary(l)
    BY LibrariesAssumption
<1>3. AllHeld(graph, trees) /\ \A d \in LiveDocs(graph) : d <= drawn.docs
    BY <1>1, <1>2 DEF IsLibrary
<1>4. HeldBut(graph, trees, {}) /\ DocsDrawn(graph, drawn.docs)
    BY <1>3 DEF AllHeld, HeldBut, IsA, DocsDrawn
<1>5. held = << >> /\ \A w \in Workers : call[w].at = "idle"
    BY DEF Init, Idle
<1>6. Serial(call[Server], graph, trees)
    <2>1. call[Server].at \in Neutral
        BY <1>5 DEF Workers, Neutral
    <2> QED BY <1>4, <2>1, NeutralSerial
<1> QED BY <1>4, <1>5, <1>6 DEF SerialInv, Workers, At

\* Between calls of one process after the other, none of which crashed or
\* left work in the server's unit of work, a directory of an account is that
\* of a document the account has: no create, update, delete, assign or import
\* leaves a directory behind, or has a title its directory has not.
THEOREM NoDirectoryIsLeftBehind == Spec => []NoStrayTrees
<1>1. Init => Documented /\ SerialInv
    BY InitDocumented, InitSerial
<1>2. Documented /\ SerialInv /\ [Next]_vars => (Documented /\ SerialInv)'
    <2>1. Documented /\ SerialInv /\ [Next]_vars => SerialInv'
        BY NextSerial DEF Documented
    <2> QED BY <2>1, NextDocumented
<1>3. SerialInv => NoStrayTrees
    <2> SUFFICES ASSUME SerialInv, clean, \A w \in Workers : At(w, "idle") PROVE AllHeld(graph, trees)
        BY DEF NoStrayTrees
    <2>1. PICK w \in Workers : Serial(call[w], graph, trees) /\ call[w].at = "idle"
        BY DEF SerialInv, At
    <2>2. HeldBut(graph, trees, {})
        BY <2>1, NeutralSerial DEF Neutral
    <2>3. \A d, t, a : IsA(graph, d, t, a) => d \in LiveDocs(graph) /\ graph.docs[d] = [title |-> t, owner |-> a]
        BY DEF IsA
    <2> QED BY <2>2, <2>3 DEF HeldBut, AllHeld
<1> QED BY <1>1, <1>2, <1>3, PTL DEF Spec

-----------------------------------------------------------------------------
(* The numbers of acts are numbers: the fold of a numeral from its end. *)
-----------------------------------------------------------------------------
LEMMA MinOfBottom ==
    ASSUME NEW a \in Int, NEW b \in Int, NEW x \in SUBSET (a .. b), a \in x
    PROVE  Min(x) = a
<1>1. \A y \in x : y \in Int /\ a <= y
    OBVIOUS
<1>2. \A z \in x : (\A y \in x : z <= y) => z = a
    BY <1>1
<1>3. \E z \in x : \A y \in x : z <= y
    BY <1>1
<1>4. Min(x) \in x /\ \A y \in x : Min(x) <= y
    BY <1>3 DEF Min
<1> QED BY <1>2, <1>4

Sum == [total : Int, previous : Int]

RomanStep(digits, g, x) ==
    IF x = {} THEN [total |-> 0, previous |-> 0] ELSE WithDigit(digits[Min(x)], g[x \ {Min(x)}])

LEMMA RomanTyped ==
    ASSUME NEW digits \in Seq(Int)
    PROVE  RomanToInt(digits) \in Int
<1> DEFINE L == Len(digits)
           Link(g, x) == RomanStep(digits, g, x)
           Iter(g, m) == g = [x \in SUBSET (L - m + 1 .. L) |-> Link(g, x)]
           S == {m \in Nat : \E g : Iter(g, m)}
           zero == [total |-> 0, previous |-> 0]
<1>1. L \in Nat /\ DOMAIN digits = 1 .. L
    BY LenProperties
<1>2. 0 \in S
    <2> DEFINE g == [x \in SUBSET (L - 0 + 1 .. L) |-> zero]
    <2>1. \A x \in SUBSET (L - 0 + 1 .. L) : x = {}
        BY <1>1
    <2>2. Iter(g, 0)
        BY <2>1 DEF RomanStep
    <2> QED BY <2>2
<1>3. ASSUME NEW m \in Nat, m \in S
      PROVE  m + 1 \in S
    <2>1. PICK g : Iter(g, m)
        BY <1>3
    <2> DEFINE a == L - m
               b == L
               h == [x \in SUBSET (a .. b) |-> IF a \in x THEN Link(g, x) ELSE g[x]]
    <2>2. a \in Int /\ b \in Int /\ L - m + 1 = a + 1 /\ L - (m + 1) + 1 = a
        BY <1>1
    <2>3. g = [x \in SUBSET (a + 1 .. b) |-> Link(g, x)]
        BY <2>1, <2>2
    <2> HIDE DEF a, b
    <2>4. ASSUME NEW x \in SUBSET (a .. b)
          PROVE  h[x] = Link(h, x)
        <3>1. CASE a \in x
            <4>1. Min(x) = a
                BY <2>2, <3>1, MinOfBottom
            <4>2. x \ {a} \in SUBSET (a + 1 .. b) /\ x # {} /\ a \notin x \ {a} /\ x \ {a} \in SUBSET (a .. b)
                BY <2>2, <3>1
            <4>3. h[x \ {a}] = g[x \ {a}]
                BY <4>2
            <4>4. h[x] = Link(g, x)
                BY <3>1
            <4> HIDE DEF h
            <4> QED BY <4>1, <4>2, <4>3, <4>4 DEF RomanStep
        <3>2. CASE a \notin x
            <4>1. x \in SUBSET (a + 1 .. b)
                BY <2>2, <3>2
            <4>2. x \ {Min(x)} \in SUBSET (a .. b) /\ a \notin x \ {Min(x)}
                BY <3>2
            <4>3. h[x \ {Min(x)}] = g[x \ {Min(x)}]
                BY <4>2
            <4>4. h[x] = g[x] /\ g[x] = Link(g, x)
                <5>1. h[x] = g[x]
                    BY <3>2
                <5>2. g[x] = Link(g, x)
                    <6> HIDE DEF h, Link
                    <6> QED BY <2>3, <4>1
                <5> QED BY <5>1, <5>2
            <4> HIDE DEF h
            <4> QED BY <4>3, <4>4 DEF RomanStep
        <3> QED BY <3>1, <3>2
    <2>5. h = [x \in SUBSET (a .. b) |-> Link(h, x)]
        <3>1. h = [x \in SUBSET (a .. b) |-> h[x]]
            OBVIOUS
        <3> HIDE DEF h, Link
        <3> QED BY <2>4, <3>1
    <2>6. Iter(h, m + 1)
        <3> HIDE DEF h, Link
        <3>1. h = [x \in SUBSET (L - (m + 1) + 1 .. L) |-> Link(h, x)]
            BY <2>2, <2>5 DEF b
        <3> QED BY <3>1
    <2> HIDE DEF h, Iter
    <2> QED BY <2>6
<1>4. \E g : Iter(g, L)
    <2> HIDE DEF Iter, L
    <2> QED BY <1>1, <1>2, <1>3, SetInduction
<1> DEFINE g0 == CHOOSE g : g = [x \in SUBSET (1 .. L) |-> Link(g, x)]
<1>5. g0 = [x \in SUBSET (1 .. L) |-> Link(g0, x)]
    <2>1. L - L + 1 = 1
        BY <1>1
    <2>2. \E g : g = [x \in SUBSET (1 .. L) |-> Link(g, x)]
        <3> HIDE DEF Link, L
        <3> QED BY <1>4, <2>1
    <2> HIDE DEF Link
    <2> QED BY <2>2
<1>6. RomanToInt(digits) = g0[1 .. L].total
    BY <1>1 DEF RomanToInt, FoldRight, MapThenFoldSet, RomanStep
<1> HIDE DEF g0
<1> DEFINE T == {m \in Nat : \A x \in SUBSET (1 .. L) : x \subseteq L - m + 1 .. L => g0[x] \in Sum}
<1>7. 0 \in T
    <2> SUFFICES ASSUME NEW x \in SUBSET (1 .. L), x \subseteq L - 0 + 1 .. L
                 PROVE  g0[x] \in Sum
        OBVIOUS
    <2>1. x = {}
        BY <1>1
    <2>2. g0[x] = zero
        BY <1>5, <2>1 DEF RomanStep
    <2> QED BY <2>2 DEF Sum
<1>8. ASSUME NEW m \in Nat, m \in T
      PROVE  m + 1 \in T
    <2> DEFINE a == L - m
    <2>1. a \in Int /\ L \in Int /\ L - m + 1 = a + 1 /\ L - (m + 1) + 1 = a
        BY <1>1
    <2>2. \A x \in SUBSET (1 .. L) : x \subseteq a + 1 .. L => g0[x] \in Sum
        BY <1>8, <2>1
    <2> HIDE DEF a, T
    <2>3. ASSUME NEW x \in SUBSET (1 .. L), x \subseteq a .. L
          PROVE  g0[x] \in Sum
        <3>1. CASE a \notin x
            <4>1. x \subseteq a + 1 .. L
                BY <2>1, <2>3, <3>1
            <4> QED BY <2>2, <4>1
        <3>2. CASE a \in x
            <4>1. Min(x) = a
                BY <2>1, <2>3, <3>2, MinOfBottom
            <4>2. x \ {a} \in SUBSET (1 .. L) /\ x \ {a} \subseteq a + 1 .. L /\ a \in 1 .. L /\ x # {}
                BY <2>1, <2>3, <3>2
            <4>3. g0[x \ {a}] \in Sum /\ digits[a] \in Int
                BY <2>2, <4>2, ElementOfSeq
            <4>4. g0[x] = Link(g0, x)
                <5> HIDE DEF Link
                <5> QED BY <1>5
            <4>5. g0[x] = WithDigit(digits[a], g0[x \ {a}])
                BY <4>1, <4>2, <4>4 DEF RomanStep
            <4> QED BY <4>3, <4>5 DEF WithDigit, Sum
        <3> QED BY <3>1, <3>2
    <2>4. \A x \in SUBSET (1 .. L) : x \subseteq L - (m + 1) + 1 .. L => g0[x] \in Sum
        BY <2>1, <2>3
    <2> QED BY <2>4 DEF T
<1>9. g0[1 .. L] \in Sum
    <2>1. L \in T
        <3> HIDE DEF T, L
        <3> QED BY <1>1, <1>7, <1>8, SetInduction
    <2>2. 1 .. L \subseteq L - L + 1 .. L
        BY <1>1
    <2> QED BY <2>1, <2>2
<1> QED BY <1>6, <1>9 DEF Sum

LEMMA ActNumberTyped ==
    ASSUME NEW act \in Acts
    PROVE  ActNumber(act) \in Int
<1>1. RomanToInt(act) \in Int
    BY ActsAssumption, RomanTyped
<1> QED BY <1>1 DEF ActNumber, NoNumber

-----------------------------------------------------------------------------
(* An import that is alone: what it has read and made of it so far. *)
-----------------------------------------------------------------------------
\* An import is between its beginning and its end.
Importing(r) ==
    \/ r.at \in {"resolve", "shell", "walk", "apply", "persist", "back", "order"}
    \/ r.at \in {"new", "meta"} /\ r.op = "import"

\* The document is there, and the chapters the import knows are in it.
Rooted(r, g) == r.doc \in LiveDocs(g) /\ g.docs[r.doc].owner = r.owner /\ r.known \subseteq In(g, r.doc)

\* The files were read, each once and in the order of the walk.
AsWalked(r, tree) ==
    /\ tree # NoTree /\ IdsIn(r.files) \subseteq FilesIn(tree)
    /\ r.whole => IdsIn(r.files) = FilesIn(tree)
    /\ \A i, j \in 1 .. Len(r.files) : i < j => r.files[i] # r.files[j] /\ Precedes(r.files[i], r.files[j])

\* The chapter of a file is in the document, with the file's text.
Stands(r, g, tree, path, id) ==
    id \in In(g, r.doc) /\ (g.chapters[id].path # NoPath => g.chapters[id].text = tree.files[path].text)

Applied(r, g, tree) ==
    \A i \in 1 .. Len(r.ids) :
      Stands(r, g, tree, r.files[i], r.ids[i]) /\ (r.writeBack => tree.files[r.files[i]].id = r.ids[i])

Half(r, g, ts) ==
    LET tree == ts[<<r.place, r.dir>>]
        path == r.files[Len(r.ids) + 1] IN
    /\ r.at \in {"meta", "walk", "apply", "persist", "back", "order"} => Rooted(r, g)
    /\ r.at \in {"apply", "persist", "back", "order"} => AsWalked(r, tree) /\ Applied(r, g, tree)
    /\ r.at \in {"persist", "back"} => tree.files[path].text = r.text
    /\ r.at = "back" => Stands(r, g, tree, path, r.new)
    /\ r.at = "order" => r.whole /\ Len(r.ids) = Len(r.files)

\* What an import has done so far, where no other call is beside it and no
\* failed commit was left before it.
ImportInv ==
    \A w \in Workers : Importing(call[w]) =>
      /\ call[w].answer = "none"
      /\ w = Server /\ ~call[w].leftover => held = << >>
      /\ call[w].lone /\ ~call[w].leftover => Half(call[w], graph, trees)

\* Where no import is.
Elsewhere == {"idle", "load", "exists", "materialize", "check", "commit", "rename", "tree", "drop", "unowned", "find",
              "snapshot", "copy", "copying", "adopted", "stamp", "remove"}

LEMMA ElsewhereIs == \A r : r.at \in Elsewhere \/ (r.at \in {"new", "meta"} /\ r.op # "import") => ~Importing(r)
BY DEF Elsewhere, Importing

LEMMA ImportStep ==
    ASSUME NEW o, Good(o), LoneInv, ImportInv, NEW w \in Workers, ~At(w, "idle"), w # Server => held' = held,
           NEW r, Goto(w, r),
           Importing(r) => /\ r.answer = "none"
                           /\ w = Server /\ ~r.leftover => held' = << >>
                           /\ r.lone /\ ~r.leftover => Half(r, graph', trees')
    PROVE  ImportInv'
<1>1. call = [v \in Workers |-> call[v]] /\ call' = [call EXCEPT ![w] = r]
    BY DEF Good, CallsOK, Goto
<1>2. \A v \in Workers : call'[v] = IF v = w THEN r ELSE call[v]
    BY <1>1
<1> SUFFICES ASSUME NEW v \in Workers, Importing(call'[v])
             PROVE  /\ call'[v].answer = "none"
                    /\ v = Server /\ ~call'[v].leftover => held' = << >>
                    /\ call'[v].lone /\ ~call'[v].leftover => Half(call'[v], graph', trees')
    BY DEF ImportInv
<1>3. CASE v = w
    BY <1>2, <1>3
<1>4. CASE v # w
    <2>1. call'[v] = call[v]
        BY <1>2, <1>4
    <2>2. call[v].answer = "none" /\ (v = Server /\ ~call[v].leftover => held = << >>)
        BY <2>1 DEF ImportInv
    <2>3. v = Server => held' = held
        BY <1>4
    <2>4. ~At(v, "idle")
        BY <2>1 DEF Importing, At
    <2>5. ~call[v].lone
        BY <1>4, <2>4 DEF LoneInv
    <2> QED BY <2>1, <2>2, <2>3, <2>5
<1> QED BY <1>3, <1>4

LEMMA ElsewhereStep ==
    ASSUME NEW o, Good(o), LoneInv, ImportInv, NEW w \in Workers, ~At(w, "idle"), w # Server => held' = held,
           NEW r, Goto(w, r), r.at \in Elsewhere \/ (r.at \in {"new", "meta"} /\ r.op # "import")
    PROVE  ImportInv'
BY ImportStep, ElsewhereIs

LEMMA DoneImport ==
    ASSUME NEW o, Good(o), LoneInv, ImportInv, NEW w \in Workers, ~At(w, "idle"), w # Server => held' = held,
           NEW answer, Done(w, answer)
    PROVE  ImportInv'
<1> DEFINE r == [Idle EXCEPT !.op = call[w].op, !.answer = answer]
<1>1. Goto(w, r) /\ r.at \in Elsewhere
    BY DEF Done, Idle, Elsewhere
<1> HIDE DEF r
<1> QED BY <1>1, ElsewhereStep

LEMMA TurnImport ==
    ASSUME NEW o, Good(o), LoneInv, ImportInv, NEW w \in Workers, ~At(w, "idle"), w # Server => held' = held,
           Turn(w) \/ Refused(w)
    PROVE  ImportInv'
<1> DEFINE c == call[w]
           b == Asked(c.op, "find", c.owner)
           r == [b EXCEPT !.todo = Tail(c.todo), !.lone = c.lone]
<1>1. (\E answer : Done(w, answer)) \/ Goto(w, r)
    BY DEF Turn, Refused
<1>2. r.at = "find"
    <2>1. DOMAIN b = Fields /\ b.at = "find"
        BY AskedIs
    <2> HIDE DEF b
    <2> QED BY <2>1 DEF Fields
<1>3. r.at \in Elsewhere
    BY <1>2 DEF Elsewhere
<1> HIDE DEF r
<1> QED BY <1>1, <1>3, DoneImport, ElsewhereStep

LEMMA BeginImport ==
    ASSUME NEW o, Good(o), ImportInv, NEW w \in Workers, Begin(w)
    PROVE  ImportInv'
<1> DEFINE others == {u \in Workers \ {w} : ~At(u, "idle")}
           lone == others = {}
           leftover == w = Server /\ held # << >>
<1>1. PICK c \in Requests \cup Commands :
        call' = [v \in Workers |-> IF v = w THEN [c EXCEPT !.lone = lone, !.leftover = leftover]
                                   ELSE IF v \in others THEN [call[v] EXCEPT !.lone = FALSE] ELSE call[v]]
    BY DEF Begin
<1>2. DOMAIN c = Fields /\ c.at \in {"load", "check", "resolve", "find", "unowned"} /\ c.answer = "none"
    BY AskingAt
<1>3. held' = held /\ graph' = graph /\ trees' = trees
    BY DEF Begin
<1> SUFFICES ASSUME NEW v \in Workers, Importing(call'[v])
             PROVE  /\ call'[v].answer = "none"
                    /\ v = Server /\ ~call'[v].leftover => held' = << >>
                    /\ call'[v].lone /\ ~call'[v].leftover => Half(call'[v], graph', trees')
    BY DEF ImportInv
<1>4. CASE v = w
    <2> DEFINE r == [c EXCEPT !.lone = lone, !.leftover = leftover]
    <2>1. call'[v] = r
        BY <1>1, <1>4
    <2>2. (v = Server /\ ~leftover) => held' = << >>
        BY <1>3, <1>4
    <2> HIDE DEF lone, leftover
    <2>3. r.at = c.at /\ r.answer = "none" /\ r.leftover = leftover
        BY <1>2 DEF Fields
    <2> HIDE DEF r
    <2>4. Half(r, graph', trees')
        BY <1>2, <2>3 DEF Half
    <2> QED BY <2>1, <2>2, <2>3, <2>4
<1>5. CASE v # w /\ v \in others
    <2>1. call'[v] = [call[v] EXCEPT !.lone = FALSE] /\ DOMAIN call[v] = Fields
        BY <1>1, <1>5, CallIs
    <2>2. /\ call'[v].lone = FALSE /\ call'[v].at = call[v].at /\ call'[v].op = call[v].op
          /\ call'[v].answer = call[v].answer /\ call'[v].leftover = call[v].leftover
        BY <2>1 DEF Fields
    <2>3. Importing(call[v])
        BY <2>2 DEF Importing
    <2> QED BY <1>3, <2>2, <2>3 DEF ImportInv
<1>6. CASE v # w /\ v \notin others
    <2>1. call'[v] = call[v]
        BY <1>1, <1>6
    <2> QED BY <1>3, <2>1 DEF ImportInv
<1> QED BY <1>4, <1>5, <1>6

\* The steps of the other calls.
LEMMA OtherImport ==
    ASSUME NEW o \in Origins, Good(o), LoneInv, ImportInv, NEW w \in Workers,
           \/ Load(w) \/ Exists(w) \/ Materialize(w) \/ Check(w) \/ Update(w) \/ Rename(w) \/ Snapshot(w) \/ DeleteTree(w)
           \/ Delete(w) \/ Unassigned(w) \/ Find(w) \/ Adopt(w) \/ CopyFile(w) \/ Adopted(w) \/ Stamp(w) \/ RemoveSource(w)
           \/ Order(w) \/ Crash(w)
    PROVE  ImportInv'
<1> DEFINE c == call[w]
<1>1. ~At(w, "idle") /\ DOMAIN c = Fields /\ (w # Server => held' = held)
    BY CallIs DEF Load, Exists, Materialize, Check, Update, Rename, Snapshot, DeleteTree, Delete, Unassigned, Find, Adopt,
                  CopyFile, Adopted, Stamp, RemoveSource, Order, Crash, Commit, At
<1>2. \A answer : Done(w, answer) => ImportInv'
    BY <1>1, DoneImport
<1>3. Turn(w) \/ Refused(w) => ImportInv'
    BY <1>1, TurnImport
<1>4. ASSUME NEW at, at \in Elsewhere \/ (at \in {"new", "meta"} /\ c.op # "import"), Step(w, at)
      PROVE  ImportInv'
    <2> DEFINE r == [c EXCEPT !.at = at]
    <2>1. Goto(w, r) /\ r.at = at /\ r.op = c.op
        BY <1>1, <1>4 DEF Step, Fields
    <2> HIDE DEF r
    <2> QED BY <1>1, <1>4, <2>1, ElsewhereStep
<1>5. {"exists", "materialize", "commit", "rename", "tree", "drop", "find", "snapshot", "copy", "copying", "adopted",
       "stamp", "remove"} \subseteq Elsewhere
    BY DEF Elsewhere
<1>6. CASE Load(w)
    <2> DEFINE at == CASE c.op = "open" -> "exists" [] c.op = "update" -> "commit" [] c.op = "delete" -> "tree"
    <2>1. (\E answer : Done(w, answer)) \/ \E old, s, texts :
            Goto(w, [c EXCEPT !.old = old, !.list = s, !.texts = texts, !.at = at])
        BY <1>6 DEF Load
    <2>2. at \in Elsewhere
        <3>1. c.op \in {"open", "update", "delete"}
            BY <1>6, CallIs DEF Load, At, Local
        <3> QED BY <1>5, <3>1
    <2> HIDE DEF at
    <2>3. ASSUME NEW old, NEW s, NEW texts, Goto(w, [c EXCEPT !.old = old, !.list = s, !.texts = texts, !.at = at])
          PROVE  ImportInv'
        <3> DEFINE r == [c EXCEPT !.old = old, !.list = s, !.texts = texts, !.at = at]
        <3>1. Goto(w, r) /\ r.at = at
            BY <1>1, <2>3 DEF Fields
        <3> HIDE DEF r
        <3> QED BY <1>1, <2>2, <3>1, ElsewhereStep
    <2> QED BY <1>2, <2>1, <2>3, Zenon
<1>7. CASE Exists(w)
    BY <1>2, <1>4, <1>5, <1>7 DEF Exists
<1>8. CASE Materialize(w)
    <2> DEFINE r == [c EXCEPT !.list = Tail(@)]
    <2>1. (\E answer : Done(w, answer)) \/ Goto(w, r) \/ Step(w, "snapshot")
        BY <1>8 DEF Materialize
    <2>2. r.at = "materialize"
        BY <1>1, <1>8 DEF Fields, Materialize, At
    <2> HIDE DEF r
    <2> QED BY <1>1, <1>2, <1>4, <1>5, <2>1, <2>2, ElsewhereStep
<1>9. CASE Check(w)
    <2>1. c.op = "create"
        BY <1>9, CallIs DEF Check, At, Local
    <2> QED BY <1>2, <1>4, <1>9, <2>1 DEF Check
<1>10. CASE Update(w)
    <2>1. c.op = "update"
        BY <1>10, CallIs DEF Update, At, Local
    <2> DEFINE at == IF c.title = c.old THEN "meta" ELSE "rename"
    <2>2. Done(w, "error") \/ Step(w, at)
        BY <1>10 DEF Update, Commit, Step
    <2> QED BY <1>2, <1>4, <1>5, <2>1, <2>2
<1>11. CASE Rename(w)
    <2>1. c.op = "update"
        BY <1>11, CallIs DEF Rename, At, Local
    <2> QED BY <1>2, <1>4, <1>11, <2>1 DEF Rename
<1>12. CASE DeleteTree(w)
    BY <1>4, <1>5, <1>12 DEF DeleteTree
<1>13. CASE Delete(w)
    <2> DEFINE r == [Idle EXCEPT !.op = c.op, !.answer = "ok"]
    <2>1. Done(w, "error") \/ Goto(w, r)
        BY <1>13 DEF Delete, Commit
    <2>2. r.at \in Elsewhere
        BY DEF Idle, Elsewhere
    <2> HIDE DEF r
    <2> QED BY <1>1, <1>2, <2>1, <2>2, ElsewhereStep
<1>14. CASE Unassigned(w)
    <2>1. PICK s : Done(w, "ok") \/ Goto(w, [c EXCEPT !.todo = s, !.at = "find"])
        BY <1>14 DEF Unassigned
    <2> DEFINE r == [c EXCEPT !.todo = s, !.at = "find"]
    <2>2. r.at = "find"
        BY <1>1 DEF Fields
    <2> HIDE DEF r
    <2> QED BY <1>1, <1>2, <1>5, <2>1, <2>2, ElsewhereStep DEF r
<1>15. CASE Find(w)
    <2>1. (\E answer : Done(w, answer)) \/ Turn(w) \/ Refused(w) \/ \E old, source :
            Goto(w, [c EXCEPT !.old = old, !.source = source, !.at = IF source = NoTree THEN "stamp" ELSE "copy"])
        BY <1>15 DEF Find
    <2>2. ASSUME NEW old, NEW source,
                 Goto(w, [c EXCEPT !.old = old, !.source = source, !.at = IF source = NoTree THEN "stamp" ELSE "copy"])
          PROVE  ImportInv'
        <3> DEFINE at == IF source = NoTree THEN "stamp" ELSE "copy"
                   r == [c EXCEPT !.old = old, !.source = source, !.at = at]
        <3>1. Goto(w, r) /\ at \in Elsewhere
            BY <1>5, <2>2
        <3> HIDE DEF at
        <3>2. r.at = at
            BY <1>1 DEF Fields
        <3> HIDE DEF r
        <3> QED BY <1>1, <3>1, <3>2, ElsewhereStep
    <2> QED BY <1>2, <1>3, <2>1, <2>2
<1>16. ASSUME NEW left, NEW at \in {"adopted", "copying"}, Goto(w, [c EXCEPT !.left = left, !.at = at])
       PROVE  ImportInv'
    <2> DEFINE r == [c EXCEPT !.left = left, !.at = at]
    <2>1. Goto(w, r) /\ r.at = at
        BY <1>1, <1>16 DEF Fields
    <2> HIDE DEF r
    <2> QED BY <1>1, <1>5, <2>1, ElsewhereStep
<1>17. CASE Adopt(w)
    <2>1. Step(w, "stamp") \/ Refused(w) \/ \E left : \E at \in {"adopted", "copying"} :
            Goto(w, [c EXCEPT !.left = left, !.at = at])
        BY <1>17 DEF Adopt, AdoptOnto
    <2> QED BY <1>3, <1>4, <1>5, <1>16, <2>1
<1>18. CASE CopyFile(w)
    <2>1. Done(w, "error") \/ \E left : \E at \in {"adopted", "copying"} :
            Goto(w, [c EXCEPT !.left = left, !.at = at])
        BY <1>18 DEF CopyFile
    <2> QED BY <1>2, <1>16, <2>1
<1>19. CASE Stamp(w)
    BY <1>2, <1>3, <1>4, <1>5, <1>19 DEF Stamp
<1>20. CASE RemoveSource(w)
    BY <1>3, <1>20 DEF RemoveSource
<1>21. CASE Order(w)
    BY <1>2, <1>21 DEF Order
<1>23. CASE Snapshot(w)
    BY <1>2, <1>23 DEF Snapshot
<1>24. CASE Adopted(w)
    BY <1>4, <1>5, <1>24 DEF Adopted
<1>22. CASE Crash(w)
    <2>1. Goto(w, Idle) /\ Idle.at \in Elsewhere
        BY <1>22 DEF Crash, Idle, Elsewhere
    <2> QED BY <1>1, <2>1, ElsewhereStep
<1> QED BY <1>6, <1>7, <1>8, <1>9, <1>10, <1>11, <1>12, <1>13, <1>14, <1>15, <1>17, <1>18, <1>19, <1>20, <1>21, <1>22, <1>23, <1>24

\* What is known of an import that is alone.
LEMMA HalfIs ==
    ASSUME ImportInv, NEW w \in Workers, Importing(call[w]), ~call[w].leftover
    PROVE  /\ call[w].answer = "none" /\ (w = Server => held = << >>)
           /\ call[w].lone => Half(call[w], graph, trees)
BY DEF ImportInv

\* The document is there, or is a new one without chapters.
LEMMA ResolveImport ==
    ASSUME NEW o \in Origins, Good(o), LoneInv, ImportInv, NEW w \in Workers, Resolve(w)
    PROVE  ImportInv'
<1> DEFINE c == call[w]
           title == TitleIn(c.place, c.dir)
           matches == {d \in Held(c.owner) : SameKey(graph.docs[d].title, title)}
<1>1. c.at = "resolve" /\ DOMAIN c = Fields /\ ~At(w, "idle") /\ UNCHANGED <<graph, trees, held>>
    BY CallIs DEF Resolve, At
<1>2. Importing(c) /\ c.answer = "none" /\ (w = Server /\ ~c.leftover => held' = << >>)
    BY <1>1 DEF Importing, ImportInv
<1>3. CASE Done(w, "error")
    BY <1>1, <1>3, DoneImport
<1>4. CASE Goto(w, [c EXCEPT !.title = title, !.at = "new"])
    <2> DEFINE r == [c EXCEPT !.title = title, !.at = "new"]
    <2> HIDE DEF title
    <2>1. Goto(w, r) /\ r.at = "new" /\ r.answer = c.answer /\ r.leftover = c.leftover
        BY <1>1, <1>4 DEF Fields, title
    <2> HIDE DEF r
    <2>2. Half(r, graph', trees')
        BY <2>1 DEF Half
    <2> QED BY <1>1, <1>2, <2>1, <2>2, ImportStep
<1>5. CASE Goto(w, [c EXCEPT !.title = title, !.doc = Min(matches), !.at = "shell"])
    <2> DEFINE d == Min(matches)
               r == [c EXCEPT !.title = title, !.doc = d, !.at = "shell"]
    <2>1. Goto(w, r)
        BY <1>5
    <2> HIDE DEF d, title
    <2>2. r.at = "shell" /\ r.answer = c.answer /\ r.leftover = c.leftover
        BY <1>1 DEF Fields
    <2> HIDE DEF r
    <2>3. Half(r, graph', trees')
        BY <2>2 DEF Half
    <2> QED BY <1>1, <1>2, <2>1, <2>2, <2>3, ImportStep
<1> QED BY <1>3, <1>4, <1>5 DEF Resolve

LEMMA LoadShellImport ==
    ASSUME NEW o \in Origins, Good(o), LoneInv, ImportInv, NEW w \in Workers, LoadShell(w)
    PROVE  ImportInv'
<1> DEFINE c == call[w]
           known == Shell(c.doc)
<1>1. c.at = "shell" /\ DOMAIN c = Fields /\ ~At(w, "idle") /\ UNCHANGED <<graph, trees, held>>
    BY CallIs DEF LoadShell, At
<1>2. Importing(c) /\ c.answer = "none" /\ (w = Server /\ ~c.leftover => held' = << >>)
    BY <1>1 DEF Importing, ImportInv
<1>3. CASE Step(w, "new")
    <2> DEFINE r == [c EXCEPT !.at = "new"]
    <2>1. Goto(w, r) /\ r.at = "new" /\ r.answer = c.answer /\ r.leftover = c.leftover
        BY <1>1, <1>3 DEF Fields, Step
    <2> HIDE DEF r
    <2>2. Half(r, graph', trees')
        BY <2>1 DEF Half
    <2> QED BY <1>1, <1>2, <2>1, <2>2, ImportStep
<1>4. CASE OwnedBy(c.doc, c.owner) /\ Goto(w, [c EXCEPT !.known = known, !.at = "walk"])
    <2> DEFINE r == [c EXCEPT !.known = known, !.at = "walk"]
    <2>1. Goto(w, r)
        BY <1>4
    <2>2. c.doc \in LiveDocs(graph) /\ graph.docs[c.doc].owner = c.owner /\ known = In(graph, c.doc)
        BY <1>4 DEF OwnedBy, Shell
    <2> HIDE DEF known
    <2>3. /\ r.at = "walk" /\ r.answer = c.answer /\ r.leftover = c.leftover /\ r.doc = c.doc /\ r.known = known
          /\ r.owner = c.owner
        BY <1>1 DEF Fields
    <2> HIDE DEF r, c
    <2>4. Half(r, graph', trees')
        BY <1>1, <2>2, <2>3 DEF Half, Rooted
    <2> QED BY <1>1, <1>2, <2>1, <2>3, <2>4, ImportStep DEF c
<1> QED BY <1>3, <1>4 DEF LoadShell

LEMMA NewImport ==
    ASSUME NEW o \in Origins, Good(o), LoneInv, ImportInv, NEW w \in Workers, New(w)
    PROVE  ImportInv'
<1> DEFINE c == call[w]
           n == drawn.chapters
           d == drawn.docs + 1
           write == [kind |-> "document new", doc |-> d, title |-> c.title, owner |-> c.owner, list |-> << >>]
           at == IF c.writeBack THEN "meta" ELSE "walk"
           r == [c EXCEPT !.doc = d, !.at = at]
           after == IF c.op = "create" THEN [c EXCEPT !.at = "meta"] ELSE r
           h == Written(graph, write)
<1>1. /\ c.at = "new" /\ DOMAIN c = Fields /\ c.owner \in Accounts /\ c.title \in Titles /\ ~At(w, "idle")
      /\ c.op = "create" \/ c.op = "import"
      /\ c.known = {}
    BY CallIs DEF New, At, Local, ImportOK
<1>2. d \in Documents /\ Commit(w, write, after) /\ UNCHANGED trees /\ (w # Server => held' = held)
    BY DEF New, Commit
<1>3. Done(w, "error") \/ Goto(w, after)
    BY <1>2 DEF Commit
<1>4. CASE Done(w, "error")
    BY <1>1, <1>2, <1>4, DoneImport
<1>5. CASE c.op = "create" /\ Goto(w, after)
    <2> DEFINE q == [c EXCEPT !.at = "meta"]
    <2>1. Goto(w, q) /\ q.at = "meta" /\ q.op = "create"
        BY <1>1, <1>5 DEF Fields
    <2> HIDE DEF q
    <2> QED BY <1>1, <1>2, <2>1, ElsewhereStep
<1>6. CASE c.op = "import" /\ Goto(w, after)
    <2>1. Goto(w, r) /\ at \in {"meta", "walk"} /\ after = r
        BY <1>6
    <2> HIDE DEF at, d
    <2>2. /\ r.at = at /\ r.answer = c.answer /\ r.leftover = c.leftover /\ r.doc = d /\ r.known = c.known
          /\ r.owner = c.owner
        BY <1>1 DEF Fields
    <2> HIDE DEF r
    <2>3. Importing(c) /\ c.answer = "none" /\ (w = Server /\ ~c.leftover => held = << >>)
        BY <1>1, <1>6 DEF Importing, ImportInv
    <2>4. CASE c.leftover
        BY <1>1, <1>2, <2>1, <2>2, <2>3, <2>4, ImportStep
    <2>5. CASE ~c.leftover
        <3>1. write.kind = "document new"
            OBVIOUS
        <3>2. /\ write \in [kind : {"document new", "document changed"}, doc : Documents, title : Titles,
                            owner : Accounts, list : Seq(Chapters)]
              /\ write.list = << >> /\ write.doc = d /\ write.title = c.title /\ write.owner = c.owner
            <4>1. << >> \in Seq(Chapters)
                BY EmptySeq
            <4> QED BY <1>1, <1>2, <4>1
        <3> HIDE DEF write, h, after
        <3>3. \/ graph' = h /\ Goto(w, r) /\ (w = Server => held' = << >>)
              \/ Done(w, "error")
            <4>1. w = Server => held = << >>
                BY <2>3, <2>5
            <4> HIDE DEF c
            <4> QED BY <1>2, <2>1, <3>1, <4>1, CommitOne DEF h
        <3>4. CASE graph' = h /\ (w = Server => held' = << >>)
            <4>1. d \in LiveDocs(h) /\ h.docs = [graph.docs EXCEPT ![d] = [title |-> c.title, owner |-> c.owner]]
                <5>1. write \in DocWrites(o, n)
                    <6>1. IdsIn(<< >>) = {}
                        BY DEF IdsIn
                    <6> QED BY <3>2, <6>1 DEF DocWrites
                <5>2. h = DocNew(graph, write)
                    BY <3>1 DEF Written, h
                <5>3. GraphOK(o, n, graph)
                    BY DEF Good
                <5>4. w \in Workers
                    OBVIOUS
                <5> HIDE DEF n, c, h
                <5>5. /\ write.doc \in LiveDocs(DocNew(graph, write))
                      /\ DocNew(graph, write).docs =
                           [graph.docs EXCEPT ![write.doc] = [title |-> write.title, owner |-> write.owner]]
                    BY <5>1, <5>3, DocNewOK
                <5> QED BY <3>2, <5>2, <5>5
            <4>2. graph.docs \in [Documents -> Document \cup {NoDocument}]
                BY DEF Good, GraphOK, Graph
            <4>3. h.docs[d].owner = c.owner
                BY <1>2, <4>1, <4>2
            <4>4. Rooted(r, h)
                BY <1>1, <2>2, <4>1, <4>3 DEF Rooted
            <4>5. Half(r, graph', trees')
                <5> HIDE DEF h, c
                <5> QED BY <2>1, <2>2, <3>4, <4>4 DEF Half
            <4> QED BY <1>1, <1>2, <2>1, <2>2, <2>3, <3>4, <4>5, ImportStep
        <3> QED BY <1>1, <1>2, <3>3, <3>4, DoneImport
    <2> QED BY <2>4, <2>5
<1> QED BY <1>1, <1>3, <1>4, <1>5, <1>6

LEMMA MetaImport ==
    ASSUME NEW o \in Origins, Good(o), LoneInv, ImportInv, NEW w \in Workers, Meta(w)
    PROVE  ImportInv'
<1> DEFINE c == call[w]
           r == [c EXCEPT !.at = "walk"]
<1>1. c.at = "meta" /\ DOMAIN c = Fields /\ ~At(w, "idle") /\ UNCHANGED <<graph, held>>
    BY CallIs DEF Meta, At
<1>2. CASE \E answer : Done(w, answer)
    BY <1>1, <1>2, DoneImport
<1>3. CASE c.op = "import" /\ Goto(w, r)
    <2>1. /\ r.at = "walk" /\ r.answer = c.answer /\ r.leftover = c.leftover /\ r.doc = c.doc /\ r.known = c.known
          /\ r.owner = c.owner /\ r.lone = c.lone
        BY <1>1 DEF Fields
    <2>2. Importing(c)
        BY <1>1, <1>3 DEF Importing
    <2>3. c.answer = "none" /\ (w = Server /\ ~c.leftover => held' = << >>)
          /\ (c.lone /\ ~c.leftover => Half(c, graph, trees))
        BY <1>1, <2>2 DEF ImportInv
    <2>4. Goto(w, r)
        BY <1>3
    <2> HIDE DEF r, c
    <2>5. Half(c, graph, trees) => Half(r, graph', trees')
        BY <1>1, <2>1 DEF Half, Rooted
    <2> QED BY <1>1, <2>1, <2>3, <2>4, <2>5, ImportStep DEF c
<1>4. CASE Step(w, "snapshot")
    <2> DEFINE r1 == [c EXCEPT !.at = "snapshot"]
    <2>1. Goto(w, r1) /\ r1.at \in Elsewhere
        BY <1>1, <1>4 DEF Step, Fields, Elsewhere
    <2> HIDE DEF r1
    <2> QED BY <1>1, <2>1, ElsewhereStep
<1> QED BY <1>2, <1>3, <1>4 DEF Meta, Step

LEMMA WalkImport ==
    ASSUME NEW o \in Origins, Good(o), LoneInv, ImportInv, NEW w \in Workers, Walk(w)
    PROVE  ImportInv'
<1> DEFINE c == call[w]
           tree == TreeAt(c.place, c.dir)
<1>1. /\ c.at = "walk" /\ DOMAIN c = Fields /\ ~At(w, "idle") /\ UNCHANGED <<graph, trees, held>>
      /\ c.place \in Places /\ c.dir \in Titles /\ c.ids = << >>
    BY CallIs DEF Walk, At, Local, ImportOK
<1>2. PICK walk \in Walks(FilesIn(tree)) :
        IF walk.files = << >> THEN Done(w, IF walk.whole THEN "ok" ELSE "error")
        ELSE Goto(w, [c EXCEPT !.files = walk.files, !.whole = walk.whole, !.at = "apply"])
    BY DEF Walk
<1>3. CASE \E answer : Done(w, answer)
    BY <1>1, <1>3, DoneImport
<1>4. CASE walk.files # << >> /\ Goto(w, [c EXCEPT !.files = walk.files, !.whole = walk.whole, !.at = "apply"])
    <2> DEFINE files == walk.files
               whole == walk.whole
               r == [c EXCEPT !.files = files, !.whole = whole, !.at = "apply"]
    <2>1. Goto(w, r) /\ files # << >>
        BY <1>4
    <2>2. tree \in Tree
        BY <1>1, TreeAtOK DEF Good, TreeOK
    <2>3. /\ files \in Seq(Paths) /\ IdsIn(files) \subseteq FilesIn(tree) /\ (whole => IdsIn(files) = FilesIn(tree))
          /\ \A i, j \in 1 .. Len(files) : i < j => files[i] # files[j] /\ Precedes(files[i], files[j])
        <3> HIDE DEF tree
        <3> QED BY <1>2, <2>2, WalkIs
    <2> HIDE DEF files, whole
    <2>4. trees[<<c.place, c.dir>>] # NoTree /\ tree = trees[<<c.place, c.dir>>]
        <3>1. 1 \in 1 .. Len(files)
            BY <2>1, <2>3, EmptySeq, LenProperties
        <3>2. FilesIn(tree) # {}
            BY <2>3, <3>1 DEF IdsIn
        <3>3. HasTree(c.place, c.dir)
            BY <3>2, EmptyTreeOK DEF TreeAt
        <3> QED BY <3>3 DEF TreeAt, HasTree
    <2>5. /\ r.at = "apply" /\ r.answer = c.answer /\ r.leftover = c.leftover /\ r.doc = c.doc /\ r.known = c.known
          /\ r.owner = c.owner /\ r.lone = c.lone /\ r.ids = << >> /\ r.files = files /\ r.whole = whole
          /\ r.place = c.place /\ r.dir = c.dir
        BY <1>1 DEF Fields
    <2>6. Importing(c)
        BY <1>1 DEF Importing
    <2>7. c.answer = "none" /\ (w = Server /\ ~c.leftover => held' = << >>)
          /\ (c.lone /\ ~c.leftover => Half(c, graph, trees))
        BY <1>1, <2>6 DEF ImportInv
    <2> HIDE DEF r
    <2>8. AsWalked(r, trees[<<r.place, r.dir>>])
        <3> HIDE DEF tree, c
        <3> QED BY <2>3, <2>4, <2>5 DEF AsWalked
    <2>9. Applied(r, graph, trees[<<r.place, r.dir>>])
        <3>1. Len(r.ids) = 0
            BY <2>5
        <3>2. 1 .. Len(r.ids) = {}
            BY <3>1
        <3> QED BY <3>2 DEF Applied
    <2> HIDE DEF c, tree
    <2>10. Half(c, graph, trees) => Half(r, graph', trees')
        BY <1>1, <2>5, <2>8, <2>9 DEF Half, Rooted
    <2> QED BY <1>1, <2>1, <2>5, <2>7, <2>10, ImportStep DEF c
<1> QED BY <1>2, <1>3, <1>4

\* The file after those an import is through with: one of the directory, and
\* not one of those.
LEMMA NextFile ==
    ASSUME NEW o, NEW n, NEW r, FilesOK(o, n, r), Len(r.ids) < Len(r.files), NEW tree, AsWalked(r, tree)
    PROVE  /\ Len(r.ids) \in Nat /\ Len(r.ids) + 1 \in 1 .. Len(r.files)
           /\ r.files[Len(r.ids) + 1] \in Paths /\ r.files[Len(r.ids) + 1] \in FilesIn(tree)
           /\ \A i \in 1 .. Len(r.ids) : i \in 1 .. Len(r.files) /\ r.files[i] \in FilesIn(tree)
                                         /\ r.files[i] # r.files[Len(r.ids) + 1]
<1>1. r.files \in Seq(Paths) /\ Len(r.ids) \in Nat /\ Len(r.files) \in Nat
    BY LenProperties DEF FilesOK
<1>2. Len(r.ids) + 1 \in 1 .. Len(r.files) /\ \A i \in 1 .. Len(r.ids) : i \in 1 .. Len(r.files) /\ i < Len(r.ids) + 1
    BY <1>1
<1>3. \A i \in 1 .. Len(r.files) : r.files[i] \in Paths /\ r.files[i] \in FilesIn(tree)
    BY <1>1, ElementOfSeq DEF AsWalked, IdsIn
<1>4. \A i \in 1 .. Len(r.ids) : r.files[i] # r.files[Len(r.ids) + 1]
    BY <1>2 DEF AsWalked
<1> QED BY <1>1, <1>2, <1>3, <1>4

LEMMA AfterHalf ==
    ASSUME NEW o, NEW n, NEW w \in Workers, DOMAIN call[w] = Fields, FilesOK(o, n, call[w]),
           Len(call[w].ids) < Len(call[w].files),
           NEW id, NEW g, NEW ts, NEW tree, tree = ts[<<call[w].place, call[w].dir>>],
           Rooted(call[w], g), AsWalked(call[w], tree), Applied(call[w], g, tree),
           Stands(call[w], g, tree, call[w].files[Len(call[w].ids) + 1], id),
           call[w].writeBack => tree.files[call[w].files[Len(call[w].ids) + 1]].id = id
    PROVE  Importing(After(w, id)) => Half(After(w, id), g, ts)
<1> DEFINE c == call[w]
           ids == Append(c.ids, id)
<1>1. /\ c.ids \in Seq(Chapters) /\ Len(c.ids) \in Nat /\ Len(c.files) \in Nat
      /\ Len(c.ids) < Len(c.files)
    BY LenProperties DEF FilesOK
<1>2. Len(ids) = Len(c.ids) + 1 /\ ids[Len(c.ids) + 1] = id /\ \A i \in 1 .. Len(c.ids) : ids[i] = c.ids[i]
    <2>1. c.ids \in Seq(Chapters \cup {id}) /\ id \in Chapters \cup {id}
        BY <1>1, SeqMonotonic
    <2> QED BY <2>1, AppendProperties
<1>3. /\ After(w, id) = IF Len(ids) < Len(c.files) THEN [c EXCEPT !.ids = ids, !.at = "apply"]
                        ELSE IF c.whole THEN [c EXCEPT !.ids = ids, !.at = "order"]
                        ELSE [Idle EXCEPT !.op = c.op, !.answer = "error"]
    BY DEF After
<1> HIDE DEF ids
<1>4. ASSUME NEW at \in {"apply", "order"}, at = "order" => c.whole /\ Len(ids) = Len(c.files)
      PROVE  Half([c EXCEPT !.ids = ids, !.at = at], g, ts)
    <2> DEFINE r == [c EXCEPT !.ids = ids, !.at = at]
    <2>1. /\ r.at = at /\ r.owner = c.owner /\ r.doc = c.doc /\ r.place = c.place /\ r.dir = c.dir /\ r.known = c.known
          /\ r.ids = ids /\ r.files = c.files /\ r.whole = c.whole /\ r.writeBack = c.writeBack
        BY DEF Fields
    <2> HIDE DEF r
    <2>2. Rooted(r, g) /\ AsWalked(r, tree)
        BY <2>1 DEF Rooted, AsWalked
    <2>3. Applied(r, g, tree)
        <3> SUFFICES ASSUME NEW i \in 1 .. Len(ids)
                     PROVE  /\ Stands(r, g, tree, r.files[i], r.ids[i])
                            /\ r.writeBack => tree.files[r.files[i]].id = r.ids[i]
            BY <2>1 DEF Applied
        <3>1. i \in 1 .. Len(c.ids) \/ i = Len(c.ids) + 1
            BY <1>1, <1>2
        <3>2. CASE i \in 1 .. Len(c.ids)
            <4> DEFINE path == c.files[i]
            <4>1. r.files[i] = path /\ r.ids[i] = c.ids[i]
                BY <1>2, <2>1, <3>2
            <4>2. Stands(c, g, tree, path, c.ids[i]) /\ (c.writeBack => tree.files[path].id = c.ids[i])
                BY <3>2 DEF Applied
            <4> HIDE DEF path
            <4>3. Stands(r, g, tree, path, c.ids[i]) /\ (r.writeBack => tree.files[path].id = c.ids[i])
                BY <2>1, <4>2 DEF Stands
            <4> QED BY <4>1, <4>3
        <3>3. CASE i = Len(c.ids) + 1
            <4> DEFINE path == c.files[Len(c.ids) + 1]
            <4>1. r.files[i] = path /\ r.ids[i] = id
                BY <1>2, <2>1, <3>3
            <4>2. Stands(c, g, tree, path, id) /\ (c.writeBack => tree.files[path].id = id)
                OBVIOUS
            <4> HIDE DEF path
            <4>3. Stands(r, g, tree, path, id) /\ (r.writeBack => tree.files[path].id = id)
                BY <2>1, <4>2 DEF Stands
            <4> QED BY <4>1, <4>3
        <3> QED BY <3>1, <3>2, <3>3
    <2> HIDE DEF c
    <2>4. Half(r, g, ts)
        BY <1>4, <2>1, <2>2, <2>3 DEF Half, c
    <2> QED BY <2>4 DEF r
<1>5. ~(Len(ids) < Len(c.files)) => Len(ids) = Len(c.files)
    BY <1>1, <1>2
<1>6. [Idle EXCEPT !.op = c.op, !.answer = "error"].at = "idle"
    BY DEF Idle
<1>7. ASSUME After(w, id).at = "idle" PROVE ~Importing(After(w, id))
    BY <1>7 DEF Importing
<1>8. CASE Len(ids) < Len(c.files)
    BY <1>3, <1>4, <1>8
<1>9. CASE ~(Len(ids) < Len(c.files)) /\ c.whole
    BY <1>3, <1>4, <1>5, <1>9
<1>10. CASE ~(Len(ids) < Len(c.files)) /\ ~c.whole
    BY <1>3, <1>6, <1>7, <1>10
<1> QED BY <1>8, <1>9, <1>10

\* The import goes on after a file.
LEMMA AfterImport ==
    ASSUME NEW o, Good(o), LoneInv, ImportInv, NEW w \in Workers, ~At(w, "idle"), Importing(call[w]),
           w # Server => held' = held, w = Server /\ ~call[w].leftover => held' = << >>,
           NEW id, Goto(w, After(w, id)),
           call[w].lone /\ ~call[w].leftover => (Importing(After(w, id)) => Half(After(w, id), graph', trees'))
    PROVE  ImportInv'
<1> DEFINE r == After(w, id)
<1>1. Goto(w, r)
    OBVIOUS
<1>2. \/ r.at = "idle"
      \/ r.at \in {"apply", "order"} /\ r.lone = call[w].lone /\ r.leftover = call[w].leftover
         /\ r.answer = call[w].answer
    BY CallIs, AfterAt
<1>3. call[w].answer = "none"
    BY DEF ImportInv
<1>4. r.at = "idle" => ~Importing(r)
    BY DEF Importing
<1> HIDE DEF r
<1> QED BY <1>1, <1>2, <1>3, <1>4, ImportStep DEF r

\* A chapter that is found keeps its text, which the file has; a new one gets
\* that of the file.
LEMMA ApplyImport ==
    ASSUME NEW o \in Origins, Good(o), LoneInv, ImportInv, NEW w \in Workers, Apply(w)
    PROVE  ImportInv'
<1> DEFINE c == call[w]
           n == drawn.chapters
           path == c.files[Len(c.ids) + 1]
           tree == TreeAt(c.place, c.dir)
           file == tree.files[path]
<1>1. /\ c.at = "apply" /\ DOMAIN c = Fields /\ ~At(w, "idle") /\ UNCHANGED <<graph, trees, held>>
      /\ FilesOK(o, n, c) /\ Len(c.ids) < Len(c.files) /\ c.place \in Places /\ c.dir \in Titles
    <2>1. c.at = "apply" /\ DOMAIN c = Fields /\ ~At(w, "idle") /\ Local(o, n, c) /\ UNCHANGED <<graph, trees, held>>
        BY CallIs DEF Apply, At
    <2> HIDE DEF c
    <2> QED BY <2>1 DEF Local, FilesOK, ImportOK
<1>2. Importing(c) /\ c.answer = "none" /\ (w = Server /\ ~c.leftover => held' = << >>)
      /\ (c.lone /\ ~c.leftover => Half(c, graph, trees))
    <2>1. Importing(c)
        BY <1>1 DEF Importing
    <2> QED BY <1>1, <2>1 DEF ImportInv
<1>3. ASSUME Half(c, graph, trees)
      PROVE  /\ tree = trees[<<c.place, c.dir>>] /\ Rooted(c, graph) /\ AsWalked(c, tree) /\ Applied(c, graph, tree)
             /\ path \in Paths /\ path \in FilesIn(tree) /\ file \in File /\ FileOK(o, n, path, file)
    <2> DEFINE t == trees[<<c.place, c.dir>>]
    <2>1. Rooted(c, graph) /\ AsWalked(c, t) /\ Applied(c, graph, t)
        <3> HIDE DEF c
        <3> QED BY <1>1, <1>3 DEF Half
    <2>2. tree = t /\ t # NoTree
        BY <2>1 DEF AsWalked, TreeAt, HasTree
    <2>3. TreeOK(o, n, t)
        <3>1. <<c.place, c.dir>> \in Places \X Titles
            BY <1>1
        <3> HIDE DEF c
        <3> QED BY <2>2, <3>1 DEF Good, TreesOK
    <2> HIDE DEF tree, t
    <2>4. path \in Paths /\ path \in FilesIn(t)
        <3> HIDE DEF c, n
        <3> QED BY <1>1, <2>1, NextFile
    <2>5. t.files[path] \in File /\ FileOK(o, n, path, t.files[path])
        <3> HIDE DEF path
        <3> QED BY <2>3, <2>4 DEF TreeOK, Tree, FilesIn
    <2>6. t = trees[<<c.place, c.dir>>] /\ file = t.files[path]
        BY <2>2 DEF t
    <2> HIDE DEF file, path, c, n
    <2> QED BY <2>1, <2>2, <2>4, <2>5, <2>6
<1>4. CASE \E answer : Done(w, answer)
    BY <1>1, <1>4, DoneImport
<1>5. ASSUME NEW id, NEW text, text = file.text, Goto(w, [c EXCEPT !.new = id, !.text = text, !.at = "persist"])
      PROVE  ImportInv'
    <2> DEFINE r == [c EXCEPT !.new = id, !.text = text, !.at = "persist"]
    <2>1. Goto(w, r)
        BY <1>5
    <2>2. /\ r.at = "persist" /\ r.answer = c.answer /\ r.leftover = c.leftover /\ r.lone = c.lone
          /\ r.owner = c.owner /\ r.doc = c.doc /\ r.place = c.place /\ r.dir = c.dir /\ r.known = c.known
          /\ r.ids = c.ids /\ r.files = c.files /\ r.whole = c.whole /\ r.writeBack = c.writeBack /\ r.text = text
        BY <1>1 DEF Fields
    <2> HIDE DEF r
    <2>3. ASSUME Half(c, graph, trees) PROVE Half(r, graph', trees')
        <3>1. /\ tree = trees[<<c.place, c.dir>>] /\ Rooted(c, graph) /\ AsWalked(c, tree) /\ Applied(c, graph, tree)
            BY <1>3, <2>3
        <3>2. tree.files[path].text = text
            BY <1>5
        <3> HIDE DEF c, tree
        <3>3. Rooted(r, graph) /\ AsWalked(r, tree) /\ Applied(r, graph, tree)
            BY <2>2, <3>1 DEF Rooted, AsWalked, Applied, Stands
        <3> QED BY <1>1, <2>2, <3>1, <3>2, <3>3 DEF Half
    <2> HIDE DEF c
    <2> QED BY <1>1, <1>2, <2>1, <2>2, <2>3, ImportStep DEF c
<1>6. CASE /\ file # NoFile /\ file.id # NoId /\ ~Mismatch(w, file.id) /\ Goto(w, After(w, file.id))
    <2> DEFINE id == file.id
    <2>1. ASSUME Half(c, graph, trees)
          PROVE  Importing(After(w, id)) => Half(After(w, id), graph', trees')
        <3>1. /\ tree = trees[<<c.place, c.dir>>] /\ Rooted(c, graph) /\ AsWalked(c, tree) /\ Applied(c, graph, tree)
              /\ file \in File /\ FileOK(o, n, path, file)
            BY <1>3, <2>1
        <3>2. id \in In(graph, c.doc) /\ id \in c.known
            BY <1>6, <3>1, Zenon DEF Mismatch, Rooted
        <3>3. o[id].text = file.text
            BY <1>6, <3>1, Zenon DEF FileOK
        <3>4. id \in LiveChaps(graph) /\ NodeOK(o[id], graph.chapters[id])
            BY <3>2, Zenon DEF In, Good, GraphOK
        <3>5. graph.chapters[id].path # NoPath => graph.chapters[id].text = file.text
            BY <3>3, <3>4 DEF NodeOK
        <3>6. Stands(c, graph, tree, path, id) /\ tree.files[path].id = id
            <4> HIDE DEF c, tree, path
            <4> QED BY <3>2, <3>5 DEF Stands
        <3>7. tree = trees'[<<c.place, c.dir>>] /\ graph' = graph
            BY <1>1, <3>1
        <3> HIDE DEF id, tree, n
        <3>8. Importing(After(w, id)) => Half(After(w, id), graph, trees')
            BY <1>1, <3>1, <3>6, <3>7, AfterHalf, Zenon
        <3> QED BY <3>7, <3>8
    <2>2. Goto(w, After(w, id))
        BY <1>6, Zenon
    <2> HIDE DEF id, tree
    <2> QED BY <1>1, <1>2, <2>1, <2>2, AfterImport
<1>7. (\E answer : Done(w, answer)) \/ (file # NoFile /\ file.id # NoId /\ ~Mismatch(w, file.id) /\ Goto(w, After(w, file.id)))
      \/ (\E id : Goto(w, [c EXCEPT !.new = id, !.text = file.text, !.at = "persist"]))
    BY DEF Apply
<1> QED BY <1>4, <1>5, <1>6, <1>7

\* The chapter is written where it belongs, and the others stay.
LEMMA PersistImport ==
    ASSUME NEW o \in Origins, Good(o), LoneInv, ImportInv, NEW w \in Workers, Persist(w)
    PROVE  ImportInv'
<1> DEFINE c == call[w]
           n == drawn.chapters
           path == c.files[Len(c.ids) + 1]
           tree == trees[<<c.place, c.dir>>]
           write == [kind |-> "chapter new", doc |-> c.doc, owner |-> c.owner, chapter |-> c.new,
                     path |-> path, text |-> c.text]
           back == [c EXCEPT !.at = "back"]
           after == IF c.writeBack THEN back ELSE After(w, c.new)
           h == Written(graph, write)
<1>1. /\ c.at = "persist" /\ DOMAIN c = Fields /\ ~At(w, "idle") /\ Commit(w, write, after) /\ UNCHANGED trees
      /\ c.owner \in Accounts /\ FilesOK(o, n, c) /\ Len(c.ids) < Len(c.files) /\ c.doc \in Documents
      /\ c.new \in Chapters /\ c.new <= n /\ c.text \in Texts \cup {NoText}
      /\ o[c.new] = [doc |-> c.doc, path |-> path, text |-> c.text] /\ o[c.new].path = path
    <2>1. c.at = "persist" /\ DOMAIN c = Fields /\ c.owner \in Accounts /\ Local(o, n, c) /\ ~At(w, "idle")
        BY CallIs DEF Persist, At
    <2>2. Commit(w, write, after) /\ UNCHANGED trees
        BY DEF Persist
    <2> HIDE DEF c, n, path, write, after
    <2>3. FilesOK(o, n, c)
        BY <2>1 DEF Local
    <2> QED BY <2>1, <2>2, <2>3 DEF Local, FilesOK, KnownOK, path
<1>2. (w # Server => held' = held) /\ (Done(w, "error") \/ Goto(w, after))
    BY <1>1 DEF Commit
<1>3. Importing(c) /\ c.answer = "none" /\ (w = Server /\ ~c.leftover => held = << >>)
      /\ (c.lone /\ ~c.leftover => Half(c, graph, trees))
    <2>1. Importing(c)
        BY <1>1 DEF Importing
    <2> QED BY <2>1 DEF ImportInv
<1>4. /\ back.at = "back" /\ back.answer = c.answer /\ back.leftover = c.leftover /\ back.lone = c.lone
      /\ back.owner = c.owner /\ back.doc = c.doc /\ back.place = c.place /\ back.dir = c.dir /\ back.known = c.known
      /\ back.ids = c.ids /\ back.files = c.files /\ back.whole = c.whole /\ back.writeBack = c.writeBack
      /\ back.text = c.text /\ back.new = c.new
    BY <1>1 DEF Fields
<1>5. ASSUME Goto(w, after), w = Server /\ ~c.leftover => held' = << >>,
             c.lone /\ ~c.leftover => /\ c.writeBack => Half(back, graph', trees')
                                      /\ ~c.writeBack => (Importing(After(w, c.new)) => Half(After(w, c.new), graph', trees'))
      PROVE  ImportInv'
    <2>1. CASE c.writeBack
        <3>1. Goto(w, back)
            BY <1>5, <2>1
        <3> HIDE DEF back, c
        <3> QED BY <1>1, <1>2, <1>3, <1>4, <1>5, <2>1, <3>1, ImportStep DEF c
    <2>2. CASE ~c.writeBack
        <3> DEFINE id == c.new
        <3>1. Goto(w, After(w, id)) /\ (c.lone /\ ~c.leftover => (Importing(After(w, id)) => Half(After(w, id), graph', trees')))
            BY <1>5, <2>2
        <3> HIDE DEF id
        <3> QED BY <1>1, <1>2, <1>3, <1>5, <3>1, AfterImport
    <2> QED BY <2>1, <2>2
<1>6. CASE Done(w, "error")
    BY <1>1, <1>2, <1>6, DoneImport
<1>7. CASE c.leftover /\ Goto(w, after)
    BY <1>5, <1>7
<1>8. CASE ~c.leftover
    <2>1. write.kind = "chapter new" /\ write.doc = c.doc /\ write.owner = c.owner /\ write.chapter = c.new
          /\ write.text = c.text
        OBVIOUS
    <2>2. \/ graph' = h /\ Goto(w, after) /\ (w = Server => held' = << >>)
          \/ Done(w, "error")
        <3>1. w = Server => held = << >>
            BY <1>3, <1>8
        <3> HIDE DEF c, write, after
        <3> QED BY <1>1, <2>1, <3>1, CommitOne DEF h
    <2>3. CASE Done(w, "error")
        BY <1>1, <1>2, <2>3, DoneImport
    <2>4. CASE graph' = h /\ Goto(w, after) /\ (w = Server => held' = << >>)
        <3>1. ASSUME Half(c, graph, trees)
              PROVE  /\ c.writeBack => Half(back, graph', trees')
                     /\ ~c.writeBack => (Importing(After(w, c.new)) => Half(After(w, c.new), graph', trees'))
            <4>1. Rooted(c, graph) /\ AsWalked(c, tree) /\ Applied(c, graph, tree) /\ tree.files[path].text = c.text
                <5> HIDE DEF c
                <5> QED BY <1>1, <3>1 DEF Half
            <4>2. path \in Paths /\ \A i \in 1 .. Len(c.ids) : c.files[i] # path
                <5> HIDE DEF c, n, tree
                <5> QED BY <1>1, <4>1, NextFile
            <4>3. ChapterPut(graph, h, write)
                <5>1. write \in ChapterWrites(o, n)
                    <6>1. write \in [kind : {"chapter new"}, doc : Documents, owner : Accounts, chapter : Chapters,
                                     path : Paths, text : Texts \cup {NoText}] /\ write.path = path
                        BY <1>1, <4>2
                    <6> HIDE DEF write, path
                    <6> QED BY <1>1, <2>1, <6>1 DEF ChapterWrites
                <5>2. h = ChapterNew(graph, write)
                    <6> HIDE DEF write
                    <6> QED BY <2>1 DEF Written
                <5>3. GraphOK(o, n, graph)
                    BY DEF Good
                <5>4. write.doc \in LiveDocs(graph) /\ graph.docs[write.doc].owner = write.owner
                    BY <2>1, <4>1 DEF Rooted
                <5> HIDE DEF write, h, n, c
                <5> QED BY <5>1, <5>2, <5>3, <5>4, ChapterNewOK
            <4>4. /\ h.docs = graph.docs /\ c.new \in In(h, c.doc) /\ h.chapters[c.new].text = c.text
                  /\ \A x \in In(graph, c.doc) : x # c.new => x \in In(h, c.doc) /\ Kept(graph, h, x)
                <5> HIDE DEF write, h, c
                <5> QED BY <2>1, <4>3 DEF ChapterPut
            <4> HIDE DEF h
            <4>5. Rooted(c, h)
                <5>1. LiveDocs(h) = LiveDocs(graph)
                    BY <4>4 DEF LiveDocs
                <5> QED BY <4>1, <4>4, <5>1 DEF Rooted
            <4>6. Stands(c, h, tree, path, c.new)
                BY <4>1, <4>4 DEF Stands
            <4>7. Applied(c, h, tree)
                <5> SUFFICES ASSUME NEW i \in 1 .. Len(c.ids)
                             PROVE  /\ Stands(c, h, tree, c.files[i], c.ids[i])
                                    /\ c.writeBack => tree.files[c.files[i]].id = c.ids[i]
                    BY DEF Applied
                <5>1. c.ids[i] # c.new
                    <6>1. o[c.ids[i]].path = c.files[i]
                        <7> HIDE DEF c, n
                        <7> QED BY <1>1 DEF FilesOK
                    <6> HIDE DEF c, n, path
                    <6> QED BY <1>1, <4>2, <6>1
                <5>2. Stands(c, graph, tree, c.files[i], c.ids[i]) /\ (c.writeBack => tree.files[c.files[i]].id = c.ids[i])
                    BY <4>1 DEF Applied
                <5>3. c.ids[i] \in In(graph, c.doc)
                    BY <5>2 DEF Stands
                <5>4. c.ids[i] \in In(h, c.doc) /\ Kept(graph, h, c.ids[i])
                    BY <4>4, <5>1, <5>3
                <5> HIDE DEF c, tree
                <5> QED BY <5>2, <5>4 DEF Stands, Kept
            <4>8. CASE c.writeBack
                <5> HIDE DEF back, c
                <5>1. Rooted(back, h) /\ AsWalked(back, tree)
                    <6> HIDE DEF tree
                    <6> QED BY <1>4, <4>1, <4>5 DEF Rooted, AsWalked
                <5>2. Applied(back, h, tree)
                    <6> HIDE DEF tree
                    <6> QED BY <1>4, <4>7 DEF Applied, Stands
                <5>3. Stands(back, h, tree, path, back.new)
                    <6> HIDE DEF tree, path
                    <6> QED BY <1>4, <4>6 DEF Stands
                <5>4. Half(back, h, trees)
                    BY <1>4, <4>1, <5>1, <5>2, <5>3 DEF Half
                <5> QED BY <1>1, <2>4, <4>8, <5>4
            <4>9. CASE ~c.writeBack
                <5> DEFINE id == c.new
                <5>1. Stands(c, h, tree, path, id) /\ tree = trees'[<<c.place, c.dir>>] /\ trees' = trees
                    BY <1>1, <4>6, Zenon
                <5> HIDE DEF id, tree, n, after, back
                <5>2. Importing(After(w, id)) => Half(After(w, id), h, trees')
                    BY <1>1, <4>1, <4>5, <4>7, <4>9, <5>1, AfterHalf
                <5> QED BY <2>4, <4>9, <5>2 DEF id
            <4> QED BY <4>8, <4>9
        <3> HIDE DEF back, after, h, write, c
        <3> QED BY <1>3, <1>5, <1>8, <2>4, <3>1
    <2> QED BY <2>2, <2>3, <2>4
<1> QED BY <1>2, <1>6, <1>7, <1>8

\* The file keeps its text and gets the chapter's id.
LEMMA WriteBackImport ==
    ASSUME NEW o \in Origins, Good(o), LoneInv, ImportInv, NEW w \in Workers, WriteBack(w)
    PROVE  ImportInv'
<1> DEFINE c == call[w]
           n == drawn.chapters
           path == c.files[Len(c.ids) + 1]
           x == <<c.place, c.dir>>
           tree == trees[x]
           file == [id |-> c.new, text |-> c.text]
           put == [tree EXCEPT !.files[path] = file]
<1>1. /\ c.at = "back" /\ DOMAIN c = Fields /\ ~At(w, "idle") /\ UNCHANGED <<graph, held>>
      /\ FilesOK(o, n, c) /\ Len(c.ids) < Len(c.files) /\ x \in Places \X Titles
      /\ c.new \in Chapters /\ c.text \in Texts \cup {NoText}
    <2>1. c.at = "back" /\ DOMAIN c = Fields /\ ~At(w, "idle") /\ Local(o, n, c) /\ UNCHANGED <<graph, held>>
        BY CallIs DEF WriteBack, At
    <2> HIDE DEF c
    <2> QED BY <2>1 DEF Local, FilesOK, ImportOK
<1>2. Importing(c) /\ c.answer = "none" /\ (w = Server /\ ~c.leftover => held' = << >>)
      /\ (c.lone /\ ~c.leftover => Half(c, graph, trees))
    <2>1. Importing(c)
        BY <1>1 DEF Importing
    <2> QED BY <1>1, <2>1 DEF ImportInv
<1>3. CASE Done(w, "error")
    BY <1>1, <1>3, DoneImport
<1>4. CASE HasTree(c.place, c.dir) /\ WriteFile(c.place, c.dir, path, file) /\ Goto(w, After(w, c.new))
    <2>1. trees' = [trees EXCEPT ![x] = put] /\ tree # NoTree
        BY <1>4 DEF WriteFile, TreeAt, HasTree
    <2>2. ASSUME Half(c, graph, trees)
          PROVE  Importing(After(w, c.new)) => Half(After(w, c.new), graph', trees')
        <3>1. /\ Rooted(c, graph) /\ AsWalked(c, tree) /\ Applied(c, graph, tree) /\ tree.files[path].text = c.text
              /\ Stands(c, graph, tree, path, c.new)
            <4> HIDE DEF c
            <4> QED BY <1>1, <2>2 DEF Half
        <3>2. /\ path \in Paths /\ path \in FilesIn(tree)
              /\ \A i \in 1 .. Len(c.ids) : i \in 1 .. Len(c.files) /\ c.files[i] \in FilesIn(tree) /\ c.files[i] # path
            <4> HIDE DEF c, n, tree
            <4> QED BY <1>1, <3>1, NextFile
        <3>3. tree \in Tree
            <4> HIDE DEF x
            <4> QED BY <1>1, <2>1 DEF Good, TreesOK
        <3>4. file \in File /\ file # NoFile /\ file.id = c.new /\ file.text = c.text
            <4>1. file \in File /\ file.id = c.new /\ file.text = c.text
                BY <1>1 DEF File
            <4> HIDE DEF file
            <4> QED BY <4>1, SentinelsAssumption
        <3> HIDE DEF file
        <3>5. put \in Tree /\ put.files[path] = file /\ \A p \in Paths : p # path => put.files[p] = tree.files[p]
            <4> HIDE DEF path, tree
            <4> QED BY <3>2, <3>3, <3>4 DEF Tree
        <3> HIDE DEF put
        <3>6. FilesIn(put) = FilesIn(tree) /\ put # NoTree
            <4>1. FilesIn(put) = FilesIn(tree)
                <5> HIDE DEF path, tree
                <5> QED BY <3>2, <3>4, <3>5 DEF FilesIn
            <4> QED BY <3>5, <4>1, SentinelsAssumption
        <3>7. \A i \in 1 .. Len(c.ids) : put.files[c.files[i]] = tree.files[c.files[i]]
            <4>1. FilesIn(tree) \subseteq Paths
                BY DEF FilesIn
            <4> HIDE DEF path, tree, c
            <4> QED BY <3>2, <3>5, <4>1
        <3> HIDE DEF path, tree
        <3>8. AsWalked(c, put)
            BY <3>1, <3>6 DEF AsWalked
        <3>9. Applied(c, graph, put)
            BY <3>1, <3>7 DEF Applied, Stands
        <3>10. Stands(c, graph, put, path, c.new) /\ put.files[path].id = c.new
            BY <3>1, <3>4, <3>5 DEF Stands
        <3>11. put = trees'[x]
            <4>1. trees \in [Places \X Titles -> Tree \cup {NoTree}]
                BY DEF Good, TreesOK
            <4> HIDE DEF x
            <4> QED BY <1>1, <2>1, <4>1
        <3> DEFINE id == c.new
        <3>12. Stands(c, graph, put, path, id) /\ put.files[path].id = id
            BY <3>10
        <3> HIDE DEF id, n
        <3>13. Importing(After(w, id)) => Half(After(w, id), graph, trees')
            BY <1>1, <3>1, <3>8, <3>9, <3>11, <3>12, AfterHalf DEF path
        <3> QED BY <1>1, <3>13 DEF id
    <2> DEFINE id == c.new
    <2>3. Goto(w, After(w, id)) /\ (Half(c, graph, trees) => (Importing(After(w, id)) => Half(After(w, id), graph', trees')))
        BY <1>4, <2>2
    <2> HIDE DEF id
    <2> QED BY <1>1, <1>2, <2>3, AfterImport
<1> QED BY <1>3, <1>4 DEF WriteBack

LEMMA NextImport ==
    ASSUME NEW o \in Origins, Good(o), LoneInv, ImportInv, [Next]_vars
    PROVE  ImportInv'
<1>1. CASE UNCHANGED vars
    BY <1>1 DEF vars, ImportInv
<1>2. ASSUME NEW w \in Workers,
             \/ Load(w) \/ Exists(w) \/ Materialize(w) \/ Check(w) \/ Update(w) \/ Rename(w) \/ Snapshot(w) \/ DeleteTree(w)
             \/ Delete(w) \/ Unassigned(w) \/ Find(w) \/ Adopt(w) \/ CopyFile(w) \/ Adopted(w) \/ Stamp(w) \/ RemoveSource(w)
             \/ Order(w) \/ Crash(w)
      PROVE  ImportInv'
    BY <1>2, OtherImport
<1>3. ASSUME NEW w \in Workers,
             Begin(w) \/ Resolve(w) \/ LoadShell(w) \/ New(w) \/ Meta(w) \/ Walk(w) \/ Apply(w) \/ Persist(w) \/ WriteBack(w)
      PROVE  ImportInv'
    BY <1>3, BeginImport, ResolveImport, LoadShellImport, NewImport, MetaImport, WalkImport, ApplyImport, PersistImport, WriteBackImport
<1> QED BY <1>1, <1>2, <1>3 DEF Next

LEMMA InitImport == Init => ImportInv
BY DEF Init, ImportInv, Importing, Idle

\* The order that an import gives the chapters it has made.
LEMMA OrderIsWhole ==
    ASSUME NEW o \in Origins, Good(o), NEW w \in Workers, Order(w), Half(call[w], graph, trees)
    PROVE  IsWhole(call[w], graph', trees'[<<call[w].place, call[w].dir>>])
<1> DEFINE c == call[w]
           n == drawn.chapters
           tree == trees[<<c.place, c.dir>>]
           L == Len(c.ids)
           d == c.doc
<1>1. c.at = "order" /\ FilesOK(o, n, c) /\ UNCHANGED trees
    <2>1. c.at = "order" /\ Local(o, n, c) /\ UNCHANGED trees
        BY CallIs DEF Order, At
    <2> HIDE DEF c
    <2> QED BY <2>1 DEF Local
<1>2. Rooted(c, graph) /\ AsWalked(c, tree) /\ Applied(c, graph, tree) /\ c.whole /\ Len(c.ids) = Len(c.files)
    <2>1. Half(c, graph, trees)
        OBVIOUS
    <2> HIDE DEF c
    <2> QED BY <1>1, <2>1 DEF Half
<1>3. c.ids \in Seq(Chapters) /\ c.files \in Seq(Paths) /\ L \in Nat /\ d \in Documents
      /\ (\A i \in 1 .. L : c.ids[i] \in Chapters /\ c.files[i] \in Paths /\ o[c.ids[i]].path = c.files[i])
    <2> HIDE DEF c, n
    <2>1. c.ids \in Seq(Chapters) /\ c.files \in Seq(Paths) /\ c.doc \in Documents
          /\ \A i \in 1 .. L : o[c.ids[i]].path = c.files[i]
        BY <1>1 DEF FilesOK, KnownOK
    <2> QED BY <1>2, <2>1, LenProperties, ElementOfSeq
<1>4. \A i, j \in 1 .. L : i < j => c.files[i] # c.files[j] /\ Precedes(c.files[i], c.files[j])
    <2> HIDE DEF c, tree
    <2> QED BY <1>2 DEF AsWalked
<1>5. \A i, j \in 1 .. L : c.ids[i] = c.ids[j] => i = j
    <2> SUFFICES ASSUME NEW i \in 1 .. L, NEW j \in 1 .. L, c.ids[i] = c.ids[j], i # j
                 PROVE  FALSE
        OBVIOUS
    <2>1. c.files[i] = c.files[j]
        BY <1>3
    <2>2. i < j \/ j < i
        BY <1>3
    <2> QED BY <1>4, <2>1, <2>2
<1>6. Cardinality(IdsIn(c.ids)) = L
    <2> DEFINE f == [i \in 1 .. L |-> c.ids[i]]
    <2>1. f \in Bijection(1 .. L, IdsIn(c.ids))
        <3>1. f \in [1 .. L -> IdsIn(c.ids)]
            BY DEF IdsIn
        <3>2. \A i, j \in 1 .. L : f[i] = f[j] => i = j
            BY <1>5
        <3>3. \A x \in IdsIn(c.ids) : \E i \in 1 .. L : f[i] = x
            BY DEF IdsIn
        <3> HIDE DEF f, L
        <3> QED BY <3>1, <3>2, <3>3 DEF Bijection, Injection, Surjection, IsInjective
    <2>2. IsFiniteSet(1 .. L) /\ Cardinality(1 .. L) = L
        <3> HIDE DEF L
        <3>1. 1 \in Int /\ L \in Int /\ 1 <= L + 1
            BY <1>3
        <3> QED BY <1>3, <3>1, FS_Interval
    <2> DEFINE S == IdsIn(c.ids)
    <2>3. f \in Bijection(1 .. L, S)
        BY <2>1
    <2> HIDE DEF f, L, S
    <2>4. Cardinality(S) = Cardinality(1 .. L)
        <3>1. ExistsBijection(1 .. L, S)
            BY <2>3 DEF ExistsBijection
        <3> QED BY <2>2, <3>1, FS_Bijection
    <2> QED BY <2>2, <2>4 DEF S, L
<1>7. d \in LiveDocs(graph) /\ OwnedBy(d, c.owner)
    BY <1>2 DEF Rooted, OwnedBy
<1>8. graph' = Reordered(graph, d, c.ids)
    BY <1>7 DEF Order
<1>9. \A i \in 1 .. L : /\ c.ids[i] \in In(graph, d)
                        /\ graph.chapters[c.ids[i]].path # NoPath
                           => graph.chapters[c.ids[i]].text = tree.files[c.files[i]].text
                        /\ c.writeBack => tree.files[c.files[i]].id = c.ids[i]
    <2> HIDE DEF tree, c
    <2> QED BY <1>2 DEF Applied, Stands
<1>10. ASSUME NEW i \in 1 .. L
       PROVE  LET node == graph'.chapters[c.ids[i]] IN
              /\ d \in Parents(node) /\ node.in[d] = i - 1
              /\ node.path = graph.chapters[c.ids[i]].path /\ node.text = graph.chapters[c.ids[i]].text
    <2> DEFINE id == c.ids[i]
               last == SelectLastInSeq(c.ids, LAMBDA x : x = id)
    <2>1. id \in IdsIn(c.ids) /\ id \in Chapters /\ id \in In(graph, d)
        BY <1>3, <1>9 DEF IdsIn
    <2>2. last = i
        <3>1. last \in 1 .. L /\ c.ids[last] = id
            <4> HIDE DEF id
            <4> QED BY <1>3, <2>1, Selected
        <3> HIDE DEF last, L
        <3> QED BY <1>5, <3>1
    <2>3. graph \in Graph /\ DOMAIN graph = {"docs", "chapters"}
        BY DEF Good, GraphOK, Graph
    <2>4. graph'.chapters[id] = [graph.chapters[id] EXCEPT !.in[d] = last - 1]
        <3>1. graph'.chapters = [x \in Chapters |->
                IF x \in In(graph, d) \cap IdsIn(c.ids)
                THEN [graph.chapters[x] EXCEPT !.in[d] = SelectLastInSeq(c.ids, LAMBDA y : y = x) - 1]
                ELSE graph.chapters[x]]
            <4> HIDE DEF c, d
            <4> QED BY <1>8, <2>3 DEF Reordered
        <3> HIDE DEF id, c, d
        <3> QED BY <2>1, <3>1
    <2>5. graph.chapters[id] \in Node
        <3> HIDE DEF id, c, d
        <3> QED BY <2>1, <2>3 DEF Graph, In, LiveChaps
    <2>6. i - 1 \in Nat
        BY <1>3
    <2> DEFINE node == graph.chapters[id]
               k == i - 1
    <2>7. graph'.chapters[id] = [node EXCEPT !.in[d] = k]
        BY <2>2, <2>4
    <2>8. [node EXCEPT !.in[d] = k].in[d] = k
        <3>1. node \in Node /\ d \in Documents
            BY <1>3, <2>5
        <3> HIDE DEF node, k, d
        <3> QED BY <3>1 DEF Node
    <2>9. node \in Node /\ k \in Nat /\ d \in Documents
        BY <1>3, <2>5, <2>6
    <2> HIDE DEF node, k, d, id
    <2>10. /\ Parents([node EXCEPT !.in[d] = k]) = Parents(node) \cup {d}
           /\ [node EXCEPT !.in[d] = k].path = node.path /\ [node EXCEPT !.in[d] = k].text = node.text
        BY <2>9, PutIn
    <2> QED BY <2>7, <2>8, <2>10 DEF id, node, k
<1>11. ASSUME NEW i \in 1 .. L, NEW j \in 1 .. L, i < j, c.files[j].act # Characters
       PROVE  ActNumber(c.files[i].act) <= ActNumber(c.files[j].act)
    <2> DEFINE p == c.files[i]
               q == c.files[j]
    <2>1. p \in Paths /\ q \in Paths /\ Precedes(p, q) /\ q.act # Characters
        BY <1>3, <1>4, <1>11
    <2> HIDE DEF p, q
    <2>2. q.act \in Acts
        BY <2>1 DEF Paths
    <2>3. ActNumber(q.act) \in Int
        BY <2>2, ActNumberTyped
    <2>4. ActNumber(p.act) <= ActNumber(q.act)
        <3>1. CASE p.act = q.act
            BY <2>3, <3>1
        <3>2. CASE p.act # q.act
            BY <2>1, <3>2 DEF Precedes
        <3> QED BY <3>1, <3>2
    <2> QED BY <2>4 DEF p, q
<1>12. IdsIn(c.files) = FilesIn(tree)
    <2> HIDE DEF c, tree
    <2> QED BY <1>2 DEF AsWalked
<1>13. trees'[<<c.place, c.dir>>] = tree
    BY <1>1
<1>14. L = Len(c.files)
    BY <1>2
<1>15. ASSUME NEW i \in 1 .. L, NEW j \in 1 .. L, i < j
       PROVE  graph'.chapters[c.ids[i]].in[d] < graph'.chapters[c.ids[j]].in[d]
    <2>1. graph'.chapters[c.ids[i]].in[d] = i - 1 /\ graph'.chapters[c.ids[j]].in[d] = j - 1
        BY <1>10
    <2>2. i - 1 < j - 1
        BY <1>3, <1>15
    <2> QED BY <2>1, <2>2
<1>16. ASSUME NEW i \in 1 .. L, graph'.chapters[c.ids[i]].path # NoPath
       PROVE  graph'.chapters[c.ids[i]].text = tree.files[c.files[i]].text
    BY <1>9, <1>10, <1>16
<1> HIDE DEF c, tree
<1>17. IsWhole(c, graph', tree)
    BY <1>6, <1>9, <1>10, <1>11, <1>12, <1>14, <1>15, <1>16 DEF IsWhole
<1> QED BY <1>13, <1>17 DEF c

\* Only the order of the chapters ends an import well from there.
LEMMA OrderSteps ==
    ASSUME NEW o \in Origins, Good(o), ImportInv, Next, NEW w \in Workers, At(w, "order"), call'[w].answer = "ok"
    PROVE  Order(w)
<1>1. call[w].answer = "none" /\ DOMAIN call[w] = Fields
    BY CallIs DEF ImportInv, Importing, At
<1>2. call = [v \in Workers |-> call[v]]
    BY DEF Good, CallsOK
<1>3. ASSUME NEW v \in Workers, v # w, NEW r, Goto(v, r)
      PROVE  FALSE
    <2>1. call'[w] = call[w]
        BY <1>2, <1>3 DEF Goto
    <2> QED BY <1>1, <2>1
<1>4. \A v \in Workers : \A answer : Done(v, answer) => \E r : Goto(v, r)
    BY DEF Done
<1>5. \A v \in Workers : Turn(v) \/ Refused(v) => \E r : Goto(v, r)
    BY <1>4 DEF Turn, Refused
<1>6. \A v \in Workers : \A step : Step(v, step) => \E r : Goto(v, r)
    BY DEF Step
<1>7. ASSUME NEW v \in Workers, Begin(v)
      PROVE  FALSE
    <2>1. v # w
        BY <1>7 DEF Begin, At
    <2>2. call'[w] = call[w] \/ call'[w] = [call[w] EXCEPT !.lone = FALSE]
        BY <1>7, <2>1 DEF Begin
    <2>3. call'[w].answer = "none"
        BY <1>1, <2>2 DEF Fields
    <2> QED BY <2>3
<1>8. ASSUME NEW v \in Workers,
             \/ Load(v) \/ Exists(v) \/ Materialize(v) \/ Check(v) \/ New(v) \/ Update(v) \/ Rename(v) \/ Meta(v) \/ Snapshot(v)
             \/ DeleteTree(v) \/ Delete(v) \/ Unassigned(v) \/ Find(v) \/ Adopt(v) \/ CopyFile(v) \/ Adopted(v) \/ Stamp(v)
             \/ RemoveSource(v) \/ Resolve(v) \/ LoadShell(v) \/ Walk(v) \/ Apply(v) \/ Persist(v) \/ WriteBack(v)
      PROVE  FALSE
    <2>1. v # w
        BY <1>8 DEF Load, Exists, Materialize, Check, New, Update, Rename, Meta, Snapshot, DeleteTree, Delete, Unassigned, Find,
                    Adopt, CopyFile, Adopted, Stamp, RemoveSource, Resolve, LoadShell, Walk, Apply, Persist, WriteBack, At
    <2>2. \E r : Goto(v, r)
        <3>1. CASE Load(v) \/ Exists(v) \/ Materialize(v) \/ Check(v) \/ Rename(v) \/ Meta(v) \/ Snapshot(v) \/ DeleteTree(v)
            BY <1>4, <1>6, <3>1 DEF Load, Exists, Materialize, Check, Rename, Meta, Snapshot, DeleteTree
        <3>2. CASE New(v) \/ Update(v) \/ Delete(v) \/ Persist(v)
            BY <1>4, <3>2, Zenon DEF New, Update, Delete, Persist, Commit
        <3>3. CASE Unassigned(v) \/ Find(v) \/ Adopt(v) \/ CopyFile(v) \/ Adopted(v) \/ Stamp(v) \/ RemoveSource(v)
            BY <1>4, <1>5, <1>6, <3>3, Zenon DEF Unassigned, Find, Adopt, AdoptOnto, CopyFile, Adopted, Stamp, RemoveSource
        <3>4. CASE Resolve(v) \/ LoadShell(v) \/ Walk(v) \/ Apply(v) \/ WriteBack(v)
            BY <1>4, <1>6, <3>4 DEF Resolve, LoadShell, Walk, Apply, WriteBack
        <3> QED BY <1>8, <3>1, <3>2, <3>3, <3>4
    <2> QED BY <1>3, <2>1, <2>2
<1>9. ASSUME NEW v \in Workers, Crash(v)
      PROVE  FALSE
    <2>1. Goto(v, Idle) /\ Idle.answer = "none"
        BY <1>9 DEF Crash, Idle
    <2>2. v = w => call'[w] = Idle
        BY <1>2, <2>1 DEF Goto
    <2> QED BY <1>3, <2>1, <2>2
<1>10. ASSUME NEW v \in Workers, Order(v)
       PROVE  v = w
    <2>1. \E r : Goto(v, r)
        BY <1>4, <1>10 DEF Order
    <2> QED BY <1>3, <2>1
<1>11. PICK v \in Workers : Order(v)
    BY <1>7, <1>8, <1>9 DEF Next
<1> QED BY <1>10, <1>11

\* An import beside which no other call ran, and before which no commit
\* failed, leaves one chapter for every file of the directory, with the file's
\* text and in the order of the acts and files, whatever it found there: the
\* work of an import that was cut short, another layout, other documents.
THEOREM ImportsAreWhole == Spec => ImportIsWhole
<1>1. Init => Documented /\ LoneInv /\ ImportInv
    BY InitDocumented, InitLone, InitImport
<1>2. Documented /\ LoneInv /\ ImportInv /\ [Next]_vars => (Documented /\ LoneInv /\ ImportInv)'
    <2>1. Documented /\ LoneInv /\ ImportInv /\ [Next]_vars => LoneInv' /\ ImportInv'
        BY NextLone, NextImport DEF Documented
    <2> QED BY <2>1, NextDocumented
<1>3. Documented /\ ImportInv /\ [Next]_vars =>
        [\A w \in Workers : At(w, "order") /\ call'[w].answer = "ok" /\ call[w].lone /\ ~call[w].leftover
           => IsWhole(call[w], graph', trees'[<<call[w].place, call[w].dir>>])]_vars
    <2> SUFFICES ASSUME Documented, ImportInv, Next, NEW w \in Workers,
                        At(w, "order"), call'[w].answer = "ok", call[w].lone, ~call[w].leftover
                 PROVE  IsWhole(call[w], graph', trees'[<<call[w].place, call[w].dir>>])
        OBVIOUS
    <2>1. PICK o \in Origins : Good(o)
        BY DEF Documented
    <2>2. Order(w)
        BY <2>1, OrderSteps
    <2>3. Half(call[w], graph, trees)
        BY DEF ImportInv, Importing, At
    <2> QED BY <2>1, <2>2, <2>3, OrderIsWhole
<1> QED BY <1>1, <1>2, <1>3, PTL DEF Spec, ImportIsWhole

=============================================================================
