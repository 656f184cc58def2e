--------------------------- MODULE MentionsProofs ---------------------------
(***************************************************************************)
(* Proofs about the character mentions, for every set of paragraphs,       *)
(* texts, characters, names and evaluations and every bound on edits.      *)
(*                                                                         *)
(* The scan of a text is a recursive function from its last word down.     *)
(* ScanFinds shows that it finds what the winning positions bear, which is *)
(* how Winners says it without scanning, and JudgedRight that a judgement  *)
(* settles and leaves in doubt just those it should.                       *)
(*                                                                         *)
(* Typed holds of any interleaving, with edits, deletions and kills: the   *)
(* types, verdicts only of characters that are there, and what an          *)
(* evaluation has at hand at each step (Staged).  Followed is the rest of  *)
(* VerdictsFollowTheNames.  Apart is about evaluations that do not meet:   *)
(* there is one at a time, the rollup is the view of the paragraphs where  *)
(* a tier ends (Rolled), and one that nothing was edited under has stamped *)
(* what is plain (Settling).  It gives RollupIsView.                       *)
(*                                                                         *)
(* Each action has a lemma that says what it does; StartsAlone, MovesAlone *)
(* and EditsApart say what is left to show of it for Apart.                *)
(***************************************************************************)
EXTENDS Mentions, WellFoundedInduction, TLAPS

\* A text with the names it is judged by.
Book == [text : Texts, cast : Casts]

---------------------------------------------------------------------------
\* What holds at 0 and goes from each number to the next holds of all natural numbers.
LEMMA SetInduction ==
    ASSUME NEW S, 0 \in S, \A n \in Nat : n \in S => n + 1 \in S
    PROVE  Nat \subseteq S
<1>1. SUFFICES ASSUME Nat \ S # {}
               PROVE  FALSE
    OBVIOUS
<1> DEFINE T == Nat \ S
<1>2. IsWellFoundedOn(OpToRel(<, Nat), Nat)
    BY NatLessThanWellFounded
<1>3. PICK x \in T : \A y \in T : ~(<<y, x>> \in OpToRel(<, Nat))
    BY <1>1, <1>2, WFMin
<1>4. x \in T
    OBVIOUS
<1>5. x # 0 /\ x - 1 \in Nat
    <2> HIDE <1>3
    <2> QED BY <1>4
<1>6. <<x - 1, x>> \in OpToRel(<, Nat)
    BY <1>4, <1>5 DEF OpToRel
<1>7. x - 1 \notin T
    BY <1>3, <1>6
<1>8. x \in S
    <2> HIDE <1>3
    <2> QED BY <1>5, <1>7
<1> QED BY <1>4, <1>8

\* A set of natural numbers that is not empty has a least element.
LEMMA Least ==
    ASSUME NEW S, S \subseteq Nat, S # {}
    PROVE  \E x \in S : \A y \in S : x <= y
<1>1. IsWellFoundedOn(OpToRel(<, Nat), Nat)
    BY NatLessThanWellFounded
<1>2. PICK x \in S : \A y \in S : ~(<<y, x>> \in OpToRel(<, Nat))
    BY <1>1, WFMin
<1>3. x \in Nat
    OBVIOUS
<1>4. \A y \in S : ~(y < x)
    <2> SUFFICES ASSUME NEW y \in S, y < x PROVE FALSE
        OBVIOUS
    <2>1. y \in Nat
        OBVIOUS
    <2>2. <<y, x>> \in OpToRel(<, Nat)
        BY <1>3, <2>1 DEF OpToRel
    <2> QED BY <1>2, <2>2
<1>5. \A y \in S : x <= y
    <2> HIDE <1>2
    <2> SUFFICES ASSUME NEW y \in S PROVE x <= y
        OBVIOUS
    <2>1. y \in Nat /\ ~(y < x)
        BY <1>4
    <2> QED BY <1>3, <2>1
<1> QED BY <1>5

\* A bounded one that is not empty has a greatest, which Max is.
LEMMA Greatest ==
    ASSUME NEW n \in Nat, NEW S, S \subseteq 1 .. n, S # {}
    PROVE  Max(S) \in S
<1> DEFINE T == {n - x : x \in S}
<1>1. T \subseteq Nat /\ T # {}
    <2>1. \A x \in S : n - x \in Nat
        OBVIOUS
    <2> QED BY <2>1
<1>2. PICK d \in T : \A e \in T : d <= e
    BY <1>1, Least
<1>3. PICK x \in S : d = n - x
    OBVIOUS
<1>4. \A y \in S : x >= y
    <2> SUFFICES ASSUME NEW y \in S PROVE x >= y
        OBVIOUS
    <2>1. n - x <= n - y
        BY <1>2, <1>3
    <2>2. x \in Nat /\ y \in Nat
        OBVIOUS
    <2> QED BY <2>1, <2>2
<1> QED BY <1>4 DEF Max

---------------------------------------------------------------------------
(***************************************************************************)
(* The scan.  What it finds from a position on are the winners from there  *)
(* on: a position is one where a name reads, and no earlier winner's run   *)
(* covers it.                                                              *)
(***************************************************************************)
\* A run starts in the text and ends in it.
LEMMA ReachRange ==
    ASSUME NEW b \in Book
    PROVE  /\ Len(b.text) \in Nat
           /\ \A i \in Names(b) :
                /\ i \in 1 .. Len(b.text)
                /\ Reach(b, i) \in 1 .. Len(b.text) - i + 1
<1>1. Len(b.text) \in Nat
    <2>1. b.text \in Seq(Range(b.text))
        BY TextsAssumption DEF Book
    <2> QED BY <2>1
<1>2. ASSUME NEW i \in Names(b)
      PROVE  i \in 1 .. Len(b.text) /\ Reach(b, i) \in 1 .. Len(b.text) - i + 1
    <2>1. i \in 1 .. Len(b.text) /\ Fits(b.text, i, b.cast) # {}
        <3>1. i \in {k \in 1 .. Len(b.text) : Fits(b.text, k, b.cast) # {}}
            BY DEF Names
        <3> QED BY <3>1
    <2>2. Len(b.text) - i + 1 \in Nat
        BY <1>1, <2>1
    <2>3. Fits(b.text, i, b.cast) \subseteq 1 .. Len(b.text) - i + 1
        BY DEF Fits
    <2>4. Max(Fits(b.text, i, b.cast)) \in Fits(b.text, i, b.cast)
        BY <2>1, <2>2, <2>3, Greatest
    <2> QED BY <2>1, <2>3, <2>4 DEF Reach
<1> QED BY <1>1, <1>2

\* W is the winners of the text from position i on.
WonFrom(b, i, W) ==
    /\ W \subseteq {x \in Names(b) : x >= i}
    /\ \A x \in Names(b) : x >= i => (x \in W <=> \A h \in W : h < x => h + Reach(b, h) <= x)

\* There is one set of winners only.
LEMMA WinnersUnique ==
    ASSUME NEW b \in Book, NEW i \in Nat, NEW V, NEW W, WonFrom(b, i, V), WonFrom(b, i, W)
    PROVE  V = W
<1> DEFINE D == (V \ W) \cup (W \ V)
<1>0. Names(b) \subseteq Nat
    BY ReachRange
<1>1. SUFFICES ASSUME D # {}
               PROVE  FALSE
    OBVIOUS
<1>2. D \subseteq Nat /\ V \subseteq Names(b) /\ W \subseteq Names(b)
    BY <1>0 DEF WonFrom
<1>3. PICK x \in D : \A y \in D : x <= y
    BY <1>1, <1>2, Least
<1>4. x \in Names(b) /\ x >= i
    BY DEF WonFrom
<1>5. \A h \in Names(b) : h < x => (h \in V <=> h \in W)
    <2> SUFFICES ASSUME NEW h \in Names(b), h < x, ~(h \in V <=> h \in W) PROVE FALSE
        OBVIOUS
    <2>1. h \in D /\ h \in Nat /\ x \in Nat
        BY <1>0, <1>4
    <2>2. x <= h
        BY <1>3, <2>1
    <2> QED BY <2>1, <2>2
<1>6. (\A h \in V : h < x => h + Reach(b, h) <= x) <=> (\A h \in W : h < x => h + Reach(b, h) <= x)
    BY <1>2, <1>5
<1>7. x \in V <=> x \in W
    BY <1>4, <1>6 DEF WonFrom
<1> QED BY <1>7

\* From a position on: the winners from the next one on, or from the end of its run.
LEMMA WinnersStep ==
    ASSUME NEW b \in Book, NEW i \in Nat, NEW W
    PROVE  /\ i > Len(b.text) => WonFrom(b, i, {})
           /\ i \notin Names(b) /\ WonFrom(b, i + 1, W) => WonFrom(b, i, W)
           /\ i \in Names(b) /\ WonFrom(b, i + Reach(b, i), W) => WonFrom(b, i, W \cup {i})
<1>0. /\ Len(b.text) \in Nat
      /\ \A x \in Names(b) : x \in 1 .. Len(b.text) /\ Reach(b, x) \in 1 .. Len(b.text) - x + 1
    BY ReachRange
<1>1. \A x \in Names(b) : x \in Nat /\ Reach(b, x) \in Nat \ {0} /\ x <= Len(b.text)
    BY <1>0
<1>2. ASSUME i > Len(b.text) PROVE WonFrom(b, i, {})
    BY <1>0, <1>1, <1>2 DEF WonFrom
<1>3. ASSUME i \notin Names(b), WonFrom(b, i + 1, W) PROVE WonFrom(b, i, W)
    <2>1. \A x \in Names(b) : x >= i <=> x >= i + 1
        BY <1>1, <1>3
    <2> QED BY <1>3, <2>1 DEF WonFrom
<1>4. ASSUME i \in Names(b), WonFrom(b, i + Reach(b, i), W) PROVE WonFrom(b, i, W \cup {i})
    <2> DEFINE n == Reach(b, i)
               U == W \cup {i}
    <2>1. n \in Nat \ {0}
        BY <1>1, <1>4
    <2>2. W \subseteq {x \in Names(b) : x >= i + n}
        BY <1>4 DEF WonFrom
    <2>3. U \subseteq {x \in Names(b) : x >= i}
        BY <1>1, <1>4, <2>1, <2>2
    <2>4. ASSUME NEW x \in Names(b), x >= i
          PROVE  x \in U <=> \A h \in U : h < x => h + Reach(b, h) <= x
        <3>0. x \in Nat
            BY <1>1
        <3>1. CASE x = i
            <4>1. \A h \in U : h \in Nat /\ h >= i
                BY <1>1, <2>3
            <4>2. \A h \in U : ~(h < x)
                BY <3>1, <4>1
            <4> QED BY <3>1, <4>2
        <3>2. CASE x > i /\ x < i + n
            <4>1. x \notin U
                BY <2>1, <2>2, <3>0, <3>2
            <4>2. i \in U /\ i < x /\ ~(i + Reach(b, i) <= x)
                BY <2>1, <3>0, <3>2
            <4> QED BY <4>1, <4>2
        <3>3. CASE x >= i + n
            <4>1. x \in W <=> \A h \in W : h < x => h + Reach(b, h) <= x
                BY <1>4, <3>3 DEF WonFrom
            <4>2. x # i
                BY <2>1, <3>0, <3>3
            <4>3. i < x => i + Reach(b, i) <= x
                BY <3>3
            <4> QED BY <4>1, <4>2, <4>3
        <3> QED BY <2>1, <2>4, <3>0, <3>1, <3>2, <3>3
    <2> QED BY <2>3, <2>4 DEF WonFrom
<1> QED BY <1>2, <1>3, <1>4

\* The positions from the last one down to the first.
LEMMA Downwards ==
    ASSUME NEW n \in Nat, NEW S, n + 1 \in S,
           \A i \in 1 .. n : (\A k \in i + 1 .. n + 1 : k \in S) => i \in S
    PROVE  1 .. n + 1 \subseteq S
<1> DEFINE T == {d \in Nat : \A k \in 1 .. n + 1 : k >= n + 1 - d => k \in S}
<1>1. 0 \in T
    OBVIOUS
<1>2. ASSUME NEW d \in Nat, d \in T
      PROVE  d + 1 \in T
    <2> SUFFICES ASSUME NEW k \in 1 .. n + 1, k >= n + 1 - (d + 1) PROVE k \in S
        OBVIOUS
    <2>1. CASE k >= n + 1 - d
        BY <1>2, <2>1
    <2>2. CASE ~(k >= n + 1 - d)
        <3>1. k = n - d /\ k \in 1 .. n
            BY <2>2
        <3>2. \A j \in k + 1 .. n + 1 : j \in S
            BY <1>2, <3>1
        <3> QED BY <3>1, <3>2
    <2> QED BY <2>1, <2>2
<1>3. Nat \subseteq T
    <2> HIDE DEF T
    <2> QED BY <1>1, <1>2, SetInduction
<1>4. n \in T
    BY <1>3
<1> QED BY <1>4

\* From every position on there are winners.
LEMMA WinnersExist ==
    ASSUME NEW b \in Book
    PROVE  \A i \in 1 .. Len(b.text) + 1 : \E W : WonFrom(b, i, W)
<1> DEFINE n == Len(b.text)
           S == {i \in 1 .. n + 1 : \E W : WonFrom(b, i, W)}
<1>1. /\ n \in Nat
      /\ \A i \in Names(b) : i \in 1 .. n /\ Reach(b, i) \in 1 .. n - i + 1
    BY ReachRange
<1>2. n + 1 \in S
    <2>1. n + 1 > n /\ n + 1 \in 1 .. n + 1
        BY <1>1
    <2>2. WonFrom(b, n + 1, {})
        <3>1. n + 1 \in Nat
            BY <1>1
        <3> QED BY <2>1, <3>1, WinnersStep
    <2> QED BY <2>1, <2>2
<1>3. ASSUME NEW i \in 1 .. n, \A k \in i + 1 .. n + 1 : k \in S
      PROVE  i \in S
    <2>0. i \in Nat
        BY <1>1
    <2>1. CASE i \notin Names(b)
        <3>1. i + 1 \in S
            BY <1>1, <1>3
        <3>2. PICK W : WonFrom(b, i + 1, W)
            BY <3>1
        <3>3. WonFrom(b, i, W)
            BY <2>0, <2>1, <3>2, WinnersStep
        <3> QED BY <1>1, <3>3
    <2>2. CASE i \in Names(b)
        <3>1. i + Reach(b, i) \in S
            BY <1>1, <1>3, <2>2
        <3>2. PICK W : WonFrom(b, i + Reach(b, i), W)
            BY <3>1
        <3>3. WonFrom(b, i, W \cup {i})
            BY <2>0, <2>2, <3>2, WinnersStep
        <3> QED BY <1>1, <3>3
    <2> QED BY <2>1, <2>2
<1>4. 1 .. n + 1 \subseteq S
    <2> HIDE DEF S, n
    <2> QED BY <1>1, <1>2, <1>3, Downwards
<1> QED BY <1>4

\* What a winner adds to the scan: the bearers of its run, and whether they are several.
Hit(b, i)  == Bearers(b, i) \X {Cardinality(Bearers(b, i)) > 1}
Hits(b, W) == UNION {Hit(b, h) : h \in W}

\* One step of the scan, on what it finds further on.
ScanStep(b, f, i) ==
    IF i > Len(b.text) THEN {}
    ELSE IF Fits(b.text, i, b.cast) = {} THEN f[i + 1]
    ELSE Hit(b, i) \cup f[i + Reach(b, i)]

\* The scan finds the hits of the winners.
LEMMA ScanFinds ==
    ASSUME NEW b \in Book
    PROVE  /\ Scan(b.text, b.cast) = Hits(b, Winners(b))
           /\ Winners(b) \subseteq Names(b)
<1> DEFINE n == Len(b.text)
           w == [i \in 1 .. n + 1 |-> CHOOSE W : WonFrom(b, i, W)]
           e == [i \in 1 .. n + 1 |-> Hits(b, w[i])]
           f == CHOOSE g : g = [i \in 1 .. n + 1 |-> ScanStep(b, g, i)]
<1>1. /\ n \in Nat
      /\ \A i \in Names(b) : i \in 1 .. n /\ Reach(b, i) \in 1 .. n - i + 1
    BY ReachRange
<1>2. \A i \in 1 .. n + 1 : WonFrom(b, i, w[i])
    <2> SUFFICES ASSUME NEW i \in 1 .. n + 1 PROVE WonFrom(b, i, w[i])
        OBVIOUS
    <2>1. \E W : WonFrom(b, i, W)
        BY WinnersExist
    <2> QED BY <2>1
<1>3. Scan(b.text, b.cast) = f[1]
    BY DEF Scan, ScanStep, Hit, Bearers, Reach, Advance
<1> HIDE DEF n, w, f
<1>4. ASSUME NEW i \in 1 .. n + 1
      PROVE  /\ i > n => w[i] = {}
             /\ i <= n /\ i \notin Names(b) => w[i] = w[i + 1]
             /\ i \in Names(b) => w[i] = w[i + Reach(b, i)] \cup {i}
    <2>0. i \in Nat /\ WonFrom(b, i, w[i])
        BY <1>1, <1>2
    <2>1. ASSUME i > n PROVE w[i] = {}
        <3>1. WonFrom(b, i, {})
            BY <2>0, <2>1, WinnersStep DEF n
        <3> QED BY <2>0, <3>1, WinnersUnique
    <2>2. ASSUME i <= n, i \notin Names(b) PROVE w[i] = w[i + 1]
        <3>1. i + 1 \in 1 .. n + 1
            BY <1>1, <2>2
        <3>2. WonFrom(b, i, w[i + 1])
            BY <1>2, <2>0, <2>2, <3>1, WinnersStep
        <3> QED BY <2>0, <3>2, WinnersUnique
    <2>3. ASSUME i \in Names(b) PROVE w[i] = w[i + Reach(b, i)] \cup {i}
        <3>1. i + Reach(b, i) \in 1 .. n + 1
            BY <1>1, <2>3
        <3>2. WonFrom(b, i, w[i + Reach(b, i)] \cup {i})
            BY <1>2, <2>0, <2>3, <3>1, WinnersStep
        <3> QED BY <2>0, <3>2, WinnersUnique
    <2> QED BY <2>1, <2>2, <2>3
<1>5. \A i \in 1 .. n : i \in Names(b) <=> Fits(b.text, i, b.cast) # {}
    BY DEF Names, n
<1>6. \A V : \A x : Hits(b, V \cup {x}) = Hit(b, x) \cup Hits(b, V)
    BY DEF Hits
<1>7. ASSUME NEW i \in 1 .. n + 1
      PROVE  e[i] = ScanStep(b, e, i)
    <2>1. CASE i > n
        <3>1. w[i] = {}
            BY <1>4, <2>1
        <3>2. e[i] = {}
            BY <3>1 DEF Hits
        <3> QED BY <2>1, <3>2 DEF ScanStep, n
    <2>2. CASE i <= n /\ i \notin Names(b)
        <3>1. w[i] = w[i + 1] /\ i + 1 \in 1 .. n + 1 /\ ~(i > n) /\ i \in 1 .. n
            BY <1>1, <1>4, <2>2
        <3>2. Fits(b.text, i, b.cast) = {}
            BY <1>5, <2>2, <3>1
        <3>3. e[i] = e[i + 1]
            BY <3>1
        <3> QED BY <3>1, <3>2, <3>3 DEF ScanStep, n
    <2>3. CASE i \in Names(b)
        <3>1. /\ w[i] = w[i + Reach(b, i)] \cup {i} /\ i + Reach(b, i) \in 1 .. n + 1
              /\ ~(i > n) /\ i \in 1 .. n
            BY <1>1, <1>4, <2>3
        <3>2. Fits(b.text, i, b.cast) # {}
            BY <1>5, <2>3, <3>1
        <3>3. e[i] = Hit(b, i) \cup e[i + Reach(b, i)]
            BY <1>6, <3>1
        <3> QED BY <3>1, <3>2, <3>3 DEF ScanStep, n
    <2> QED BY <1>1, <2>1, <2>2, <2>3
<1>8. e = [i \in 1 .. n + 1 |-> ScanStep(b, e, i)]
    <2>1. e = [i \in 1 .. n + 1 |-> e[i]]
        OBVIOUS
    <2> HIDE DEF e
    <2> QED BY <1>7, <2>1
<1>9. f = [i \in 1 .. n + 1 |-> ScanStep(b, f, i)]
    <2> HIDE DEF e
    <2> QED BY <1>8 DEF f
<1>10. \A i \in 1 .. n + 1 : f[i] = ScanStep(b, f, i)
    BY <1>9
<1> DEFINE S == {i \in 1 .. n + 1 : f[i] = Hits(b, w[i])}
<1>11. n + 1 \in S
    <2>1. n + 1 > n /\ n + 1 \in 1 .. n + 1
        BY <1>1
    <2>2. w[n + 1] = {} /\ f[n + 1] = {}
        BY <1>4, <1>10, <2>1 DEF ScanStep, n
    <2> QED BY <2>1, <2>2 DEF Hits
<1>12. ASSUME NEW i \in 1 .. n, \A k \in i + 1 .. n + 1 : k \in S
       PROVE  i \in S
    <2>0. i \in 1 .. n + 1 /\ ~(i > n) /\ i <= n /\ i + 1 \in i + 1 .. n + 1
        BY <1>1
    <2>1. CASE i \notin Names(b)
        <3>1. f[i] = f[i + 1]
            BY <1>5, <1>10, <2>0, <2>1 DEF ScanStep, n
        <3>2. w[i] = w[i + 1]
            BY <1>4, <2>0, <2>1
        <3>3. i + 1 \in S
            BY <1>12, <2>0
        <3> QED BY <2>0, <3>1, <3>2, <3>3
    <2>2. CASE i \in Names(b)
        <3>1. f[i] = Hit(b, i) \cup f[i + Reach(b, i)]
            BY <1>5, <1>10, <2>0, <2>2 DEF ScanStep, n
        <3>2. w[i] = w[i + Reach(b, i)] \cup {i}
            BY <1>4, <2>0, <2>2
        <3>3. i + Reach(b, i) \in S
            <4>1. i + Reach(b, i) \in i + 1 .. n + 1
                BY <1>1, <2>2
            <4> QED BY <1>12, <4>1
        <3> QED BY <1>6, <2>0, <3>1, <3>2, <3>3
    <2> QED BY <2>1, <2>2
<1>13. 1 .. n + 1 \subseteq S
    <2> HIDE DEF S
    <2> QED BY <1>1, <1>11, <1>12, Downwards
<1>14. 1 \in 1 .. n + 1
    BY <1>1
<1>15. \A W \in SUBSET Names(b) :
         WonFrom(b, 1, W) <=> \A i \in Names(b) : i \in W <=> \A h \in W : h < i => h + Reach(b, h) <= i
    <2>1. \A i \in Names(b) : i >= 1
        BY <1>1
    <2> QED BY <2>1 DEF WonFrom
<1>16. w[1] \in SUBSET Names(b) /\ WonFrom(b, 1, w[1])
    BY <1>2, <1>14 DEF WonFrom
<1>17. Winners(b) \in SUBSET Names(b) /\ WonFrom(b, 1, Winners(b))
    BY <1>15, <1>16 DEF Winners
<1>18. Winners(b) = w[1]
    BY <1>16, <1>17, WinnersUnique
<1>19. f[1] = Hits(b, w[1])
    BY <1>13, <1>14
<1> QED BY <1>3, <1>17, <1>18, <1>19

\* So the judgement of a text is its reading: who is named beyond doubt, and who in doubt.
THEOREM JudgedRight ==
    ASSUME NEW b \in Book
    PROVE  /\ Judgement(b).settled = Sure(b) /\ Judgement(b).waiting = Unsure(b)
           /\ Sure(b) \cap Unsure(b) = {}
           /\ Sure(b) \subseteq Alive(b.cast) /\ Unsure(b) \subseteq Alive(b.cast)
<1> DEFINE Waits(d) == {c \in Characters : <<c, TRUE>> \in Scan(d.text, d.cast)}
           Settles(d) == {c \in Characters : <<c, FALSE>> \in Scan(d.text, d.cast)} \ Waits(d)
           Judged(d) == [of |-> d, waiting |-> Waits(d), settled |-> Settles(d)]
           Certain(d) == UNION {Bearers(d, i) : i \in Winners(d)}
           Doubtful(d) == UNION {Bearers(d, i) : i \in {w \in Winners(d) : Cardinality(Bearers(d, w)) > 1}}
           Read1(d) == [of |-> d, sure |-> Certain(d), unsure |-> Doubtful(d)]
<1>1. Judgement(b) = Judged(b)
    <2>1. Judgements = {Judged(d) : d \in Book}
        BY DEF Judgements, Book
    <2> HIDE DEF Waits, Settles
    <2>2. Judged(b) \in Judgements /\ \A j \in Judgements : j.of = b => j = Judged(b)
        BY <2>1
    <2>3. Judged(b).of = b
        OBVIOUS
    <2> HIDE DEF Judged
    <2> QED BY <2>2, <2>3 DEF Judgement
<1>2. Reading(b) = Read1(b)
    <2>1. Readings = {Read1(d) : d \in Book}
        BY DEF Readings, Book
    <2> HIDE DEF Certain, Doubtful
    <2>2. Read1(b) \in Readings /\ \A r \in Readings : r.of = b => r = Read1(b)
        BY <2>1
    <2>3. Read1(b).of = b
        OBVIOUS
    <2> HIDE DEF Read1
    <2> QED BY <2>2, <2>3 DEF Reading
<1>3. Scan(b.text, b.cast) = Hits(b, Winners(b))
    BY ScanFinds
<1>4. \A i : Bearers(b, i) \subseteq Alive(b.cast)
    BY DEF Bearers, Owners
<1>5. \A c : <<c, TRUE>> \in Scan(b.text, b.cast) <=>
               \E i \in Winners(b) : c \in Bearers(b, i) /\ Cardinality(Bearers(b, i)) > 1
    <2>1. \A c, i : <<c, TRUE>> \in Hit(b, i) <=> c \in Bearers(b, i) /\ Cardinality(Bearers(b, i)) > 1
        BY Zenon DEF Hit
    <2> QED BY <1>3, <2>1, Zenon DEF Hits
<1>6. \A c : <<c, FALSE>> \in Scan(b.text, b.cast) <=>
               \E i \in Winners(b) : c \in Bearers(b, i) /\ ~(Cardinality(Bearers(b, i)) > 1)
    <2>1. \A c, i : <<c, FALSE>> \in Hit(b, i) <=> c \in Bearers(b, i) /\ ~(Cardinality(Bearers(b, i)) > 1)
        <3>1. \A c, B : \A x \in BOOLEAN : <<c, FALSE>> \in B \X {x} <=> c \in B /\ ~x
            OBVIOUS
        <3>2. \A i : (Cardinality(Bearers(b, i)) > 1) \in BOOLEAN
            OBVIOUS
        <3> QED BY <3>1, <3>2, Zenon DEF Hit
    <2> QED BY <1>3, <2>1, Zenon DEF Hits
<1>7. Alive(b.cast) \subseteq Characters
    BY DEF Alive
<1>8. Waits(b) = Doubtful(b)
    BY <1>4, <1>5, <1>7
<1>9. Settles(b) = Certain(b) \ Doubtful(b)
    BY <1>4, <1>6, <1>7, <1>8
<1>10. Unsure(b) = Doubtful(b) /\ Sure(b) = Certain(b) \ Doubtful(b)
    BY <1>2 DEF Unsure, Sure
<1>11. Judgement(b).waiting = Waits(b) /\ Judgement(b).settled = Settles(b)
    BY <1>1
<1>12. Certain(b) \subseteq Alive(b.cast) /\ Doubtful(b) \subseteq Alive(b.cast)
    BY <1>4
<1> HIDE DEF Waits, Settles, Certain, Doubtful
<1> QED BY <1>8, <1>9, <1>10, <1>11, <1>12

---------------------------------------------------------------------------
(***************************************************************************)
(* What the variables range over, and what an evaluation has at hand at    *)
(* each of its steps.                                                      *)
(***************************************************************************)
Whole == [text : [Paras -> Texts \cup {NoText}], cast : Casts]
Maps  == UNION {[D -> Answers] : D \in SUBSET (Paras \X Characters)}
JobRecord ==
    [pc : {"new", "reset", "load", "states", "ask", "stamp", "roll", "write", "done", "killed"},
     tier : 0 .. 3, kind : {"job", "sweep"}, at : 0 .. MaxEdits, book : Whole \cup {NoBook},
     todo : SUBSET Paras, answers : Maps \cup {<< >>}, mentioned : SUBSET Characters]

\* What an evaluation has read of a paragraph.
Passage(r, p) == [text |-> r.book.text[p], cast |-> r.book.cast]

\* At each step: the tier, the passages it has read, and an answer for everyone in doubt.
Staged(r) ==
    /\ r.pc = "reset" => r.tier = 1
    /\ r.pc \in {"load", "states", "stamp"} => r.tier \in {1, 2}
    /\ r.pc = "ask" => r.tier = 2
    /\ r.pc = "roll" => r.tier = 3
    /\ r.pc = "write" => r.tier \in 1 .. 3
    /\ r.pc \in {"states", "ask", "stamp"} => r.book \in Whole
    /\ r.pc \in {"ask", "stamp"} => \A p \in r.todo : r.book.text[p] # NoText
    /\ r.pc = "stamp" /\ r.tier = 2 =>
         \A p \in r.todo : \A c \in Unsure(Passage(r, p)) : <<p, c>> \in DOMAIN r.answers

\* Verdicts are of characters that are there, stamps of paragraphs that are.
GraphOK ==
    /\ text \in [Paras -> Texts \cup {NoText}]
    /\ cast \in [Characters -> Identities \cup {Nobody}]
    /\ checked \in [Paras -> BOOLEAN]
    /\ rels \in [Paras -> [Characters -> 0 .. MaxCopies]]
    /\ rollup \in [Characters -> 0 .. MaxCopies]
    /\ basis \in [Paras -> Book \cup {NoBasis}]
    /\ \A p \in Paras : checked[p] => text[p] # NoText
    /\ \A p \in Paras, c \in Characters : rels[p][c] > 0 => cast[c] # Nobody
    /\ \A c \in Characters : rollup[c] > 0 => cast[c] # Nobody

\* No evaluation is of a later state than the present.
JobsOK ==
    /\ job \in [Jobs -> JobRecord]
    /\ \A j \in Jobs : Staged(job[j]) /\ job[j].at <= edits
    /\ edits \in 0 .. MaxEdits
    /\ overlap \in BOOLEAN

Typed == GraphOK /\ JobsOK

\* The verdicts are those of the text and the cast of the last stamp.
Followed ==
    \A p \in Paras : basis[p] # NoBasis =>
      /\ Sure(basis[p]) \cap Alive(cast) \subseteq Mentioned(p)
      /\ Mentioned(p) \subseteq Sure(basis[p]) \cup Unsure(basis[p])

\* The evaluations that have not met come one after the other.
Lone == \A i, j \in Jobs : Running(i) /\ Running(j) => i = j

\* The rollup is a view of the paragraphs; what is plain is evaluated.
Named(c) == \E p \in Paras : checked[p] /\ c \in Mentioned(p)
View     == \A c \in Characters : rollup[c] > 0 <=> Named(c)
AllPlain == \A p \in Paras : Plain(p) => checked[p]

\* The rollup is written at the end of each tier that has stamped.
Rolled(r) ==
    /\ r.tier = 2 /\ r.pc \in {"load", "states", "ask"} => View
    /\ r.pc = "write" => \A c \in Characters : c \in r.mentioned /\ c \in Alive(cast) <=> Named(c)

\* The first tier stamps what is plain, if nothing is edited meanwhile.
Settling(r) ==
    r.at = edits =>
      /\ r.pc \in {"states", "ask", "stamp"} => r.book = [text |-> text, cast |-> cast]
      /\ r.pc = "stamp" /\ r.tier = 1 => \A p \in Paras : Plain(p) => checked[p] \/ p \in r.todo
      /\ r.pc = "write" \/ r.tier \in {2, 3} => AllPlain

\* Between evaluations; the last is the one that may be of the present state.
AtRest == View /\ ((\E j \in Jobs : At(j, "done") /\ job[j].at = edits) => AllPlain)

\* While evaluations have not met, the one that runs began after the others ended.
Apart ==
    ~overlap =>
      /\ Lone
      /\ Quiet => AtRest
      /\ \A j \in Jobs : Running(j) =>
           /\ Rolled(job[j]) /\ Settling(job[j])
           /\ \A i \in Jobs : At(i, "done") => job[i].at <= job[j].at


\* The type invariant of the runs.
LEMMA TypesInTyped == Typed => TypeOK
<1> SUFFICES ASSUME Typed PROVE TypeOK
    OBVIOUS
<1> USE DEF Typed, GraphOK
<1>1. ASSUME NEW r \in {rels[p] : p \in Paras} \cup {rollup}
      PROVE  r \in [Characters -> 0 .. MaxCopies] /\ \A c \in Characters : r[c] > 0 => c \in Alive(cast)
    BY <1>1 DEF Alive
<1>2. \A j \in Jobs : job[j].pc \in {"new", "reset", "load", "states", "ask", "stamp", "roll",
                                     "write", "done", "killed"}
    BY DEF JobsOK, JobRecord
<1> QED BY <1>1, <1>2 DEF TypeOK

\* A step of one evaluation.
LEMMA JobStep ==
    ASSUME JobsOK, NEW j \in Jobs, NEW r \in JobRecord, Staged(r), r.at <= edits',
           edits' \in 0 .. MaxEdits, edits <= edits', overlap' \in BOOLEAN,
           job' = [job EXCEPT ![j] = r]
    PROVE  JobsOK' /\ job'[j] = r /\ \A i \in Jobs \ {j} : job'[i] = job[i]
<1>1. job'[j] = r /\ (\A i \in Jobs \ {j} : job'[i] = job[i]) /\ job' \in [Jobs -> JobRecord]
    BY DEF JobsOK
<1>2. \A i \in Jobs : Staged(job'[i])
    BY <1>1 DEF JobsOK
<1>3. \A i \in Jobs : job'[i].at <= edits'
    <2> SUFFICES ASSUME NEW i \in Jobs \ {j} PROVE job'[i].at <= edits'
        BY <1>1
    <2>1. job[i].at <= edits /\ job[i].at \in 0 .. MaxEdits /\ edits \in 0 .. MaxEdits
        BY DEF JobsOK, JobRecord
    <2>2. MaxEdits \in Nat
        BY EditsAssumption
    <2> QED BY <1>1, <2>1, <2>2
<1> QED BY <1>1, <1>2, <1>3 DEF JobsOK, Staged

\* An evaluation that has not begun.
LEMMA IdleType ==
    /\ Idle \in JobRecord /\ Staged(Idle)
<1>1. 0 \in 0 .. MaxEdits
    BY EditsAssumption
<1> QED BY <1>1 DEF Idle, JobRecord, Staged

\* A start takes an evaluation that is new; whether others run is noted.
LEMMA StartDoes ==
    ASSUME JobsOK, NEW j \in Jobs, NEW kind \in {"job", "sweep"}, NEW pc \in {"load", "reset"},
           edits' \in 0 .. MaxEdits, edits <= edits', Start(j, kind, pc)
    PROVE  /\ JobsOK'
           /\ At(j, "new") /\ job'[j].pc = pc /\ job'[j].tier = 1 /\ job'[j].at = edits'
           /\ \A i \in Jobs \ {j} : job'[i] = job[i]
           /\ overlap' = ~Quiet
<1> DEFINE r == [Idle EXCEPT !.pc = pc, !.tier = 1, !.kind = kind, !.at = edits']
<1>1. r \in JobRecord /\ r.pc = pc /\ r.tier = 1 /\ r.at = edits' /\ r.at <= edits'
    <2>1. edits' <= edits'
        BY EditsAssumption
    <2>2. Idle \in JobRecord
        BY IdleType
    <2>3. 1 \in 0 .. 3 /\ pc \in {"load", "reset"} /\ kind \in {"job", "sweep"} /\ edits' \in 0 .. MaxEdits
        OBVIOUS
    <2>4. r \in JobRecord
        BY <2>2, <2>3 DEF JobRecord
    <2>5. r.pc = pc /\ r.tier = 1 /\ r.at = edits'
        BY <2>2 DEF JobRecord
    <2> HIDE DEF r
    <2> QED BY <2>1, <2>4, <2>5
<1>2. Staged(r)
    BY <1>1 DEF Staged
<1>3. job' = [job EXCEPT ![j] = r] /\ overlap' \in BOOLEAN /\ overlap' = ~Quiet /\ job[j].pc = "new"
    BY DEF Start
<1> HIDE DEF r
<1> QED BY <1>1, <1>2, <1>3, JobStep DEF At

\* A tier is followed by the second, by the rollup or by the end.
LEMMA LeaveType ==
    ASSUME JobsOK, NEW j \in Jobs
    PROVE  /\ Leave(j) \in JobRecord /\ Staged(Leave(j))
           /\ Leave(j).at = job[j].at
           /\ job[j].tier = 1 => Leave(j).pc = "load" /\ Leave(j).tier = 2
           /\ job[j].tier # 1 => \/ Leave(j).pc = "roll" /\ Leave(j).tier = 3 /\ job[j].tier = 2
                                 \/ Leave(j).pc = "done" /\ Leave(j).tier = 0
<1> DEFINE Left(pc, tier) == [job[j] EXCEPT !.pc = pc, !.tier = tier, !.book = NoBook, !.todo = {},
                                            !.answers = << >>, !.mentioned = {}]
<1>1. job[j] \in JobRecord
    BY DEF JobsOK
<1>2. \/ Leave(j) = Left("load", 2) /\ job[j].tier = 1
      \/ Leave(j) = Left("roll", 3) /\ job[j].tier = 2
      \/ Leave(j) = Left("done", 0) /\ job[j].tier # 1
    <2> DEFINE next == CASE job[j].tier = 1 -> [pc |-> "load", tier |-> 2]
                         [] job[j].tier = 2 /\ job[j].kind = "job" -> [pc |-> "roll", tier |-> 3]
                         [] OTHER -> [pc |-> "done", tier |-> 0]
    <2>0. Leave(j) = Left(next.pc, next.tier)
        BY DEF Leave
    <2>1. CASE job[j].tier = 1
        <3>1. ~(job[j].tier = 2)
            BY <2>1
        <3>2. next = [pc |-> "load", tier |-> 2]
            BY <2>1, <3>1, Zenon
        <3> HIDE DEF next
        <3> QED BY <2>0, <2>1, <3>2
    <2>2. CASE job[j].tier = 2 /\ job[j].kind = "job"
        <3>1. ~(job[j].tier = 1)
            BY <2>2
        <3>2. next = [pc |-> "roll", tier |-> 3]
            BY <2>2, <3>1, Zenon
        <3> HIDE DEF next
        <3> QED BY <2>0, <2>2, <3>2
    <2>3. CASE job[j].tier # 1 /\ ~(job[j].tier = 2 /\ job[j].kind = "job")
        <3>1. next = [pc |-> "done", tier |-> 0]
            BY <2>3, Zenon
        <3> HIDE DEF next
        <3> QED BY <2>0, <2>3, <3>1
    <2> QED BY <2>1, <2>2, <2>3
<1>3. ASSUME NEW pc \in {"load", "roll", "done"}, NEW tier \in 0 .. 3
      PROVE  /\ Left(pc, tier) \in JobRecord /\ Left(pc, tier).pc = pc /\ Left(pc, tier).tier = tier
             /\ Left(pc, tier).at = job[j].at
    BY <1>1 DEF JobRecord
<1> HIDE DEF Left
<1>4. CASE Leave(j) = Left("load", 2) /\ job[j].tier = 1
    <2>1. Leave(j) \in JobRecord /\ Leave(j).pc = "load" /\ Leave(j).tier = 2 /\ Leave(j).at = job[j].at
        BY <1>3, <1>4
    <2> QED BY <1>4, <2>1 DEF Staged
<1>5. CASE Leave(j) = Left("roll", 3) /\ job[j].tier = 2
    <2>1. Leave(j) \in JobRecord /\ Leave(j).pc = "roll" /\ Leave(j).tier = 3 /\ Leave(j).at = job[j].at
        BY <1>3, <1>5
    <2> QED BY <1>5, <2>1 DEF Staged
<1>6. CASE Leave(j) = Left("done", 0) /\ job[j].tier # 1
    <2>1. Leave(j) \in JobRecord /\ Leave(j).pc = "done" /\ Leave(j).tier = 0 /\ Leave(j).at = job[j].at
        BY <1>3, <1>6
    <2> QED BY <1>6, <2>1 DEF Staged
<1> QED BY <1>2, <1>4, <1>5, <1>6


\* A query that replaces verdicts leaves exactly the new ones.
LEMMA ReplacedDoes ==
    ASSUME NEW old \in [Characters -> 0 .. MaxCopies], NEW new
    PROVE  /\ Replaced(old, new) \in [Characters -> 0 .. MaxCopies]
           /\ \A c \in Characters : Replaced(old, new)[c] > 0 <=> c \in new
<1>1. Rows(old) \in 1 .. MaxCopies
    BY DEF Rows, MaxCopies
<1>2. MaxCopies \in Nat
    BY DEF MaxCopies
<1> HIDE DEF MaxCopies
<1> QED BY <1>1, <1>2 DEF Replaced

\* A paragraph of the chapter with the cast is a passage one can judge.
LEMMA NowIsABook ==
    ASSUME GraphOK, NEW p \in Paras, text[p] # NoText
    PROVE  Now(p) \in Book /\ Sure(Now(p)) \subseteq Alive(cast)
<1>1. Now(p) \in Book /\ Now(p).cast = cast
    BY DEF GraphOK, Book, Casts, Now
<1>2. Sure(Now(p)) \subseteq Alive(cast)
    BY <1>1, JudgedRight
<1> QED BY <1>1, <1>2

---------------------------------------------------------------------------
(***************************************************************************)
(* What the stamp of a paragraph does.                                     *)
(***************************************************************************)
\* The verdicts are everyone the passage names beyond doubt and, after the second tier, those
\* of the others whom the model confirmed.
LEMMA VerdictsRight ==
    ASSUME Typed, NEW j \in Jobs, NEW p \in Paras, Stamp(j, p)
    PROVE  /\ Read(j, p) \in Book
           /\ Sure(Read(j, p)) \subseteq Verdicts(j, p)
           /\ Verdicts(j, p) \subseteq Sure(Read(j, p)) \cup Unsure(Read(j, p))
           /\ job[j].tier = 1 => (Final(j, p) <=> Unsure(Read(j, p)) = {})
           /\ job[j].tier # 1 => \A c \in Unsure(Read(j, p)) :
                /\ <<p, c>> \in DOMAIN job[j].answers
                /\ Final(j, p) => job[j].answers[<<p, c>>] # "none"
                /\ c \in Verdicts(j, p) <=> job[j].answers[<<p, c>>] = "yes"
           /\ Unsure(Read(j, p)) = {} => Final(j, p)
           /\ Sure(Read(j, p)) \subseteq Characters
<1> DEFINE b == Read(j, p)
<1>1. /\ job[j] \in JobRecord /\ job[j].pc = "stamp" /\ p \in job[j].todo /\ Staged(job[j])
      /\ job[j].tier \in {1, 2} /\ job[j].book \in Whole /\ job[j].book.text[p] # NoText
    <2>1. job[j] \in JobRecord /\ Staged(job[j]) /\ job[j].pc = "stamp" /\ p \in job[j].todo
        BY DEF Typed, JobsOK, Stamp, At
    <2> QED BY <2>1 DEF Staged
<1>2. b \in Book
    BY <1>1 DEF Read, Book, Whole
<1>3. /\ SettledIn(j, p) = Sure(b) /\ WaitingIn(j, p) = Unsure(b)
      /\ Sure(b) \cap Unsure(b) = {} /\ Sure(b) \subseteq Characters
    <2>1. Sure(b) \subseteq Alive(b.cast) /\ Alive(b.cast) \subseteq Characters
        <3> HIDE DEF b
        <3> QED BY <1>2, JudgedRight DEF Alive
    <2>2. /\ Judgement(b).settled = Sure(b) /\ Judgement(b).waiting = Unsure(b)
          /\ Sure(b) \cap Unsure(b) = {}
        <3> HIDE DEF b
        <3> QED BY <1>2, JudgedRight
    <2> QED BY <2>1, <2>2 DEF SettledIn, WaitingIn
<1>4. job[j].tier # 1 => \A c \in Unsure(b) : <<p, c>> \in DOMAIN job[j].answers
    BY <1>1 DEF Staged, Passage, Read
<1>5. Verdicts(j, p) = IF job[j].tier = 1 THEN Sure(b)
                       ELSE Sure(b) \cup {c \in Unsure(b) : job[j].answers[<<p, c>>] = "yes"}
    BY <1>3, Zenon DEF Verdicts
<1>6. Final(j, p) <=> IF job[j].tier = 1 THEN Unsure(b) = {}
                      ELSE \A c \in Unsure(b) : job[j].answers[<<p, c>>] # "none"
    BY <1>3, Zenon DEF Final, Unresolved
<1> HIDE DEF b
<1>7. Sure(b) \subseteq Verdicts(j, p) /\ Verdicts(j, p) \subseteq Sure(b) \cup Unsure(b)
    BY <1>5
<1>8. job[j].tier # 1 => \A c \in Unsure(b) :
         /\ Final(j, p) => job[j].answers[<<p, c>>] # "none"
         /\ c \in Verdicts(j, p) <=> job[j].answers[<<p, c>>] = "yes"
    BY <1>3, <1>5, <1>6
<1>9. /\ job[j].tier = 1 => (Final(j, p) <=> Unsure(b) = {})
      /\ Unsure(b) = {} => Final(j, p)
    BY <1>6
<1> QED BY <1>2, <1>3, <1>4, <1>7, <1>8, <1>9 DEF b

\* What was in a variable's slot before and is there now.
LEMMA StampDoes ==
    ASSUME Typed, NEW j \in Jobs, NEW p \in Paras, Stamp(j, p)
    PROVE  /\ GraphOK' /\ JobsOK'
           /\ At(j, "stamp") /\ p \in job[j].todo
           /\ UNCHANGED <<text, cast, rollup, edits, overlap>>
           /\ job'[j] = [job[j] EXCEPT !.todo = @ \ {p}]
           /\ \A i \in Jobs \ {j} : job'[i] = job[i]
           /\ \A q \in Paras \ {p} : checked'[q] = checked[q] /\ rels'[q] = rels[q] /\ basis'[q] = basis[q]
           /\ \/ checked'[p] = checked[p] /\ rels'[p] = rels[p] /\ basis'[p] = basis[p]
                 /\ (text[p] = NoText \/ (Verdicts(j, p) = {} /\ ~Final(j, p)))
              \/ /\ text[p] # NoText
                 /\ basis'[p] = Read(j, p)
                 /\ \A c \in Characters : rels'[p][c] > 0 <=> c \in Verdicts(j, p) \cap Alive(cast)
                 /\ checked'[p] = IF Verdicts(j, p) \cap Alive(cast) = {} THEN checked[p] ELSE Final(j, p)
<1> DEFINE r == [job[j] EXCEPT !.todo = @ \ {p}]
           new == Verdicts(j, p) \cap Alive(cast)
<1>1. /\ At(j, "stamp") /\ p \in job[j].todo
      /\ UNCHANGED <<text, cast, rollup, edits, overlap>>
      /\ job' = [job EXCEPT ![j].todo = @ \ {p}]
    BY DEF Stamp
<1>2. job[j] \in JobRecord /\ Staged(job[j]) /\ job \in [Jobs -> JobRecord] /\ job[j].at <= edits
    BY DEF Typed, JobsOK
<1>3. r \in JobRecord /\ Staged(r) /\ r.at = job[j].at
    <2>1. /\ r.pc = job[j].pc /\ r.tier = job[j].tier /\ r.book = job[j].book /\ r.at = job[j].at
          /\ r.answers = job[j].answers /\ r.todo = job[j].todo \ {p} /\ r \in JobRecord
        BY <1>2 DEF JobRecord
    <2> HIDE DEF r
    <2> QED BY <1>2, <2>1 DEF Staged, Passage
<1>4. job' = [job EXCEPT ![j] = r]
    BY <1>1, <1>2
<1>5. JobsOK' /\ job'[j] = r /\ \A i \in Jobs \ {j} : job'[i] = job[i]
    <2>1. JobsOK /\ r.at <= edits' /\ edits' \in 0 .. MaxEdits /\ edits <= edits' /\ overlap' \in BOOLEAN
        BY <1>1, <1>2, <1>3 DEF Typed, JobsOK
    <2> HIDE DEF r
    <2> QED BY <1>3, <1>4, <2>1, JobStep
<1>6. /\ checked \in [Paras -> BOOLEAN] /\ rels \in [Paras -> [Characters -> 0 .. MaxCopies]]
      /\ basis \in [Paras -> Book \cup {NoBasis}]
    BY DEF Typed, GraphOK
<1>7. CASE text[p] = NoText \/ (Verdicts(j, p) = {} /\ ~Final(j, p))
    <2>1. UNCHANGED <<checked, rels, basis>>
        BY <1>7 DEF Stamp
    <2>2. GraphOK'
        BY <1>1, <2>1 DEF Typed, GraphOK
    <2> HIDE DEF r, new
    <2> QED BY <1>1, <1>5, <1>7, <2>1, <2>2 DEF r
<1>8. CASE ~(text[p] = NoText \/ (Verdicts(j, p) = {} /\ ~Final(j, p)))
    <2>1. /\ rels' = [rels EXCEPT ![p] = Replaced(@, new)]
          /\ checked' = [checked EXCEPT ![p] = IF new = {} THEN @ ELSE Final(j, p)]
          /\ basis' = [basis EXCEPT ![p] = Read(j, p)]
        BY <1>8 DEF Stamp, Target
    <2>2. /\ Replaced(rels[p], new) \in [Characters -> 0 .. MaxCopies]
          /\ \A c \in Characters : Replaced(rels[p], new)[c] > 0 <=> c \in new
        BY <1>6, ReplacedDoes
    <2>3. Read(j, p) \in Book
        BY VerdictsRight
    <2>4. Final(j, p) \in BOOLEAN
        BY DEF Final
    <2>5. /\ rels' \in [Paras -> [Characters -> 0 .. MaxCopies]] /\ rels'[p] = Replaced(rels[p], new)
          /\ \A q \in Paras \ {p} : rels'[q] = rels[q]
        BY <1>6, <2>1, <2>2
    <2>6. /\ basis' \in [Paras -> Book \cup {NoBasis}] /\ basis'[p] = Read(j, p)
          /\ \A q \in Paras \ {p} : basis'[q] = basis[q]
        BY <1>6, <2>1, <2>3
    <2>7. /\ checked' \in [Paras -> BOOLEAN] /\ checked'[p] = IF new = {} THEN checked[p] ELSE Final(j, p)
          /\ \A q \in Paras \ {p} : checked'[q] = checked[q]
        <3> DEFINE value == IF new = {} THEN checked[p] ELSE Final(j, p)
        <3>1. value \in BOOLEAN
            BY <1>6, <2>4, Zenon
        <3>2. checked' = [checked EXCEPT ![p] = value]
            BY <2>1, Zenon
        <3> HIDE DEF value, new
        <3>3. checked' \in [Paras -> BOOLEAN]
            BY <1>6, <3>1, <3>2
        <3>4. checked'[p] = value /\ \A q \in Paras \ {p} : checked'[q] = checked[q]
            BY <1>6, <3>2, Zenon
        <3> QED BY <3>3, <3>4, Zenon DEF value
    <2>8. GraphOK'
        <3>1. \A q \in Paras : checked'[q] => text'[q] # NoText
            BY <1>1, <1>8, <2>7 DEF Typed, GraphOK
        <3>2. \A q \in Paras, c \in Characters : rels'[q][c] > 0 => cast'[c] # Nobody
            <4> SUFFICES ASSUME NEW q \in Paras, NEW c \in Characters, rels'[q][c] > 0
                         PROVE  cast'[c] # Nobody
                OBVIOUS
            <4>1. CASE q = p
                <5>1. c \in new
                    BY <2>2, <2>5, <4>1
                <5> QED BY <1>1, <5>1 DEF Alive
            <4>2. CASE q # p
                <5>1. rels[q][c] > 0
                    BY <2>5, <4>2
                <5> QED BY <1>1, <5>1 DEF Typed, GraphOK
            <4> QED BY <4>1, <4>2
        <3>3. /\ text' = text /\ cast' = cast /\ rollup' = rollup
              /\ text \in [Paras -> Texts \cup {NoText}] /\ cast \in [Characters -> Identities \cup {Nobody}]
              /\ rollup \in [Characters -> 0 .. MaxCopies]
              /\ \A c \in Characters : rollup[c] > 0 => cast[c] # Nobody
            BY <1>1 DEF Typed, GraphOK
        <3> QED BY <2>5, <2>6, <2>7, <3>1, <3>2, <3>3 DEF GraphOK
    <2>9. \A c \in Characters : rels'[p][c] > 0 <=> c \in new
        BY <2>2, <2>5
    <2> HIDE DEF r, new
    <2>10. text[p] # NoText /\ job'[j] = [job[j] EXCEPT !.todo = @ \ {p}]
        BY <1>5, <1>8 DEF r
    <2>11. /\ \A c \in Characters : rels'[p][c] > 0 <=> c \in Verdicts(j, p) \cap Alive(cast)
           /\ checked'[p] = IF Verdicts(j, p) \cap Alive(cast) = {} THEN checked[p] ELSE Final(j, p)
        BY <2>7, <2>9, Zenon DEF new
    <2> QED BY <1>1, <1>5, <2>5, <2>6, <2>7, <2>8, <2>10, <2>11, Zenon
<1> QED BY <1>7, <1>8

---------------------------------------------------------------------------
(***************************************************************************)
(* What the other actions do.                                              *)
(***************************************************************************)
\* The verdicts stay as they are where the graph does.
LEMMA GraphStays ==
    ASSUME UNCHANGED Graph
    PROVE  /\ GraphOK => GraphOK'
           /\ Followed => Followed'
           /\ View => View'
           /\ AllPlain => AllPlain'
           /\ \A c : Named(c)' <=> Named(c)
<1> USE DEF Graph
<1>1. GraphOK => GraphOK'
    BY DEF GraphOK
<1>2. Followed => Followed'
    BY DEF Followed, Mentioned, Alive
<1>3. \A c : Named(c)' <=> Named(c)
    BY DEF Named, Mentioned
<1>4. View => View'
    BY <1>3 DEF View
<1>5. AllPlain => AllPlain'
    BY DEF AllPlain, Plain, Now
<1> QED BY <1>1, <1>2, <1>3, <1>4, <1>5

\* A save of the chapter.
LEMMA SaveTextDoes ==
    ASSUME Typed, NEW p \in Paras, NEW t \in Texts \cup {NoText}, SaveText(p, t)
    PROVE  /\ GraphOK' /\ JobsOK' /\ (Followed => Followed')
           /\ edits' = edits + 1 /\ cast' = cast /\ rollup' = rollup
           /\ \/ \E j \in Jobs : /\ \A i \in Jobs \ {j} : job'[i] = job[i]
                                 /\ job'[j].pc = "load" /\ job'[j].tier = 1 /\ job'[j].at = edits'
                                 /\ At(j, "new") /\ overlap' = ~Quiet
              \/ job' = job /\ overlap' = (overlap \/ t = NoText)
           /\ t # NoText => checked' = checked /\ rels' = rels
<1>1. /\ edits' = edits + 1 /\ edits < MaxEdits /\ text' = [text EXCEPT ![p] = t]
      /\ cast' = cast /\ rollup' = rollup
      /\ IF t = NoText THEN /\ checked' = [checked EXCEPT ![p] = FALSE]
                            /\ rels'    = [rels EXCEPT ![p] = NoMentions]
                            /\ basis'   = [basis EXCEPT ![p] = NoBasis]
                       ELSE UNCHANGED <<checked, rels, basis>>
      /\ \/ \E j \in Jobs : Start(j, "job", "load")
         \/ overlap' = (overlap \/ t = NoText) /\ UNCHANGED job
    <2>1. \/ \E j \in Jobs : Start(j, "job", "load")
          \/ overlap' = (overlap \/ t = NoText) /\ UNCHANGED job
        BY DEF SaveText
    <2> QED BY <2>1 DEF SaveText, Edited
<1>2. JobsOK /\ GraphOK
    BY DEF Typed
<1>3. edits' \in 0 .. MaxEdits /\ edits <= edits' /\ edits \in Nat
    <2>1. edits \in 0 .. MaxEdits /\ MaxEdits \in Nat
        BY <1>2, EditsAssumption DEF JobsOK
    <2> QED BY <1>1, <2>1
<1>4. /\ text' \in [Paras -> Texts \cup {NoText}] /\ text'[p] = t
      /\ \A q \in Paras \ {p} : text'[q] = text[q]
    BY <1>1, <1>2 DEF GraphOK
<1>5. ASSUME t = NoText
      PROVE GraphOK' /\ (Followed => Followed') /\ (t # NoText => checked' = checked /\ rels' = rels)
    <2>1. /\ checked' \in [Paras -> BOOLEAN] /\ ~checked'[p]
          /\ \A q \in Paras \ {p} : checked'[q] = checked[q]
        BY <1>1, <1>2, <1>5 DEF GraphOK
    <2>2. NoMentions \in [Characters -> 0 .. MaxCopies] /\ \A c \in Characters : ~(NoMentions[c] > 0)
        BY DEF NoMentions, MaxCopies
    <2>3. /\ rels' \in [Paras -> [Characters -> 0 .. MaxCopies]] /\ rels'[p] = NoMentions
          /\ \A q \in Paras \ {p} : rels'[q] = rels[q]
        BY <1>1, <1>2, <1>5, <2>2 DEF GraphOK
    <2>4. /\ basis' \in [Paras -> Book \cup {NoBasis}] /\ basis'[p] = NoBasis
          /\ \A q \in Paras \ {p} : basis'[q] = basis[q]
        BY <1>1, <1>2, <1>5 DEF GraphOK
    <2>5. \A q \in Paras : checked'[q] => text'[q] # NoText
        BY <1>2, <1>4, <2>1 DEF GraphOK
    <2>6. \A q \in Paras, c \in Characters : rels'[q][c] > 0 => cast'[c] # Nobody
        <3> SUFFICES ASSUME NEW q \in Paras, NEW c \in Characters, rels'[q][c] > 0
                     PROVE  cast'[c] # Nobody
            OBVIOUS
        <3>1. q # p
            BY <2>2, <2>3
        <3> QED BY <1>1, <1>2, <2>3, <3>1 DEF GraphOK
    <2>7. GraphOK'
        BY <1>1, <1>2, <1>4, <2>1, <2>3, <2>4, <2>5, <2>6 DEF GraphOK
    <2>8. Followed => Followed'
        BY <1>1, <2>3, <2>4 DEF Followed, Mentioned, Alive
    <2> QED BY <1>5, <2>7, <2>8
<1>6. ASSUME t # NoText
      PROVE GraphOK' /\ (Followed => Followed') /\ (t # NoText => checked' = checked /\ rels' = rels)
    <2>1. checked' = checked /\ rels' = rels /\ basis' = basis
        BY <1>1, <1>6
    <2>2. GraphOK'
        <3>1. \A q \in Paras : checked'[q] => text'[q] # NoText
            BY <1>2, <1>4, <1>6, <2>1 DEF GraphOK
        <3> QED BY <1>1, <1>2, <1>4, <2>1, <3>1 DEF GraphOK
    <2>3. Followed => Followed'
        BY <1>1, <2>1 DEF Followed, Mentioned, Alive
    <2> QED BY <2>1, <2>2, <2>3
<1>7. ASSUME NEW j \in Jobs, Start(j, "job", "load")
      PROVE  /\ JobsOK'
             /\ \A i \in Jobs \ {j} : job'[i] = job[i]
             /\ job'[j].pc = "load" /\ job'[j].tier = 1 /\ job'[j].at = edits'
             /\ At(j, "new") /\ overlap' = ~Quiet
    BY <1>2, <1>3, <1>7, StartDoes
<1>8. ASSUME overlap' = (overlap \/ t = NoText), job' = job PROVE JobsOK'
    <2>1. overlap' \in BOOLEAN
        BY <1>8
    <2>2. \A j \in Jobs : job[j].at <= edits'
        <3> SUFFICES ASSUME NEW j \in Jobs PROVE job[j].at <= edits'
            OBVIOUS
        <3>1. job[j].at \in 0 .. MaxEdits /\ job[j].at <= edits /\ MaxEdits \in Nat
            BY <1>2, EditsAssumption DEF JobsOK, JobRecord
        <3> QED BY <1>1, <1>3, <3>1
    <2> QED BY <1>2, <1>3, <1>8, <2>1, <2>2 DEF JobsOK, Staged
<1>9. GraphOK' /\ (Followed => Followed') /\ (t # NoText => checked' = checked /\ rels' = rels)
    BY <1>5, <1>6
<1>10. CASE \E j \in Jobs : Start(j, "job", "load")
    BY <1>1, <1>7, <1>9, <1>10
<1>11. CASE overlap' = (overlap \/ t = NoText) /\ UNCHANGED job
    BY <1>1, <1>8, <1>9, <1>11
<1> QED BY <1>1, <1>10, <1>11

\* An edit leaves the evaluations where they are.
LEMMA EditType ==
    ASSUME JobsOK, edits < MaxEdits, edits' = edits + 1, job' = job, overlap' = overlap
    PROVE  JobsOK'
<1>1. MaxEdits \in Nat /\ edits \in 0 .. MaxEdits
    BY EditsAssumption DEF JobsOK
<1>2. \A j \in Jobs : job[j].at <= edits'
    <2> SUFFICES ASSUME NEW j \in Jobs PROVE job[j].at <= edits'
        OBVIOUS
    <2>1. job[j].at \in 0 .. MaxEdits /\ job[j].at <= edits
        BY DEF JobsOK, JobRecord
    <2> QED BY <1>1, <2>1
<1>3. edits' \in 0 .. MaxEdits
    BY <1>1
<1> QED BY <1>2, <1>3 DEF JobsOK, Staged

\* A save of a character's names keeps the cast's members.
LEMMA SaveNamesDoes ==
    ASSUME Typed, NEW c \in Characters, NEW who \in Identities \cup {Nobody}, SaveNames(c, who)
    PROVE  /\ GraphOK' /\ JobsOK' /\ (Followed => Followed')
           /\ edits' = edits + 1 /\ Alive(cast)' = Alive(cast)
           /\ UNCHANGED <<text, checked, rels, rollup, job, overlap>>
<1>1. /\ edits' = edits + 1 /\ edits < MaxEdits /\ cast' = [cast EXCEPT ![c] = who]
      /\ who # Nobody /\ cast[c] # Nobody
      /\ UNCHANGED <<text, checked, rels, rollup, job, basis, overlap>>
    BY DEF SaveNames, Edited
<1>2. JobsOK'
    BY <1>1, EditType DEF Typed
<1>3. /\ cast' \in [Characters -> Identities \cup {Nobody}]
      /\ \A d \in Characters : cast'[d] # Nobody <=> cast[d] # Nobody
    BY <1>1 DEF Typed, GraphOK
<1>4. Alive(cast)' = Alive(cast)
    BY <1>3 DEF Alive
<1>5. GraphOK'
    BY <1>1, <1>3 DEF Typed, GraphOK
<1>6. Followed => Followed'
    BY <1>1, <1>4 DEF Followed, Mentioned
<1> QED BY <1>1, <1>2, <1>4, <1>5, <1>6

\* A deletion takes the character's verdicts along.
LEMMA DeleteCharacterDoes ==
    ASSUME Typed, NEW c \in Characters, DeleteCharacter(c)
    PROVE  /\ GraphOK' /\ JobsOK' /\ (Followed => Followed')
           /\ edits' = edits + 1 /\ Alive(cast)' = Alive(cast) \ {c}
           /\ \A p \in Paras : Mentioned(p)' = Mentioned(p) \ {c}
           /\ ~(rollup'[c] > 0) /\ \A d \in Characters \ {c} : rollup'[d] = rollup[d]
           /\ UNCHANGED <<text, checked, job, overlap>>
<1>1. /\ edits' = edits + 1 /\ edits < MaxEdits /\ cast' = [cast EXCEPT ![c] = Nobody]
      /\ rels' = [p \in Paras |-> [rels[p] EXCEPT ![c] = 0]] /\ rollup' = [rollup EXCEPT ![c] = 0]
      /\ UNCHANGED <<text, checked, job, basis, overlap>>
    BY DEF DeleteCharacter, Edited
<1>2. JobsOK'
    BY <1>1, EditType DEF Typed
<1>3. 0 \in 0 .. MaxCopies
    BY DEF MaxCopies
<1>4. /\ cast' \in [Characters -> Identities \cup {Nobody}] /\ cast'[c] = Nobody
      /\ \A d \in Characters \ {c} : cast'[d] = cast[d]
    BY <1>1 DEF Typed, GraphOK
<1>5. /\ rollup' \in [Characters -> 0 .. MaxCopies] /\ rollup'[c] = 0
      /\ \A d \in Characters \ {c} : rollup'[d] = rollup[d]
    BY <1>1, <1>3 DEF Typed, GraphOK
<1>6. ASSUME NEW p \in Paras
      PROVE  /\ rels'[p] \in [Characters -> 0 .. MaxCopies] /\ rels'[p][c] = 0
             /\ \A d \in Characters \ {c} : rels'[p][d] = rels[p][d]
    <2>1. rels'[p] = [rels[p] EXCEPT ![c] = 0] /\ rels[p] \in [Characters -> 0 .. MaxCopies]
        BY <1>1 DEF Typed, GraphOK
    <2> QED BY <1>3, <2>1
<1>7. rels' \in [Paras -> [Characters -> 0 .. MaxCopies]]
    <2>1. rels' = [p \in Paras |-> rels'[p]]
        BY <1>1
    <2> QED BY <1>6, <2>1
<1>8. Alive(cast)' = Alive(cast) \ {c}
    BY <1>4 DEF Alive
<1>9. ~(0 > 0)
    OBVIOUS
<1>10. \A p \in Paras : Mentioned(p)' = Mentioned(p) \ {c}
    BY <1>6, <1>9 DEF Mentioned
<1>11. GraphOK'
    <2>1. \A p \in Paras, d \in Characters : rels'[p][d] > 0 => cast'[d] # Nobody
        BY <1>4, <1>6, <1>9 DEF Typed, GraphOK
    <2>2. \A d \in Characters : rollup'[d] > 0 => cast'[d] # Nobody
        BY <1>4, <1>5, <1>9 DEF Typed, GraphOK
    <2>3. /\ UNCHANGED <<text, checked, basis>> /\ text \in [Paras -> Texts \cup {NoText}]
          /\ checked \in [Paras -> BOOLEAN] /\ basis \in [Paras -> Book \cup {NoBasis}]
          /\ \A p \in Paras : checked[p] => text[p] # NoText
        BY <1>1 DEF Typed, GraphOK
    <2> QED BY <1>4, <1>5, <1>7, <2>1, <2>2, <2>3 DEF GraphOK
<1>12. Followed => Followed'
    <2> SUFFICES ASSUME Followed, NEW p \in Paras, basis[p] # NoBasis
                 PROVE  /\ Sure(basis[p]) \cap (Alive(cast) \ {c}) \subseteq Mentioned(p) \ {c}
                        /\ Mentioned(p) \ {c} \subseteq Sure(basis[p]) \cup Unsure(basis[p])
        BY <1>1, <1>8, <1>10 DEF Followed
    <2> QED BY DEF Followed
<1> QED BY <1>1, <1>2, <1>5, <1>8, <1>9, <1>10, <1>11, <1>12

\* sweep --full.
LEMMA ResetDoes ==
    ASSUME Typed, NEW j \in Jobs, Reset(j)
    PROVE  /\ GraphOK' /\ JobsOK' /\ (Followed => Followed')
           /\ At(j, "reset") /\ job'[j].pc = "load" /\ job'[j].tier = 1 /\ job'[j].at = job[j].at
           /\ \A i \in Jobs \ {j} : job'[i] = job[i]
           /\ UNCHANGED <<edits, overlap>>
<1> DEFINE r == [job[j] EXCEPT !.pc = "load"]
<1>1. /\ job[j].pc = "reset" /\ checked' = [p \in Paras |-> FALSE]
      /\ rels' = [p \in Paras |-> NoMentions] /\ basis' = [p \in Paras |-> NoBasis]
      /\ UNCHANGED <<text, cast, rollup, edits, overlap>>
      /\ job' = [job EXCEPT ![j].pc = "load"]
    BY DEF Reset, At
<1>2. job \in [Jobs -> JobRecord] /\ job[j] \in JobRecord /\ Staged(job[j]) /\ job[j].at <= edits
    BY DEF Typed, JobsOK
<1>3. /\ r \in JobRecord /\ r.pc = "load" /\ r.tier = job[j].tier /\ r.at = job[j].at
      /\ job' = [job EXCEPT ![j] = r]
    BY <1>1, <1>2 DEF JobRecord
<1>4. job[j].tier = 1
    BY <1>1, <1>2 DEF Staged
<1>5. JobsOK /\ edits \in 0 .. MaxEdits /\ edits <= edits /\ overlap \in BOOLEAN
    BY EditsAssumption DEF Typed, JobsOK
<1> HIDE DEF r
<1>6. Staged(r)
    BY <1>3, <1>4 DEF Staged
<1>7. JobsOK' /\ job'[j] = r /\ \A i \in Jobs \ {j} : job'[i] = job[i]
    BY <1>1, <1>2, <1>3, <1>5, <1>6, JobStep
<1>8. NoMentions \in [Characters -> 0 .. MaxCopies] /\ \A c \in Characters : ~(NoMentions[c] > 0)
    BY DEF NoMentions, MaxCopies
<1>9. GraphOK'
    <2>1. rels' \in [Paras -> [Characters -> 0 .. MaxCopies]]
        BY <1>1, <1>8
    <2>2. \A p \in Paras, c \in Characters : ~(rels'[p][c] > 0)
        BY <1>1, <1>8
    <2>3. checked' \in [Paras -> BOOLEAN] /\ basis' \in [Paras -> Book \cup {NoBasis}]
          /\ \A p \in Paras : ~checked'[p]
        BY <1>1
    <2>4. /\ UNCHANGED <<text, cast, rollup>> /\ text \in [Paras -> Texts \cup {NoText}]
          /\ cast \in [Characters -> Identities \cup {Nobody}] /\ rollup \in [Characters -> 0 .. MaxCopies]
          /\ \A c \in Characters : rollup[c] > 0 => cast[c] # Nobody
        BY <1>1 DEF Typed, GraphOK
    <2> QED BY <2>1, <2>2, <2>3, <2>4 DEF GraphOK
<1>10. Followed'
    BY <1>1 DEF Followed
<1> QED BY <1>1, <1>3, <1>4, <1>7, <1>9, <1>10 DEF At

---------------------------------------------------------------------------
(***************************************************************************)
(* The steps of an evaluation that leave the graph alone, or write only    *)
(* the chapter's verdicts.                                                 *)
(***************************************************************************)
\* An evaluation goes on by itself.
LEMMA JobMoves ==
    ASSUME JobsOK, NEW j \in Jobs, NEW r \in JobRecord, Staged(r), r.at = job[j].at,
           job' = [job EXCEPT ![j] = r], UNCHANGED <<edits, overlap>>
    PROVE  JobsOK' /\ job'[j] = r /\ \A i \in Jobs \ {j} : job'[i] = job[i]
<1>1. job[j].at <= edits /\ edits \in 0 .. MaxEdits /\ edits <= edits /\ overlap \in BOOLEAN
    BY EditsAssumption DEF JobsOK
<1> QED BY <1>1, JobStep

\* A load takes the text and the cast of the moment, if there is a cast.
LEMMA LoadDoes ==
    ASSUME Typed, NEW j \in Jobs, Load(j)
    PROVE  /\ JobsOK' /\ UNCHANGED Graph /\ UNCHANGED <<edits, overlap>>
           /\ At(j, "load") /\ job[j].tier \in {1, 2} /\ job'[j].at = job[j].at
           /\ \A i \in Jobs \ {j} : job'[i] = job[i]
           /\ \/ Alive(cast) = {} /\ job'[j] = Leave(j)
              \/ /\ job'[j].pc = "states" /\ job'[j].tier = job[j].tier
                 /\ job'[j].book = [text |-> text, cast |-> cast]
<1> DEFINE book == [text |-> text, cast |-> cast]
           s == [job[j] EXCEPT !.pc = "states", !.book = book]
           r == IF Alive(cast) = {} THEN Leave(j) ELSE s
<1>1. /\ job[j].pc = "load" /\ UNCHANGED Graph /\ UNCHANGED <<edits, overlap>>
      /\ job' = [job EXCEPT ![j] = IF Alive(cast) = {} THEN Leave(j)
                                   ELSE [@ EXCEPT !.pc = "states", !.book = [text |-> text, cast |-> cast]]]
    BY DEF Load, At
<1>2. /\ JobsOK /\ job \in [Jobs -> JobRecord] /\ job[j] \in JobRecord /\ Staged(job[j])
      /\ job[j].tier \in {1, 2}
    <2>1. JobsOK /\ job \in [Jobs -> JobRecord] /\ job[j] \in JobRecord /\ Staged(job[j])
        BY DEF Typed, JobsOK
    <2> QED BY <1>1, <2>1 DEF Staged
<1>3. job' = [job EXCEPT ![j] = r]
    BY <1>1, Zenon
<1>4. book \in Whole
    BY DEF Whole, Casts, Typed, GraphOK
<1>5. /\ s \in JobRecord /\ s.pc = "states" /\ s.tier = job[j].tier /\ s.at = job[j].at /\ s.book = book
    <2> HIDE DEF book
    <2> QED BY <1>2, <1>4 DEF JobRecord
<1> HIDE DEF s, book
<1>6. Staged(s)
    BY <1>2, <1>4, <1>5 DEF Staged
<1>7. Leave(j) \in JobRecord /\ Staged(Leave(j)) /\ Leave(j).at = job[j].at
    BY <1>2, LeaveType
<1>8. r \in JobRecord /\ Staged(r) /\ r.at = job[j].at
    BY <1>5, <1>6, <1>7
<1>9. (Alive(cast) = {} /\ r = Leave(j)) \/ r = s
    OBVIOUS
<1> HIDE DEF r
<1>10. JobsOK' /\ job'[j] = r /\ \A i \in Jobs \ {j} : job'[i] = job[i]
    BY <1>1, <1>2, <1>3, <1>8, JobMoves
<1> QED BY <1>1, <1>2, <1>5, <1>8, <1>9, <1>10 DEF At, book

\* The states name the paragraphs to stamp; the second tier may have to leave.
LEMMA StatesDoes ==
    ASSUME Typed, NEW j \in Jobs, States(j)
    PROVE  /\ JobsOK' /\ UNCHANGED Graph /\ UNCHANGED <<edits, overlap>>
           /\ At(j, "states") /\ job[j].tier \in {1, 2} /\ job'[j].at = job[j].at
           /\ \A i \in Jobs \ {j} : job'[i] = job[i]
           /\ \/ job[j].tier = 2 /\ job'[j] = Leave(j)
              \/ /\ job'[j].pc = (IF job[j].tier = 1 THEN "stamp" ELSE "ask")
                 /\ job'[j].tier = job[j].tier /\ job'[j].book = job[j].book
                 /\ job'[j].todo = Pending(j)
<1> DEFINE goes == IF job[j].tier = 1 THEN "stamp" ELSE "ask"
           todo == Pending(j)
           s == [job[j] EXCEPT !.pc = goes, !.todo = todo]
<1>1. job[j].pc = "states" /\ UNCHANGED Graph /\ UNCHANGED <<edits, overlap>>
    BY DEF States, At
<1>2. PICK key \in BOOLEAN, ai \in BOOLEAN :
        job' = [job EXCEPT ![j] =
                  IF job[j].tier = 2 /\ (~key \/ (~ai /\ Candidates(j, todo) # {})) THEN Leave(j)
                  ELSE [@ EXCEPT !.pc = goes, !.todo = todo]]
    BY DEF States
<1>3. /\ JobsOK /\ job \in [Jobs -> JobRecord] /\ job[j] \in JobRecord /\ Staged(job[j])
      /\ job[j].tier \in {1, 2} /\ job[j].book \in Whole
    <2>1. JobsOK /\ job \in [Jobs -> JobRecord] /\ job[j] \in JobRecord /\ Staged(job[j])
        BY DEF Typed, JobsOK
    <2> QED BY <1>1, <2>1 DEF Staged
<1>4. todo \subseteq Paras /\ \A p \in todo : job[j].book.text[p] # NoText
    BY DEF Pending
<1>5. goes \in {"stamp", "ask"} /\ (goes = "stamp" <=> job[j].tier = 1)
    BY <1>3
<1>6. /\ s \in JobRecord /\ s.pc = goes /\ s.tier = job[j].tier /\ s.at = job[j].at
      /\ s.book = job[j].book /\ s.todo = todo
    <2> HIDE DEF goes, todo
    <2> QED BY <1>3, <1>4, <1>5 DEF JobRecord
<1>7. (job' = [job EXCEPT ![j] = Leave(j)] /\ job[j].tier = 2) \/ job' = [job EXCEPT ![j] = s]
    BY <1>2, Zenon
<1>8. goes = IF job[j].tier = 1 THEN "stamp" ELSE "ask"
    OBVIOUS
<1> HIDE DEF s, goes, todo
<1>9. Staged(s)
    BY <1>3, <1>4, <1>5, <1>6 DEF Staged
<1>10. Leave(j) \in JobRecord /\ Staged(Leave(j)) /\ Leave(j).at = job[j].at
    BY <1>3, LeaveType
<1>11. CASE job' = [job EXCEPT ![j] = Leave(j)] /\ job[j].tier = 2
    <2>1. JobsOK' /\ job'[j] = Leave(j) /\ \A i \in Jobs \ {j} : job'[i] = job[i]
        BY <1>1, <1>3, <1>10, <1>11, JobMoves
    <2> QED BY <1>1, <1>3, <1>10, <1>11, <2>1 DEF At
<1>12. CASE job' = [job EXCEPT ![j] = s]
    <2>1. JobsOK' /\ job'[j] = s /\ \A i \in Jobs \ {j} : job'[i] = job[i]
        BY <1>1, <1>3, <1>6, <1>9, <1>12, JobMoves
    <2> QED BY <1>1, <1>3, <1>6, <1>8, <2>1 DEF At, todo
<1> QED BY <1>7, <1>11, <1>12

\* The answers are for everyone the passages of the evaluation leave in doubt.
LEMMA AskDoes ==
    ASSUME Typed, NEW j \in Jobs, Ask(j)
    PROVE  /\ JobsOK' /\ UNCHANGED Graph /\ UNCHANGED <<edits, overlap>>
           /\ At(j, "ask") /\ job[j].tier = 2 /\ job'[j].at = job[j].at
           /\ \A i \in Jobs \ {j} : job'[i] = job[i]
           /\ job'[j].pc = "stamp" /\ job'[j].tier = 2 /\ job'[j].book = job[j].book
<1>1. job[j].pc = "ask" /\ UNCHANGED Graph /\ UNCHANGED <<edits, overlap>>
    BY DEF Ask, At
<1>2. PICK answers \in [Candidates(j, job[j].todo) -> Answers] :
        job' = [job EXCEPT ![j].pc = "stamp", ![j].answers = answers]
    BY DEF Ask
<1> DEFINE s == [job[j] EXCEPT !.pc = "stamp", !.answers = answers]
<1>3. /\ JobsOK /\ job \in [Jobs -> JobRecord] /\ job[j] \in JobRecord /\ Staged(job[j])
      /\ job[j].tier = 2 /\ job[j].book \in Whole
      /\ \A p \in job[j].todo : job[j].book.text[p] # NoText
    <2>1. JobsOK /\ job \in [Jobs -> JobRecord] /\ job[j] \in JobRecord /\ Staged(job[j])
        BY DEF Typed, JobsOK
    <2> QED BY <1>1, <2>1 DEF Staged
<1>4. job[j].todo \subseteq Paras
    BY <1>3 DEF JobRecord
<1>5. answers \in Maps
    <2>1. Candidates(j, job[j].todo) \in SUBSET (Paras \X Characters)
        BY <1>4 DEF Candidates
    <2> QED BY <2>1 DEF Maps
<1>6. ASSUME NEW p \in job[j].todo, NEW c \in Unsure(Passage(job[j], p))
      PROVE  <<p, c>> \in DOMAIN answers
    <2>1. Passage(job[j], p) \in Book /\ Passage(job[j], p) = Read(j, p)
        BY <1>3, <1>4 DEF Passage, Read, Book, Whole
    <2>2. WaitingIn(j, p) = Unsure(Passage(job[j], p)) /\ Unsure(Passage(job[j], p)) \subseteq Alive(Passage(job[j], p).cast)
        BY <2>1, JudgedRight, Zenon DEF WaitingIn
    <2>3. c \in Characters /\ c \in WaitingIn(j, p)
        BY <1>6, <2>2 DEF Alive
    <2> QED BY <2>3 DEF Candidates
<1>7. /\ s \in JobRecord /\ s.pc = "stamp" /\ s.tier = job[j].tier /\ s.at = job[j].at
      /\ s.book = job[j].book /\ s.todo = job[j].todo /\ s.answers = answers
    BY <1>3, <1>5 DEF JobRecord
<1>8. job' = [job EXCEPT ![j] = s]
    BY <1>2, <1>3
<1> HIDE DEF s
<1>9. \A p : Passage(s, p) = Passage(job[j], p)
    BY <1>7 DEF Passage
<1>10. Staged(s)
    BY <1>3, <1>6, <1>7, <1>9 DEF Staged
<1>11. JobsOK' /\ job'[j] = s /\ \A i \in Jobs \ {j} : job'[i] = job[i]
    BY <1>1, <1>3, <1>7, <1>8, <1>10, JobMoves
<1> QED BY <1>1, <1>3, <1>7, <1>11 DEF At

\* The rollup reads who is named now.
LEMMA RollDoes ==
    ASSUME Typed, NEW j \in Jobs, Roll(j)
    PROVE  /\ JobsOK' /\ UNCHANGED Graph /\ UNCHANGED <<edits, overlap>>
           /\ \/ At(j, "roll") /\ job[j].tier = 3
              \/ At(j, "stamp") /\ job[j].tier \in {1, 2} /\ job[j].todo = {}
           /\ job'[j].at = job[j].at
           /\ \A i \in Jobs \ {j} : job'[i] = job[i]
           /\ job'[j].pc = "write" /\ job'[j].tier = job[j].tier /\ job'[j].mentioned = Valid
<1> DEFINE s == [Leave(j) EXCEPT !.pc = "write", !.tier = job[j].tier, !.mentioned = Valid]
<1>1. /\ UNCHANGED Graph /\ UNCHANGED <<edits, overlap>>
      /\ job[j].pc = "roll" \/ (job[j].pc = "stamp" /\ job[j].todo = {})
      /\ job' = [job EXCEPT ![j] = s]
    BY DEF Roll, At
<1>2. JobsOK /\ job \in [Jobs -> JobRecord] /\ job[j] \in JobRecord /\ Staged(job[j])
    BY DEF Typed, JobsOK
<1>3. \/ job[j].pc = "roll" /\ job[j].tier = 3
      \/ job[j].pc = "stamp" /\ job[j].tier \in {1, 2} /\ job[j].todo = {}
    BY <1>1, <1>2 DEF Staged
<1>4. Leave(j) \in JobRecord /\ Leave(j).at = job[j].at
    BY <1>2, LeaveType
<1>5. Valid \subseteq Characters /\ job[j].tier \in 1 .. 3
    BY <1>3 DEF Valid, Alive
<1>6. /\ s \in JobRecord /\ s.pc = "write" /\ s.tier = job[j].tier /\ s.at = job[j].at
      /\ s.mentioned = Valid
    <2> DEFINE left == Leave(j)
               tier == job[j].tier
    <2>1. left \in JobRecord /\ left.at = job[j].at /\ tier \in 0 .. 3 /\ Valid \in SUBSET Characters
        BY <1>4, <1>5
    <2>2. s = [left EXCEPT !.pc = "write", !.tier = tier, !.mentioned = Valid]
        OBVIOUS
    <2> HIDE DEF left, tier, s
    <2>3. /\ s \in JobRecord /\ s.pc = "write" /\ s.tier = tier /\ s.at = left.at
          /\ s.mentioned = Valid
        BY <2>1, <2>2 DEF JobRecord
    <2> QED BY <2>1, <2>3 DEF tier
<1> HIDE DEF s
<1>7. Staged(s)
    BY <1>5, <1>6 DEF Staged
<1>8. JobsOK' /\ job'[j] = s /\ \A i \in Jobs \ {j} : job'[i] = job[i]
    BY <1>1, <1>2, <1>6, <1>7, JobMoves
<1> QED BY <1>1, <1>3, <1>6, <1>8 DEF At

\* Its write replaces the chapter's verdicts by the names of those who are still there.
LEMMA StampChapterDoes ==
    ASSUME Typed, NEW j \in Jobs, StampChapter(j)
    PROVE  /\ GraphOK' /\ JobsOK' /\ (Followed => Followed')
           /\ UNCHANGED <<text, cast, checked, rels, edits, basis, overlap>>
           /\ At(j, "write") /\ job'[j] = Leave(j) /\ job'[j].at = job[j].at
           /\ \A i \in Jobs \ {j} : job'[i] = job[i]
           /\ \A c \in Characters : rollup'[c] > 0 <=> c \in job[j].mentioned /\ c \in Alive(cast)
<1>1. /\ job[j].pc = "write" /\ rollup' = Replaced(rollup, job[j].mentioned \cap Alive(cast))
      /\ job' = [job EXCEPT ![j] = Leave(j)]
      /\ UNCHANGED <<text, cast, checked, rels, edits, basis, overlap>>
    BY DEF StampChapter, At, Target
<1>2. JobsOK /\ rollup \in [Characters -> 0 .. MaxCopies]
    BY DEF Typed, GraphOK
<1>3. Leave(j) \in JobRecord /\ Staged(Leave(j)) /\ Leave(j).at = job[j].at
    BY <1>2, LeaveType
<1>4. JobsOK' /\ job'[j] = Leave(j) /\ \A i \in Jobs \ {j} : job'[i] = job[i]
    BY <1>1, <1>2, <1>3, JobMoves
<1>5. /\ rollup' \in [Characters -> 0 .. MaxCopies]
      /\ \A c \in Characters : rollup'[c] > 0 <=> c \in job[j].mentioned /\ c \in Alive(cast)
    BY <1>1, <1>2, ReplacedDoes
<1>6. GraphOK'
    <2>1. \A c \in Characters : rollup'[c] > 0 => cast'[c] # Nobody
        BY <1>1, <1>5 DEF Alive
    <2> QED BY <1>1, <1>5, <2>1 DEF Typed, GraphOK
<1>7. Followed => Followed'
    BY <1>1 DEF Followed, Mentioned, Alive
<1> QED BY <1>1, <1>3, <1>4, <1>5, <1>6, <1>7 DEF At

\* An evaluation that is stopped leaves what it has written.
LEMMA KillDoes ==
    ASSUME Typed, NEW j \in Jobs, Kill(j)
    PROVE  JobsOK' /\ UNCHANGED Graph /\ UNCHANGED edits /\ overlap' = TRUE
<1> DEFINE s == [Idle EXCEPT !.pc = "killed"]
<1>1. UNCHANGED Graph /\ UNCHANGED edits /\ overlap' = TRUE /\ job' = [job EXCEPT ![j] = s]
    BY DEF Kill
<1>2. s \in JobRecord /\ s.pc = "killed" /\ s.at = 0
    <2>1. 0 \in 0 .. MaxEdits
        BY EditsAssumption
    <2> QED BY <2>1 DEF Idle, JobRecord
<1> HIDE DEF s
<1>3. Staged(s)
    BY <1>2 DEF Staged
<1>4. JobsOK /\ edits' \in 0 .. MaxEdits /\ edits <= edits' /\ 0 <= edits' /\ overlap' \in BOOLEAN
    BY <1>1, EditsAssumption DEF Typed, JobsOK
<1>5. JobsOK'
    BY <1>1, <1>2, <1>3, <1>4, JobStep
<1> QED BY <1>1, <1>5

\* Verdicts after a stamp are the ones of the passage it judged.
LEMMA StampFollows ==
    ASSUME Typed, Followed, NEW j \in Jobs, NEW p \in Paras, Stamp(j, p)
    PROVE  Followed'
<1>1. /\ cast' = cast
      /\ \A q \in Paras \ {p} : rels'[q] = rels[q] /\ basis'[q] = basis[q]
      /\ \/ rels'[p] = rels[p] /\ basis'[p] = basis[p]
         \/ /\ basis'[p] = Read(j, p)
            /\ \A c \in Characters : rels'[p][c] > 0 <=> c \in Verdicts(j, p) \cap Alive(cast)
    BY StampDoes
<1>2. /\ Sure(Read(j, p)) \subseteq Verdicts(j, p)
      /\ Verdicts(j, p) \subseteq Sure(Read(j, p)) \cup Unsure(Read(j, p))
    BY VerdictsRight
<1>3. Alive(cast)' = Alive(cast) /\ Alive(cast) \subseteq Characters
    BY <1>1 DEF Alive
<1> SUFFICES ASSUME NEW q \in Paras, basis'[q] # NoBasis
             PROVE  /\ Sure(basis'[q]) \cap Alive(cast) \subseteq Mentioned(q)'
                    /\ Mentioned(q)' \subseteq Sure(basis'[q]) \cup Unsure(basis'[q])
    BY <1>3 DEF Followed
<1>4. CASE rels'[q] = rels[q] /\ basis'[q] = basis[q]
    BY <1>4 DEF Followed, Mentioned
<1>5. CASE q = p /\ basis'[p] = Read(j, p)
           /\ \A c \in Characters : rels'[p][c] > 0 <=> c \in Verdicts(j, p) \cap Alive(cast)
    <2>1. Mentioned(q)' = Verdicts(j, p) \cap Alive(cast)
        BY <1>3, <1>5 DEF Mentioned
    <2> QED BY <1>2, <1>5, <2>1
<1> QED BY <1>1, <1>4, <1>5

---------------------------------------------------------------------------
(***************************************************************************)
(* Types, and verdicts that follow the names.                              *)
(***************************************************************************)
\* The initial states have the three invariants.
LEMMA InitTyped == Init => Typed /\ Followed /\ Apart
<1> SUFFICES ASSUME Init PROVE Typed /\ Followed /\ Apart
    OBVIOUS
<1>1. \A j \in Jobs : job[j] = Idle
    BY DEF Init
<1>2. Idle \in JobRecord /\ Staged(Idle) /\ Idle.pc = "new" /\ Idle.at = 0
    BY IdleType DEF Idle
<1>3. NoMentions \in [Characters -> 0 .. MaxCopies] /\ \A c \in Characters : ~(NoMentions[c] > 0)
    BY DEF NoMentions, MaxCopies
<1>4. /\ text \in [Paras -> Texts \cup {NoText}] /\ cast \in [Characters -> Identities \cup {Nobody}]
    BY BooksAssumption DEF Init
<1>5. /\ checked \in [Paras -> BOOLEAN] /\ \A p \in Paras : ~checked[p]
      /\ rels = [p \in Paras |-> NoMentions] /\ rollup = NoMentions
      /\ basis = [p \in Paras |-> NoBasis] /\ edits = 0 /\ overlap = FALSE
      /\ job = [j \in Jobs |-> Idle]
    BY DEF Init
<1>6. GraphOK
    <2>1. rels \in [Paras -> [Characters -> 0 .. MaxCopies]]
        BY <1>3, <1>5
    <2>2. /\ \A p \in Paras, c \in Characters : ~(rels[p][c] > 0)
          /\ \A c \in Characters : ~(rollup[c] > 0)
          /\ rollup \in [Characters -> 0 .. MaxCopies] /\ basis \in [Paras -> Book \cup {NoBasis}]
        BY <1>3, <1>5
    <2> QED BY <1>4, <1>5, <2>1, <2>2 DEF GraphOK
<1>7. JobsOK
    <2>1. 0 \in 0 .. MaxEdits /\ 0 <= 0
        BY EditsAssumption
    <2> QED BY <1>1, <1>2, <1>5, <2>1 DEF JobsOK
<1>8. Followed
    BY <1>5 DEF Followed
<1>9. Apart
    <2>1. \A j \in Jobs : ~Running(j) /\ ~At(j, "done")
        BY <1>1, <1>2 DEF Running, At
    <2>2. View
        BY <1>3, <1>5 DEF View, Named
    <2> QED BY <2>1, <2>2 DEF Apart, Lone, AtRest
<1> QED BY <1>6, <1>7, <1>8, <1>9 DEF Typed

\* Every step keeps the types, and verdicts that follow the names.
LEMMA TypedStep ==
    ASSUME Typed, [Next]_vars
    PROVE  Typed' /\ (Followed => Followed')
<1>0. GraphOK /\ JobsOK
    BY DEF Typed
<1>1. ASSUME NEW e \in TextEdits, SaveText(e[1], e[2])
      PROVE  Typed' /\ (Followed => Followed')
    <2>1. e[1] \in Paras /\ e[2] \in Texts \cup {NoText}
        BY EditsAssumption
    <2>2. GraphOK' /\ JobsOK' /\ (Followed => Followed')
        <3> HIDE DEF SaveText
        <3> QED BY <1>1, <2>1, SaveTextDoes
    <2> QED BY <2>2 DEF Typed
<1>2. ASSUME NEW e \in NameEdits, SaveNames(e[1], e[2]) \/ DeleteCharacter(e[1])
      PROVE  Typed' /\ (Followed => Followed')
    <2>1. e[1] \in Characters /\ e[2] \in Identities \cup {Nobody}
        BY EditsAssumption
    <2>2. GraphOK' /\ JobsOK' /\ (Followed => Followed')
        BY <1>2, <2>1, SaveNamesDoes, DeleteCharacterDoes
    <2> QED BY <2>2 DEF Typed
<1>3. ASSUME NEW j \in Jobs, Search(j) \/ \E full \in BOOLEAN : Sweep(j, full)
      PROVE  Typed' /\ (Followed => Followed')
    <2>1. /\ UNCHANGED Graph /\ UNCHANGED edits
          /\ \E kind \in {"job", "sweep"}, pc \in {"load", "reset"} : Start(j, kind, pc)
        BY <1>3 DEF Search, Sweep
    <2>2. edits' \in 0 .. MaxEdits /\ edits <= edits'
        BY <1>0, <2>1, EditsAssumption DEF JobsOK
    <2>3. JobsOK'
        BY <1>0, <2>1, <2>2, StartDoes
    <2> QED BY <1>0, <2>1, <2>3, GraphStays DEF Typed
<1>4. ASSUME NEW j \in Jobs, Reset(j)
      PROVE  Typed' /\ (Followed => Followed')
    BY <1>4, ResetDoes DEF Typed
<1>5. ASSUME NEW j \in Jobs, Load(j) \/ States(j) \/ Ask(j) \/ Roll(j) \/ Kill(j)
      PROVE  Typed' /\ (Followed => Followed')
    <2>1. JobsOK' /\ UNCHANGED Graph
        BY <1>5, LoadDoes, StatesDoes, AskDoes, RollDoes, KillDoes
    <2> QED BY <1>0, <2>1, GraphStays DEF Typed
<1>6. ASSUME NEW j \in Jobs, StampChapter(j)
      PROVE  Typed' /\ (Followed => Followed')
    BY <1>6, StampChapterDoes DEF Typed
<1>7. ASSUME NEW j \in Jobs, NEW p \in Paras, Stamp(j, p)
      PROVE  Typed' /\ (Followed => Followed')
    <2>1. GraphOK' /\ JobsOK'
        BY <1>7, StampDoes
    <2> QED BY <1>7, <2>1, StampFollows DEF Typed
<1>8. ASSUME UNCHANGED vars
      PROVE  Typed' /\ (Followed => Followed')
    <2>1. UNCHANGED Graph /\ UNCHANGED <<job, edits, overlap>>
        BY <1>8 DEF vars, Graph
    <2>2. JobsOK'
        BY <1>0, <2>1 DEF JobsOK, Staged
    <2> QED BY <1>0, <2>1, <2>2, GraphStays DEF Typed
<1> QED BY <1>1, <1>2, <1>3, <1>4, <1>5, <1>6, <1>7, <1>8 DEF Next, Step

---------------------------------------------------------------------------
(***************************************************************************)
(* Evaluations that do not meet.                                           *)
(***************************************************************************)
\* One that starts alone makes a clean sheet of what the others did.
LEMMA StartsAlone ==
    ASSUME JobsOK', NEW j \in Jobs, \A i \in Jobs \ {j} : job'[i] = job[i],
           job'[j].pc \in {"load", "reset"}, job'[j].tier = 1, job'[j].at = edits',
           ~overlap' => Quiet
    PROVE  Apart'
<1> SUFFICES ASSUME ~overlap' PROVE Apart'
    BY DEF Apart
<1>1. \A i \in Jobs : Running(i)' <=> i = j
    BY DEF Quiet, Running
<1>2. \A i \in Jobs : job'[i].at <= edits'
    BY DEF JobsOK
<1>3. Lone' /\ ~Quiet'
    BY <1>1 DEF Lone, Quiet
<1>4. Rolled(job[j])' /\ Settling(job[j])'
    BY DEF Rolled, Settling
<1> QED BY <1>1, <1>2, <1>3, <1>4 DEF Apart, Rolled, Settling

\* One that goes on alone, or ends.
LEMMA MovesAlone ==
    ASSUME JobsOK, Apart, NEW j \in Jobs, Running(j), UNCHANGED <<edits, overlap>>,
           \A i \in Jobs \ {j} : job'[i] = job[i], job'[j].at = job[j].at,
           ~overlap => \/ Running(j)' /\ Rolled(job[j])' /\ Settling(job[j])'
                       \/ job'[j].pc = "done" /\ View' /\ (job[j].at = edits => AllPlain')
    PROVE  Apart'
<1> SUFFICES ASSUME ~overlap PROVE Apart'
    BY DEF Apart
<1>1. \A i \in Jobs \ {j} : ~Running(i) /\ ~Running(i)'
    BY DEF Apart, Lone, Running
<1>2. \A i \in Jobs \ {j} : At(i, "done")' => At(i, "done") /\ job'[i].at <= job[j].at
    BY DEF Apart, At
<1>3. Lone'
    BY <1>1 DEF Lone
<1>4. CASE Running(j)' /\ Rolled(job[j])' /\ Settling(job[j])'
    <2>1. ~Quiet'
        BY <1>4 DEF Quiet
    <2>2. ~At(j, "done")'
        BY <1>4 DEF At, Running
    <2>3. \A i \in Jobs : Running(i)' => /\ i = j
                                         /\ Rolled(job[i])' /\ Settling(job[i])'
        BY <1>1, <1>4
    <2>4. \A i \in Jobs : At(i, "done")' => job'[i].at <= job'[j].at
        BY <1>2, <2>2
    <2> QED BY <1>3, <2>1, <2>3, <2>4, Zenon DEF Apart
<1>5. CASE job'[j].pc = "done" /\ View' /\ (job[j].at = edits => AllPlain')
    <2>1. \A i \in Jobs : ~Running(i)'
        BY <1>1, <1>5 DEF Running
    <2>2. ASSUME NEW i \in Jobs, At(i, "done")', job'[i].at = edits'
          PROVE  AllPlain'
        <3>1. job[j].at \in 0 .. MaxEdits /\ job[j].at <= edits /\ edits \in 0 .. MaxEdits
            BY DEF JobsOK, JobRecord
        <3>2. job'[i].at <= job[j].at
            <4>1. CASE i = j
                BY <3>1, <4>1
            <4>2. CASE i # j
                BY <1>2, <2>2, <4>2
            <4> QED BY <4>1, <4>2
        <3>3. job[j].at = edits
            BY <2>2, <3>1, <3>2, EditsAssumption
        <3> QED BY <1>5, <3>3
    <2>3. AtRest'
        BY <1>5, <2>2 DEF AtRest
    <2> QED BY <1>3, <2>1, <2>3, Zenon DEF Apart
<1> QED BY <1>4, <1>5

\* An edit nobody answers: no evaluation is of the new state, so only the view is left to keep.
LEMMA EditsApart ==
    ASSUME JobsOK, Apart, edits' = edits + 1, job' = job,
           ~overlap' => ~overlap,
           View => View',
           \A S : (\A c \in Characters : c \in S /\ c \in Alive(cast) <=> Named(c))
                    => (\A c \in Characters : c \in S /\ c \in Alive(cast)' <=> Named(c)')
    PROVE  Apart'
<1> SUFFICES ASSUME ~overlap' PROVE Apart'
    BY DEF Apart
<1>1. ~overlap
    OBVIOUS
<1>2. \A j \in Jobs : job'[j].at # edits'
    <2> SUFFICES ASSUME NEW j \in Jobs PROVE job[j].at # edits + 1
        OBVIOUS
    <2>1. job[j].at \in 0 .. MaxEdits /\ job[j].at <= edits /\ edits \in 0 .. MaxEdits
        BY DEF JobsOK, JobRecord
    <2> QED BY <2>1, EditsAssumption
<1>3. (Lone' <=> Lone) /\ (Quiet' <=> Quiet) /\ \A j \in Jobs : Running(j)' <=> Running(j)
    BY DEF Lone, Quiet, Running
<1>4. Quiet => AtRest'
    BY <1>1, <1>2 DEF Apart, AtRest
<1>5. \A j \in Jobs : Settling(job[j])'
    BY <1>2 DEF Settling
<1>6. \A j \in Jobs : Rolled(job[j]) => Rolled(job[j])'
    BY DEF Rolled
<1>7. \A i, j \in Jobs : Running(j) /\ At(i, "done")' => job'[i].at <= job'[j].at
    BY <1>1 DEF Apart, At
<1>8. \A j \in Jobs : Running(j) => Rolled(job[j])
    BY <1>1 DEF Apart
<1> QED BY <1>1, <1>3, <1>4, <1>5, <1>6, <1>7, <1>8, Zenon DEF Apart

\* What is known of an evaluation that runs alone.
LEMMA AloneKnows ==
    ASSUME Apart, ~overlap, NEW j \in Jobs, Running(j)
    PROVE  Rolled(job[j]) /\ Settling(job[j])
BY DEF Apart

\* A save of the chapter, with its evaluation or without.
LEMMA SaveTextApart ==
    ASSUME Typed, Apart, NEW p \in Paras, NEW t \in Texts \cup {NoText}, SaveText(p, t)
    PROVE  Apart'
<1>1. /\ JobsOK /\ JobsOK' /\ edits' = edits + 1 /\ cast' = cast /\ rollup' = rollup
      /\ t # NoText => checked' = checked /\ rels' = rels
    BY SaveTextDoes DEF Typed
<1>2. \/ \E j \in Jobs : /\ \A i \in Jobs \ {j} : job'[i] = job[i]
                         /\ job'[j].pc = "load" /\ job'[j].tier = 1 /\ job'[j].at = edits'
                         /\ At(j, "new") /\ overlap' = ~Quiet
      \/ job' = job /\ overlap' = (overlap \/ t = NoText)
    BY SaveTextDoes
<1>3. ASSUME NEW j \in Jobs, \A i \in Jobs \ {j} : job'[i] = job[i],
             job'[j].pc = "load", job'[j].tier = 1, job'[j].at = edits', overlap' = ~Quiet
      PROVE  Apart'
    BY <1>1, <1>3, StartsAlone
<1>4. ASSUME job' = job, overlap' = (overlap \/ t = NoText)
      PROVE  Apart'
    <2>1. SUFFICES ASSUME ~overlap' PROVE Apart'
        BY DEF Apart
    <2>2. ~overlap /\ t # NoText
        BY <1>4, <2>1
    <2>3. \A c : Named(c)' <=> Named(c)
        BY <1>1, <2>2 DEF Named, Mentioned
    <2>4. View => View'
        BY <1>1, <2>3 DEF View
    <2>5. Alive(cast)' = Alive(cast)
        BY <1>1
    <2>6. \A S : (\A c \in Characters : c \in S /\ c \in Alive(cast) <=> Named(c))
                   => (\A c \in Characters : c \in S /\ c \in Alive(cast)' <=> Named(c)')
        BY <2>3, <2>5
    <2> QED BY <1>1, <1>4, <2>2, <2>4, <2>6, EditsApart
<1> QED BY <1>2, <1>3, <1>4

\* A save of a character's names or a deletion takes nothing from the view but the deleted.
LEMMA NamesApart ==
    ASSUME Typed, Apart, NEW c \in Characters, NEW who \in Identities \cup {Nobody},
           SaveNames(c, who) \/ DeleteCharacter(c)
    PROVE  Apart'
<1>1. JobsOK
    BY DEF Typed
<1>2. CASE SaveNames(c, who)
    <2>1. /\ edits' = edits + 1 /\ Alive(cast)' = Alive(cast)
          /\ UNCHANGED <<text, checked, rels, rollup, job, overlap>>
        BY <1>2, SaveNamesDoes
    <2>2. \A d : Named(d)' <=> Named(d)
        BY <2>1 DEF Named, Mentioned
    <2>3. View => View'
        BY <2>1, <2>2 DEF View
    <2>4. \A S : (\A d \in Characters : d \in S /\ d \in Alive(cast) <=> Named(d))
                   => (\A d \in Characters : d \in S /\ d \in Alive(cast)' <=> Named(d)')
        BY <2>1, <2>2
    <2> QED BY <1>1, <2>1, <2>3, <2>4, EditsApart
<1>3. CASE DeleteCharacter(c)
    <2>1. /\ edits' = edits + 1 /\ Alive(cast)' = Alive(cast) \ {c}
          /\ \A p \in Paras : Mentioned(p)' = Mentioned(p) \ {c}
          /\ ~(rollup'[c] > 0) /\ \A d \in Characters \ {c} : rollup'[d] = rollup[d]
          /\ UNCHANGED <<text, checked, job, overlap>>
        BY <1>3, DeleteCharacterDoes
    <2>2. \A d : Named(d)' <=> Named(d) /\ d # c
        BY <2>1 DEF Named
    <2>3. View => View'
        <3> SUFFICES ASSUME View, NEW d \in Characters PROVE rollup'[d] > 0 <=> Named(d)'
            BY DEF View
        <3>1. CASE d = c
            BY <2>1, <2>2, <3>1
        <3>2. CASE d # c
            BY <2>1, <2>2, <3>2 DEF View
        <3> QED BY <3>1, <3>2
    <2>4. \A S : (\A d \in Characters : d \in S /\ d \in Alive(cast) <=> Named(d))
                   => (\A d \in Characters : d \in S /\ d \in Alive(cast)' <=> Named(d)')
        BY <2>1, <2>2
    <2> QED BY <1>1, <2>1, <2>3, <2>4, EditsApart
<1> QED BY <1>2, <1>3

\* Without a cast there is nothing to see and nothing to stamp.
LEMMA NobodyThere ==
    ASSUME GraphOK, Alive(cast) = {}
    PROVE  View /\ AllPlain
<1>1. \A c \in Characters : cast[c] = Nobody
    BY DEF Alive
<1>2. \A c \in Characters : ~(rollup[c] > 0) /\ ~Named(c)
    BY <1>1 DEF GraphOK, Named, Mentioned
<1>3. \A p \in Paras : ~Plain(p)
    BY NowIsABook DEF Plain
<1> QED BY <1>2, <1>3 DEF View, AllPlain

\* The end of a tier, where the rollup is the view.
LEMMA LeavesApart ==
    ASSUME Typed, Apart, NEW j \in Jobs, Running(j), UNCHANGED <<edits, overlap>>,
           \A i \in Jobs \ {j} : job'[i] = job[i], job'[j] = Leave(j),
           ~overlap => View' /\ (job[j].at = edits => AllPlain')
    PROVE  Apart'
<1>1. JobsOK
    BY DEF Typed
<1>2. /\ Leave(j).at = job[j].at
      /\ \/ Leave(j).pc = "load" /\ Leave(j).tier = 2
         \/ Leave(j).pc = "roll" /\ Leave(j).tier = 3
         \/ Leave(j).pc = "done"
    BY <1>1, LeaveType
<1>3. ASSUME ~overlap
      PROVE  \/ Running(j)' /\ Rolled(job[j])' /\ Settling(job[j])'
             \/ job'[j].pc = "done" /\ View' /\ (job[j].at = edits => AllPlain')
    <2>1. View' /\ (job[j].at = edits => AllPlain') /\ edits' = edits
        BY <1>3
    <2>2. job'[j].at = job[j].at
        BY <1>2
    <2>3. CASE Leave(j).pc = "done"
        BY <2>1, <2>3
    <2>4. CASE Leave(j).pc = "load" /\ Leave(j).tier = 2
        BY <2>1, <2>2, <2>4 DEF Running, Rolled, Settling
    <2>5. CASE Leave(j).pc = "roll" /\ Leave(j).tier = 3
        BY <2>1, <2>2, <2>5 DEF Running, Rolled, Settling
    <2> QED BY <1>2, <2>3, <2>4, <2>5
<1> QED BY <1>1, <1>2, <1>3, MovesAlone

\* A load.
LEMMA LoadApart ==
    ASSUME Typed, Apart, NEW j \in Jobs, Load(j)
    PROVE  Apart'
<1>1. /\ JobsOK /\ UNCHANGED Graph /\ UNCHANGED <<edits, overlap>>
      /\ At(j, "load") /\ job[j].tier \in {1, 2} /\ job'[j].at = job[j].at
      /\ \A i \in Jobs \ {j} : job'[i] = job[i]
    BY LoadDoes DEF Typed
<1>2. \/ Alive(cast) = {} /\ job'[j] = Leave(j)
      \/ /\ job'[j].pc = "states" /\ job'[j].tier = job[j].tier
         /\ job'[j].book = [text |-> text, cast |-> cast]
    BY LoadDoes
<1>3. Running(j)
    BY <1>1 DEF At, Running
<1>4. (View => View') /\ (AllPlain => AllPlain') /\ text' = text /\ cast' = cast
    BY <1>1, GraphStays DEF Graph
<1>5. CASE Alive(cast) = {} /\ job'[j] = Leave(j)
    <2>1. View' /\ AllPlain'
        BY <1>4, <1>5, NobodyThere DEF Typed
    <2> QED BY <1>1, <1>3, <1>5, <2>1, LeavesApart
<1>6. CASE /\ job'[j].pc = "states" /\ job'[j].tier = job[j].tier
           /\ job'[j].book = [text |-> text, cast |-> cast]
    <2>1. ASSUME ~overlap PROVE Running(j)' /\ Rolled(job[j])' /\ Settling(job[j])'
        <3>1. Rolled(job[j]) /\ Settling(job[j])
            BY <1>3, <2>1, AloneKnows
        <3>2. Rolled(job[j])'
            BY <1>1, <1>4, <1>6, <3>1 DEF Rolled, At
        <3>3. Settling(job[j])'
            BY <1>1, <1>4, <1>6, <3>1 DEF Settling, At
        <3> QED BY <1>6, <3>2, <3>3 DEF Running
    <2> QED BY <1>1, <1>3, <2>1, MovesAlone
<1> QED BY <1>2, <1>5, <1>6

\* The states of the first tier cover what is plain and not evaluated.
LEMMA StatesApart ==
    ASSUME Typed, Apart, NEW j \in Jobs, States(j)
    PROVE  Apart'
<1>1. /\ JobsOK /\ UNCHANGED Graph /\ UNCHANGED <<edits, overlap>>
      /\ At(j, "states") /\ job[j].tier \in {1, 2} /\ job'[j].at = job[j].at
      /\ \A i \in Jobs \ {j} : job'[i] = job[i]
    BY StatesDoes DEF Typed
<1>2. \/ job[j].tier = 2 /\ job'[j] = Leave(j)
      \/ /\ job'[j].pc = (IF job[j].tier = 1 THEN "stamp" ELSE "ask")
         /\ job'[j].tier = job[j].tier /\ job'[j].book = job[j].book
         /\ job'[j].todo = Pending(j)
    BY StatesDoes
<1>3. Running(j)
    BY <1>1 DEF At, Running
<1>4. /\ (View => View') /\ (AllPlain => AllPlain')
      /\ text' = text /\ cast' = cast /\ checked' = checked
    BY <1>1, GraphStays DEF Graph
<1>5. ~overlap => Rolled(job[j]) /\ Settling(job[j])
    BY <1>3, AloneKnows
<1>6. CASE job[j].tier = 2 /\ job'[j] = Leave(j)
    <2>1. ~overlap => View' /\ (job[j].at = edits => AllPlain')
        BY <1>1, <1>4, <1>5, <1>6 DEF Rolled, Settling, At
    <2> QED BY <1>1, <1>3, <1>6, <2>1, LeavesApart
<1>7. CASE /\ job'[j].pc = (IF job[j].tier = 1 THEN "stamp" ELSE "ask")
           /\ job'[j].tier = job[j].tier /\ job'[j].book = job[j].book
           /\ job'[j].todo = Pending(j)
    <2>1. ASSUME ~overlap PROVE Running(j)' /\ Rolled(job[j])' /\ Settling(job[j])'
        <3>1. Rolled(job[j]) /\ Settling(job[j])
            BY <1>5, <2>1
        <3>2. CASE job[j].tier = 1
            <4>1. job'[j].pc = "stamp" /\ job'[j].tier = 1
                BY <1>7, <3>2
            <4>2. Rolled(job[j])'
                BY <4>1 DEF Rolled
            <4>3. ASSUME job[j].at = edits, NEW p \in Paras, Plain(p)
                  PROVE  checked[p] \/ p \in Pending(j)
                <5>1. job[j].book.text[p] = text[p]
                    BY <1>1, <3>1, <4>3 DEF Settling, At
                <5> QED BY <4>3, <5>1 DEF Plain, Pending, Unevaluated
            <4>4. \A p : Plain(p)' <=> Plain(p)
                BY <1>4 DEF Plain, Now
            <4>5. job[j].at = edits => job[j].book = [text |-> text, cast |-> cast]
                BY <1>1, <3>1 DEF Settling, At
            <4>6. Settling(job[j])'
                BY <1>1, <1>4, <1>7, <4>1, <4>3, <4>4, <4>5 DEF Settling
            <4> QED BY <4>1, <4>2, <4>6 DEF Running
        <3>3. CASE job[j].tier = 2
            <4>1. job'[j].pc = "ask" /\ job'[j].tier = 2
                BY <1>7, <3>3
            <4>2. Rolled(job[j])'
                BY <1>1, <1>4, <3>1, <3>3, <4>1 DEF Rolled, At
            <4>3. Settling(job[j])'
                BY <1>1, <1>4, <1>7, <3>1, <3>3, <4>1 DEF Settling, At
            <4> QED BY <4>1, <4>2, <4>3 DEF Running
        <3> QED BY <1>1, <3>2, <3>3
    <2> QED BY <1>1, <1>3, <2>1, MovesAlone
<1> QED BY <1>2, <1>6, <1>7

\* sweep --full is before both tiers.
LEMMA ResetApart ==
    ASSUME Typed, Apart, NEW j \in Jobs, Reset(j)
    PROVE  Apart'
<1>1. /\ JobsOK /\ UNCHANGED <<edits, overlap>>
      /\ At(j, "reset") /\ job'[j].pc = "load" /\ job'[j].tier = 1 /\ job'[j].at = job[j].at
      /\ \A i \in Jobs \ {j} : job'[i] = job[i]
    BY ResetDoes DEF Typed
<1>2. Running(j) /\ Running(j)'
    BY <1>1 DEF At, Running
<1>3. Rolled(job[j])' /\ Settling(job[j])'
    BY <1>1 DEF Rolled, Settling
<1> QED BY <1>1, <1>2, <1>3, MovesAlone

\* The model is asked in the second tier, when what is plain is evaluated.
LEMMA AskApart ==
    ASSUME Typed, Apart, NEW j \in Jobs, Ask(j)
    PROVE  Apart'
<1>1. /\ JobsOK /\ UNCHANGED Graph /\ UNCHANGED <<edits, overlap>>
      /\ At(j, "ask") /\ job[j].tier = 2 /\ job'[j].at = job[j].at
      /\ \A i \in Jobs \ {j} : job'[i] = job[i]
      /\ job'[j].pc = "stamp" /\ job'[j].tier = 2 /\ job'[j].book = job[j].book
    BY AskDoes DEF Typed
<1>2. Running(j) /\ Running(j)'
    BY <1>1 DEF At, Running
<1>3. (AllPlain => AllPlain') /\ text' = text /\ cast' = cast
    BY <1>1, GraphStays DEF Graph
<1>4. ASSUME ~overlap PROVE Rolled(job[j])' /\ Settling(job[j])'
    <2>1. Settling(job[j])
        BY <1>2, <1>4, AloneKnows
    <2>2. Rolled(job[j])'
        BY <1>1 DEF Rolled
    <2>3. Settling(job[j])'
        BY <1>1, <1>3, <2>1 DEF Settling, At
    <2> QED BY <2>2, <2>3
<1> QED BY <1>1, <1>2, <1>4, MovesAlone

\* Where nothing was edited since the evaluation began, the stamp of a plain paragraph takes.
LEMMA StampApart ==
    ASSUME Typed, Apart, NEW j \in Jobs, NEW p \in Paras, Stamp(j, p)
    PROVE  Apart'
<1>1. /\ JobsOK /\ GraphOK /\ UNCHANGED <<edits, overlap>> /\ text' = text /\ cast' = cast
      /\ At(j, "stamp") /\ \A i \in Jobs \ {j} : job'[i] = job[i]
      /\ \A q \in Paras \ {p} : checked'[q] = checked[q]
    BY StampDoes DEF Typed
<1>2. /\ job'[j].pc = "stamp" /\ job'[j].tier = job[j].tier /\ job'[j].at = job[j].at
      /\ job'[j].book = job[j].book /\ job'[j].todo = job[j].todo \ {p}
    <2>1. job'[j] = [job[j] EXCEPT !.todo = @ \ {p}]
        BY StampDoes
    <2>2. job[j] \in JobRecord /\ job[j].pc = "stamp"
        BY <1>1 DEF JobsOK, At
    <2> QED BY <2>1, <2>2 DEF JobRecord
<1>3. job[j].tier \in {1, 2}
    BY <1>1 DEF JobsOK, Staged, At
<1>4. Running(j) /\ Running(j)'
    BY <1>1, <1>2 DEF At, Running
<1>5. ASSUME job[j].book = [text |-> text, cast |-> cast], Plain(p) PROVE checked'[p]
    <2>1. Read(j, p) = Now(p)
        BY <1>5 DEF Read, Now
    <2>2. text[p] # NoText /\ Sure(Now(p)) # {} /\ Unsure(Now(p)) = {}
        BY <1>5 DEF Plain
    <2>3. Final(j, p) /\ Sure(Now(p)) \subseteq Verdicts(j, p)
        BY <2>1, <2>2, VerdictsRight
    <2>4. Verdicts(j, p) \cap Alive(cast) # {}
        BY <1>1, <2>2, <2>3, NowIsABook
    <2>5. ~(text[p] = NoText \/ (Verdicts(j, p) = {} /\ ~Final(j, p)))
        BY <2>2, <2>3
    <2>6. checked'[p] = IF Verdicts(j, p) \cap Alive(cast) = {} THEN checked[p] ELSE Final(j, p)
        BY <2>5, StampDoes
    <2> QED BY <2>3, <2>4, <2>6
<1>6. \A q : Plain(q)' <=> Plain(q)
    BY <1>1 DEF Plain, Now
<1>7. ASSUME ~overlap PROVE Rolled(job[j])' /\ Settling(job[j])'
    <2>1. Settling(job[j])
        BY <1>4, <1>7, AloneKnows
    <2>2. Rolled(job[j])'
        BY <1>2 DEF Rolled
    <2>3. ASSUME job[j].at = edits
          PROVE  /\ job[j].book = [text |-> text, cast |-> cast]
                 /\ job[j].tier = 1 => \A q \in Paras : Plain(q) => checked'[q] \/ q \in job[j].todo \ {p}
                 /\ job[j].tier = 2 => \A q \in Paras : Plain(q) => checked'[q]
        <3>1. job[j].book = [text |-> text, cast |-> cast]
            BY <1>1, <2>1, <2>3 DEF Settling, At
        <3>2. Plain(p) => checked'[p]
            BY <1>5, <3>1
        <3>3. ASSUME job[j].tier = 1, NEW q \in Paras, Plain(q)
              PROVE  checked'[q] \/ q \in job[j].todo \ {p}
            <4>1. checked[q] \/ q \in job[j].todo
                BY <1>1, <2>1, <2>3, <3>3 DEF Settling, At
            <4> QED BY <1>1, <3>2, <3>3, <4>1
        <3>4. ASSUME job[j].tier = 2, NEW q \in Paras, Plain(q)
              PROVE  checked'[q]
            <4>1. checked[q]
                BY <1>1, <2>1, <2>3, <3>4 DEF Settling, AllPlain, At
            <4> QED BY <1>1, <3>2, <3>4, <4>1
        <3> QED BY <3>1, <3>3, <3>4
    <2>4. Settling(job[j])'
        BY <1>1, <1>2, <1>3, <1>6, <2>3 DEF Settling, AllPlain
    <2> QED BY <2>2, <2>4
<1> QED BY <1>1, <1>2, <1>4, <1>7, MovesAlone

\* Who the rollup has read is who is named, and everyone named is there.
LEMMA RollApart ==
    ASSUME Typed, Apart, NEW j \in Jobs, Roll(j)
    PROVE  Apart'
<1>1. /\ JobsOK /\ GraphOK /\ UNCHANGED Graph /\ UNCHANGED <<edits, overlap>>
      /\ \/ At(j, "roll") /\ job[j].tier = 3
         \/ At(j, "stamp") /\ job[j].tier \in {1, 2} /\ job[j].todo = {}
      /\ job'[j].at = job[j].at
      /\ \A i \in Jobs \ {j} : job'[i] = job[i]
      /\ job'[j].pc = "write" /\ job'[j].tier = job[j].tier /\ job'[j].mentioned = Valid
    BY RollDoes DEF Typed
<1>2. Running(j) /\ Running(j)'
    BY <1>1 DEF At, Running
<1>3. (AllPlain => AllPlain') /\ (\A c : Named(c)' <=> Named(c)) /\ cast' = cast
    BY <1>1, GraphStays DEF Graph
<1>4. \A c \in Characters : c \in Valid /\ c \in Alive(cast) <=> Named(c)
    <2>1. ASSUME NEW c \in Characters, Named(c) PROVE c \in Alive(cast)
        BY <1>1, <2>1 DEF Named, Mentioned, Alive, GraphOK
    <2> QED BY <2>1 DEF Valid, Named
<1>5. ASSUME ~overlap PROVE Rolled(job[j])' /\ Settling(job[j])'
    <2>1. Settling(job[j])
        BY <1>2, <1>5, AloneKnows
    <2>2. Rolled(job[j])'
        BY <1>1, <1>3, <1>4 DEF Rolled
    <2>3. job[j].at = edits => AllPlain
        <3>1. CASE At(j, "roll") /\ job[j].tier = 3
            BY <2>1, <3>1 DEF Settling
        <3>2. CASE At(j, "stamp") /\ job[j].tier = 1 /\ job[j].todo = {}
            BY <2>1, <3>2 DEF Settling, At, AllPlain
        <3>3. CASE job[j].tier = 2
            BY <2>1, <3>3 DEF Settling
        <3> QED BY <1>1, <3>1, <3>2, <3>3
    <2>4. Settling(job[j])'
        BY <1>1, <1>3, <2>3 DEF Settling
    <2> QED BY <2>2, <2>4
<1> QED BY <1>1, <1>2, <1>5, MovesAlone

\* The write makes the rollup the view.
LEMMA StampChapterApart ==
    ASSUME Typed, Apart, NEW j \in Jobs, StampChapter(j)
    PROVE  Apart'
<1>1. /\ UNCHANGED <<text, cast, checked, rels, edits, basis, overlap>>
      /\ At(j, "write") /\ job'[j] = Leave(j)
      /\ \A i \in Jobs \ {j} : job'[i] = job[i]
      /\ \A c \in Characters : rollup'[c] > 0 <=> c \in job[j].mentioned /\ c \in Alive(cast)
    BY StampChapterDoes
<1>2. Running(j)
    BY <1>1 DEF At, Running
<1>3. \A c : Named(c)' <=> Named(c)
    BY <1>1 DEF Named, Mentioned
<1>4. AllPlain => AllPlain'
    BY <1>1 DEF AllPlain, Plain, Now
<1>5. ASSUME ~overlap PROVE View' /\ (job[j].at = edits => AllPlain')
    <2>1. Rolled(job[j]) /\ Settling(job[j])
        BY <1>2, <1>5, AloneKnows
    <2>2. View'
        BY <1>1, <1>3, <2>1 DEF View, Rolled, At
    <2>3. job[j].at = edits => AllPlain'
        BY <1>1, <1>4, <2>1 DEF Settling, At
    <2> QED BY <2>2, <2>3
<1> QED BY <1>1, <1>2, <1>5, LeavesApart

\* Every step keeps evaluations apart that have not met.
LEMMA ApartStep ==
    ASSUME Typed, Apart, [Next]_vars
    PROVE  Apart'
<1>0. GraphOK /\ JobsOK /\ JobsOK'
    BY TypedStep DEF Typed
<1>1. ASSUME NEW e \in TextEdits, SaveText(e[1], e[2]) PROVE Apart'
    <2>1. e[1] \in Paras /\ e[2] \in Texts \cup {NoText}
        BY EditsAssumption
    <2> QED BY <1>1, <2>1, SaveTextApart
<1>2. ASSUME NEW e \in NameEdits, SaveNames(e[1], e[2]) \/ DeleteCharacter(e[1]) PROVE Apart'
    <2>1. e[1] \in Characters /\ e[2] \in Identities \cup {Nobody}
        BY EditsAssumption
    <2> QED BY <1>2, <2>1, NamesApart
<1>3. ASSUME NEW j \in Jobs, Search(j) \/ \E full \in BOOLEAN : Sweep(j, full) PROVE Apart'
    <2>1. /\ UNCHANGED edits
          /\ \E kind \in {"job", "sweep"}, pc \in {"load", "reset"} : Start(j, kind, pc)
        BY <1>3 DEF Search, Sweep
    <2>2. edits' \in 0 .. MaxEdits /\ edits <= edits'
        BY <1>0, <2>1, EditsAssumption DEF JobsOK
    <2>3. /\ job'[j].pc \in {"load", "reset"} /\ job'[j].tier = 1 /\ job'[j].at = edits'
          /\ \A i \in Jobs \ {j} : job'[i] = job[i]
          /\ overlap' = ~Quiet
        BY <1>0, <2>1, <2>2, StartDoes
    <2> QED BY <1>0, <2>3, StartsAlone
<1>4. ASSUME NEW j \in Jobs, Step(j) PROVE Apart'
    BY <1>4, ResetApart, LoadApart, StatesApart, AskApart, RollApart, StampChapterApart, StampApart
       DEF Step
<1>5. ASSUME NEW j \in Jobs, Kill(j) PROVE Apart'
    BY <1>5, KillDoes DEF Apart
<1>6. ASSUME UNCHANGED vars PROVE Apart'
    BY <1>6 DEF vars, Apart, Lone, Quiet, Running, AtRest, View, Named, Mentioned, AllPlain, Plain,
                Now, At, Rolled, Settling
<1> QED BY <1>1, <1>2, <1>3, <1>4, <1>5, <1>6 DEF Next

---------------------------------------------------------------------------
(***************************************************************************)
(* The theorems.                                                           *)
(***************************************************************************)
\* The invariant of any interleaving.
LEMMA FollowedInvariant == Spec => [](Typed /\ Followed)
<1>1. Init => Typed /\ Followed
    BY InitTyped
<1>2. Typed /\ Followed /\ [Next]_vars => (Typed /\ Followed)'
    BY TypedStep
<1> QED BY <1>1, <1>2, PTL DEF Spec

\* The types hold, a verdict or a rollup never names a chapter that is gone, and only
\* paragraphs of the chapter are evaluated.
THEOREM TypesHold == Spec => []TypeOK
BY FollowedInvariant, TypesInTyped, PTL

\* A paragraph's verdicts are the ones of the text and the cast of its last stamp, whatever
\* evaluations, saves and deletions overlap (_judge_paragraph, _STAMP_CYPHER).
THEOREM VerdictsAreOfTheLastText == Spec => []VerdictsFollowTheNames
<1>1. Typed /\ Followed => VerdictsFollowTheNames
    BY TypesInTyped DEF VerdictsFollowTheNames, Followed
<1> QED BY <1>1, FollowedInvariant, PTL

\* Where evaluations have not met, the chapter's mentions are those of its evaluated paragraphs,
\* and one that ends before anything is edited has stamped what is plain (_refresh_rollup).
THEOREM RollupShowsTheParagraphs == Spec => []RollupIsView
<1>1. Init => Typed /\ Apart
    BY InitTyped
<1>2. Typed /\ Apart /\ [Next]_vars => (Typed /\ Apart)'
    BY TypedStep, ApartStep
<1>3. Apart => RollupIsView
    BY DEF Apart, AtRest, View, Named, AllPlain, RollupIsView
<1> QED BY <1>1, <1>2, <1>3, PTL DEF Spec

\* A paragraph becomes evaluated by its stamp only.
LEMMA OnlyStampsCheck ==
    ASSUME Typed, [Next]_vars, NEW p \in Paras, ~checked[p], checked'[p]
    PROVE  \E j \in Jobs : Stamp(j, p)
<1>1. ASSUME NEW e \in TextEdits, SaveText(e[1], e[2]) PROVE FALSE
    <2>1. e[1] \in Paras /\ e[2] \in Texts \cup {NoText}
        BY EditsAssumption
    <2> DEFINE q == e[1]
               t == e[2]
    <2>2. \/ checked' = [checked EXCEPT ![q] = FALSE]
          \/ checked' = checked
        BY <1>1 DEF SaveText
    <2>3. checked \in [Paras -> BOOLEAN]
        BY DEF Typed, GraphOK
    <2> HIDE DEF q, t
    <2> QED BY <2>2, <2>3
<1>2. ASSUME NEW j \in Jobs, NEW q \in Paras, Stamp(j, q) PROVE q = p
    BY <1>2, StampDoes
<1>3. ASSUME NEW j \in Jobs, Reset(j) PROVE FALSE
    BY <1>3 DEF Reset
<1>4. CASE checked' = checked
    BY <1>4
<1>5. CASE checked' # checked
    <2>1. \/ \E e \in TextEdits : SaveText(e[1], e[2])
          \/ \E j \in Jobs : Reset(j) \/ \E q \in Paras : Stamp(j, q)
        BY <1>5 DEF Next, Step, SaveNames, DeleteCharacter, Search, Sweep, Kill, Load, States, Ask, Roll,
                    StampChapter, Graph, vars
    <2> QED BY <1>1, <1>2, <1>3, <2>1
<1> QED BY <1>4, <1>5

\* A paragraph is stamped evaluated only with an answer of the model for every character its text
\* leaves in doubt, and names such a one only on a yes (evaluate_chapter_tier2).
THEOREM NobodyIsNamedOnSilence == Spec => CheckedIsJudged
<1>1. ASSUME Typed, [Next]_vars, NEW p \in Paras, ~checked[p], checked'[p],
             NEW c \in Unsure(basis'[p])
      PROVE  \E j \in Jobs :
               /\ <<p, c>> \in DOMAIN job[j].answers
               /\ job[j].answers[<<p, c>>] # "none"
               /\ c \in Mentioned(p)' <=> job[j].answers[<<p, c>>] = "yes" /\ c \in Alive(cast)
    <2>1. PICK j \in Jobs : Stamp(j, p)
        BY <1>1, OnlyStampsCheck
    <2>2. /\ basis'[p] = Read(j, p)
          /\ \A d \in Characters : rels'[p][d] > 0 <=> d \in Verdicts(j, p) \cap Alive(cast)
          /\ checked'[p] = IF Verdicts(j, p) \cap Alive(cast) = {} THEN checked[p] ELSE Final(j, p)
        BY <1>1, <2>1, StampDoes
    <2>3. Final(j, p)
        BY <1>1, <2>2
    <2>4. Read(j, p) \in Book /\ c \in Unsure(Read(j, p))
        BY <1>1, <2>1, <2>2, VerdictsRight
    <2>5. c \in Characters
        BY <2>4, JudgedRight DEF Alive
    <2>6. job[j].tier # 1
        BY <1>1, <2>1, <2>3, <2>4, VerdictsRight
    <2>7. /\ <<p, c>> \in DOMAIN job[j].answers
          /\ job[j].answers[<<p, c>>] # "none"
          /\ c \in Verdicts(j, p) <=> job[j].answers[<<p, c>>] = "yes"
        BY <1>1, <2>1, <2>3, <2>4, <2>6, VerdictsRight
    <2>8. c \in Mentioned(p)' <=> c \in Verdicts(j, p) \cap Alive(cast)
        BY <2>2, <2>5 DEF Mentioned
    <2> QED BY <2>7, <2>8
<1> DEFINE Judged == \A p \in Paras : ~checked[p] /\ checked'[p] =>
                       \A c \in Unsure(basis'[p]) : \E j \in Jobs :
                         /\ <<p, c>> \in DOMAIN job[j].answers
                         /\ job[j].answers[<<p, c>>] # "none"
                         /\ c \in Mentioned(p)' <=> job[j].answers[<<p, c>>] = "yes" /\ c \in Alive(cast)
<1>2. Typed /\ [Next]_vars => [Judged]_vars
    BY <1>1
<1>3. CheckedIsJudged <=> [][Judged]_vars
    BY DEF CheckedIsJudged
<1> QED BY <1>2, <1>3, FollowedInvariant, PTL DEF Spec
=============================================================================
