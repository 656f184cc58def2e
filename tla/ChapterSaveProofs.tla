-------------------------- MODULE ChapterSaveProofs --------------------------
(***************************************************************************)
(* Proofs about a save of a chapter: the lock it takes (SaveLock), for any *)
(* finite set of threads and any chapters and lock objects, and the text   *)
(* it writes (ChapterRebuild), for any paragraphs, texts, characters and   *)
(* bounds.                                                                 *)
(***************************************************************************)
EXTENDS SaveLock, ChapterRebuild, FiniteSetTheorems, SequenceTheorems, WellFoundedInduction, TLAPS

-----------------------------------------------------------------------------
(***************************************************************************)
(* The lock.                                                               *)
(***************************************************************************)

\* Whoever is in the scope of a chapter holds the registered lock object.
SameObject ==
    \A t \in Threads :
      /\ pc[t] = "outside" <=> chapter[t] = NoChapter
      /\ pc[t] # "outside" => lock[t] \in Locks /\ lock[t] = saveLocks[chapter[t]]

\* A lock is held by the thread in the body it guards, and by no other.
HolderInBody ==
    \A t \in Threads, l \in Locks :
      held[l] = t <=> pc[t] = "body" /\ lock[t] = l

\* No object serves two chapters.
OneChapterPerLock ==
    \A c, d \in Chapters :
      saveLocks[c] = saveLocks[d] /\ saveLocks[c] # NoLock => c = d

\* The inductive invariant.
LockInv == LockTypeOK /\ SameObject /\ HolderInBody /\ OneChapterPerLock /\ RegistryExact

(***************************************************************************)
(* The set of users of a chapter is finite, so it has a cardinality.       *)
(***************************************************************************)
LEMMA UsersFinite ==
    ASSUME NEW c \in Chapters
    PROVE  IsFiniteSet(Users(c)) /\ Cardinality(Users(c)) \in Nat
<1>1. Users(c) \subseteq Threads
  BY DEF Users
<1>2. IsFiniteSet(Users(c))
  BY <1>1, ThreadsAssumption, FS_Subset
<1> QED
  BY <1>2, FS_CardinalityType

(***************************************************************************)
(* LockInit establishes the invariant.                                     *)
(***************************************************************************)
LEMMA LockInitInv == LockInit => LockInv
<1> SUFFICES ASSUME LockInit PROVE LockInv
  OBVIOUS
<1> USE DEF LockInit
<1>1. LockTypeOK
  BY DEF LockTypeOK, Places
<1>2. SameObject /\ OneChapterPerLock
  BY DEF SameObject, OneChapterPerLock
<1>3. HolderInBody
  BY NobodyAssumption DEF HolderInBody
<1>4. RegistryExact
  <2>1. \A c \in Chapters : Users(c) = {}
    BY NoChapterAssumption DEF Users
  <2> QED
    BY <2>1, FS_EmptySet DEF RegistryExact
<1> QED
  BY <1>1, <1>2, <1>3, <1>4 DEF LockInv

(***************************************************************************)
(* _save_lock preserves it: the newcomer gets the registered object, or a  *)
(* fresh one that no chapter and no thread refers to.                      *)
(***************************************************************************)
LEMMA RegisterInv ==
    ASSUME LockInv, NEW t \in Threads, NEW c \in Chapters, Register(t, c)
    PROVE  LockInv'
<1> USE DEF LockInv
<1>1. PICK l \in Locks :
        /\ LockFor(c, l)
        /\ saveLocks' = [saveLocks EXCEPT ![c] = l]
        /\ lock' = [lock EXCEPT ![t] = l]
  BY DEF Register
<1>2. /\ pc[t] = "outside"
      /\ saveUsers' = [saveUsers EXCEPT ![c] = saveUsers[c] + 1]
      /\ chapter' = [chapter EXCEPT ![t] = c]
      /\ pc' = [pc EXCEPT ![t] = "waiting"]
      /\ held' = held
  BY DEF Register
<1>3. LockTypeOK'
  BY <1>1, <1>2 DEF LockTypeOK, Places
<1>4. \A u \in Threads : chapter[u] = c => lock[u] = l
  <2> SUFFICES ASSUME NEW u \in Threads, chapter[u] = c PROVE lock[u] = l
    OBVIOUS
  <2>1. saveLocks[c] # NoLock
    BY DEF RegistryExact, Users
  <2>2. pc[u] # "outside"
    BY NoChapterAssumption DEF SameObject
  <2> QED
    BY <1>1, <2>1, <2>2 DEF LockFor, SameObject
<1>5. \A d \in Chapters \ {c} : saveLocks[d] # l
  BY <1>1 DEF LockFor, Fresh, OneChapterPerLock, LockTypeOK
<1>6. SameObject'
  BY <1>1, <1>2, <1>4, NoChapterAssumption DEF SameObject, LockTypeOK
<1>7. HolderInBody'
  BY <1>1, <1>2 DEF HolderInBody, LockTypeOK
<1>8. OneChapterPerLock'
  BY <1>1, <1>5, NoLockAssumption DEF OneChapterPerLock, LockTypeOK
<1>9. RegistryExact'
  <2> SUFFICES ASSUME NEW d \in Chapters
               PROVE  /\ saveUsers'[d] = Cardinality(Users(d)')
                      /\ saveLocks'[d] = NoLock <=> Users(d)' = {}
    BY DEF RegistryExact, Users
  <2>1. CASE d = c
    <3>1. t \notin Users(c)
      BY <1>2, NoChapterAssumption DEF Users, SameObject
    <3>2. Users(c)' = Users(c) \cup {t}
      BY <1>2 DEF Users, LockTypeOK
    <3>3. Cardinality(Users(c)') = Cardinality(Users(c)) + 1
      BY <3>1, <3>2, UsersFinite, FS_AddElement
    <3>4. saveUsers[c] = Cardinality(Users(c))
      BY DEF RegistryExact
    <3>5. saveUsers'[c] = saveUsers[c] + 1 /\ saveLocks'[c] = l
      BY <1>1, <1>2 DEF LockTypeOK
    <3> QED
      BY <2>1, <3>2, <3>3, <3>4, <3>5, NoLockAssumption
  <2>2. CASE d # c
    <3>1. Users(d)' = Users(d)
      BY <1>2, <2>2, NoChapterAssumption DEF Users, LockTypeOK, SameObject
    <3> QED
      BY <1>1, <1>2, <2>2, <3>1 DEF RegistryExact, LockTypeOK
  <2> QED
    BY <2>1, <2>2
<1> QED
  BY <1>3, <1>6, <1>7, <1>8, <1>9

(***************************************************************************)
(* Taking and leaving the lock touch only the holder and the place.        *)
(***************************************************************************)
LEMMA AcquireInv ==
    ASSUME LockInv, NEW t \in Threads, Acquire(t)
    PROVE  LockInv'
<1> USE DEF LockInv, Acquire
<1>1. LockTypeOK'
  BY DEF LockTypeOK, Places
<1>2. SameObject'
  BY DEF SameObject, LockTypeOK
<1>3. HolderInBody'
  BY NobodyAssumption DEF HolderInBody, SameObject, LockTypeOK
<1>4. OneChapterPerLock'
  BY DEF OneChapterPerLock
<1>5. RegistryExact'
  BY DEF RegistryExact, Users
<1> QED
  BY <1>1, <1>2, <1>3, <1>4, <1>5

LEMMA UnlockInv ==
    ASSUME LockInv, NEW t \in Threads, Unlock(t)
    PROVE  LockInv'
<1> USE DEF LockInv, Unlock
<1>1. LockTypeOK'
  BY DEF LockTypeOK, Places
<1>2. SameObject'
  BY DEF SameObject, LockTypeOK
<1>3. HolderInBody'
  BY NobodyAssumption DEF HolderInBody, SameObject, LockTypeOK
<1>4. OneChapterPerLock'
  BY DEF OneChapterPerLock
<1>5. RegistryExact'
  BY DEF RegistryExact, Users
<1> QED
  BY <1>1, <1>2, <1>3, <1>4, <1>5

(***************************************************************************)
(* _save_release preserves it: the entry goes exactly when the count says  *)
(* that nobody is left.                                                    *)
(***************************************************************************)
LEMMA ReleaseInv ==
    ASSUME LockInv, NEW t \in Threads, Release(t)
    PROVE  LockInv'
<1> USE DEF LockInv
<1>0. PICK c \in Chapters : c = chapter[t]
  BY DEF Release, SameObject, LockTypeOK
<1>1. /\ pc[t] = "finally"
      /\ saveUsers' = [saveUsers EXCEPT ![c] = IF Evicts(c) THEN 0 ELSE saveUsers[c] - 1]
      /\ saveLocks' = [saveLocks EXCEPT ![c] = IF Evicts(c) THEN NoLock ELSE saveLocks[c]]
      /\ chapter' = [chapter EXCEPT ![t] = NoChapter]
      /\ lock' = [lock EXCEPT ![t] = NoLock]
      /\ pc' = [pc EXCEPT ![t] = "outside"]
      /\ held' = held
  BY <1>0 DEF Release
<1>2. c \in Chapters
  OBVIOUS
<1>3. t \in Users(c)
  BY <1>0 DEF Users
<1>4. Users(c)' = Users(c) \ {t}
  <2>1. \A u \in Threads : chapter'[u] = c <=> chapter[u] = c /\ u # t
    BY <1>1, <1>2, NoChapterAssumption DEF LockTypeOK
  <2> QED
    BY <2>1 DEF Users
<1>5. saveUsers[c] = Cardinality(Users(c)) /\ saveUsers[c] \in Nat \ {0}
  BY <1>2, <1>3, UsersFinite, FS_EmptySet DEF RegistryExact
<1>6. Cardinality(Users(c)') = saveUsers[c] - 1 /\ IsFiniteSet(Users(c)')
  BY <1>2, <1>3, <1>4, <1>5, UsersFinite, FS_RemoveElement
<1>7. Evicts(c) <=> Users(c)' = {}
  BY <1>5, <1>6, FS_EmptySet DEF Evicts
<1>8. LockTypeOK'
  BY <1>1, <1>2, <1>5 DEF LockTypeOK, Places, Evicts
<1>9. \A u \in Threads \ {t} : chapter[u] = c => ~Evicts(c)
  BY <1>4, <1>7 DEF Users
<1>10. SameObject'
  BY <1>1, <1>2, <1>9 DEF SameObject, LockTypeOK
<1>11. HolderInBody'
  BY <1>1, NoLockAssumption DEF HolderInBody, LockTypeOK
<1>12. OneChapterPerLock'
  BY <1>1, <1>2 DEF OneChapterPerLock, LockTypeOK
<1>13. RegistryExact'
  <2> SUFFICES ASSUME NEW d \in Chapters
               PROVE  /\ saveUsers'[d] = Cardinality(Users(d)')
                      /\ saveLocks'[d] = NoLock <=> Users(d)' = {}
    BY DEF RegistryExact, Users
  <2>1. CASE d = c
    <3>1. saveUsers'[c] = saveUsers[c] - 1
      BY <1>1, <1>2, <1>5 DEF LockTypeOK, Evicts
    <3>2. saveLocks'[c] = NoLock <=> Evicts(c)
      BY <1>1, <1>2, <1>3, <1>5, FS_EmptySet DEF LockTypeOK, RegistryExact
    <3> QED
      BY <2>1, <3>1, <3>2, <1>6, <1>7
  <2>2. CASE d # c
    <3>1. Users(d)' = Users(d)
      BY <1>1, <1>2, <2>2, NoChapterAssumption, <1>0 DEF Users, LockTypeOK
    <3> QED
      BY <1>1, <2>2, <3>1 DEF RegistryExact, LockTypeOK
  <2> QED
    BY <2>1, <2>2
<1> QED
  BY <1>8, <1>10, <1>11, <1>12, <1>13

(***************************************************************************)
(* The invariant is inductive.                                             *)
(***************************************************************************)
LEMMA LockStepInv == LockInv /\ [LockNext]_lockVars => LockInv'
<1> SUFFICES ASSUME LockInv, [LockNext]_lockVars PROVE LockInv'
  OBVIOUS
<1>1. CASE UNCHANGED lockVars
  BY SMTT(30), <1>1 DEF lockVars, LockInv, LockTypeOK, SameObject, HolderInBody, OneChapterPerLock,
     RegistryExact, Users
<1>2. CASE LockNext
  BY <1>2, RegisterInv, AcquireInv, UnlockInv, ReleaseInv DEF LockNext
<1> QED
  BY <1>1, <1>2

THEOREM Invariance == LockSpec => []LockInv
<1> QED
  BY LockInitInv, LockStepInv, PTL DEF LockSpec

(***************************************************************************)
(* Every variable keeps its type.                                          *)
(***************************************************************************)
THEOREM TypeCorrect == LockSpec => []LockTypeOK
<1>1. LockInv => LockTypeOK
  BY DEF LockInv
<1> QED
  BY <1>1, Invariance, PTL

(***************************************************************************)
(* Saves of one chapter serialize (_save_scope): both threads hold the     *)
(* registered object, and an object has one holder.                        *)
(***************************************************************************)
THEOREM Serialized == LockSpec => []MutualExclusion
<1>1. LockInv => MutualExclusion
  BY NobodyAssumption DEF LockInv, MutualExclusion, SameObject, HolderInBody, LockTypeOK
<1> QED
  BY <1>1, Invariance, PTL

(***************************************************************************)
(* A save waits only for saves of its own chapter (_save_scope).           *)
(***************************************************************************)
THEOREM Independent == LockSpec => []BlockedByOwnChapter
<1>1. LockInv => BlockedByOwnChapter
  <2> SUFFICES ASSUME LockInv, NEW t \in Threads, NEW u \in Threads,
                      pc[t] = "waiting", pc[u] = "body", lock[t] = lock[u]
               PROVE  chapter[t] = chapter[u]
    BY DEF BlockedByOwnChapter
  <2>1. chapter[t] \in Chapters /\ chapter[u] \in Chapters
    BY DEF LockInv, SameObject, LockTypeOK
  <2>2. saveLocks[chapter[t]] = saveLocks[chapter[u]] /\ saveLocks[chapter[t]] # NoLock
    BY NoLockAssumption DEF LockInv, SameObject
  <2> QED
    BY <2>1, <2>2 DEF LockInv, OneChapterPerLock
<1> QED
  BY <1>1, Invariance, PTL

(***************************************************************************)
(* The registry holds exactly the chapters in use (_save_release).         *)
(***************************************************************************)
THEOREM Evicted == LockSpec => []RegistryExact
<1>1. LockInv => RegistryExact
  BY DEF LockInv
<1> QED
  BY <1>1, Invariance, PTL

(***************************************************************************)
(* Under the invariant ownerOf is the thread in the body, so it changes    *)
(* exactly when a thread takes or leaves the lock.                         *)
(***************************************************************************)
LEMMA OwnerIsInBody ==
    ASSUME LockInv, NEW c \in Chapters
    PROVE  /\ ownerOf[c] \in Threads \cup {NoThread}
           /\ \A t \in Threads : ownerOf[c] = t <=> pc[t] = "body" /\ chapter[t] = c
<1>1. MutualExclusion
  BY NobodyAssumption DEF LockInv, MutualExclusion, SameObject, HolderInBody, LockTypeOK
<1>2. CASE InBody(c) = {}
  BY <1>2, NobodyAssumption DEF ownerOf, InBody
<1>3. CASE InBody(c) # {}
  <2>1. PICK t \in Threads : pc[t] = "body" /\ chapter[t] = c
    BY <1>3 DEF InBody
  <2>2. InBody(c) = {t}
    BY <1>1, <2>1 DEF InBody, MutualExclusion
  <2>3. ownerOf[c] = t
    BY <2>2 DEF ownerOf
  <2> QED
    BY <1>1, <2>1, <2>3 DEF MutualExclusion
<1> QED
  BY <1>2, <1>3

(***************************************************************************)
(* The registry of reference-counted lock objects implements the mutual    *)
(* exclusion per chapter that the save paths rely on (_save_scope).        *)
(***************************************************************************)
THEOREM Refines == LockSpec => MutexRefined
<1>1. LockInit => Mutex!MutexInit
  <2> SUFFICES ASSUME LockInit PROVE ownerOf = [c \in Chapters |-> NoThread]
    BY DEF Mutex!MutexInit
  <2>1. \A c \in Chapters : InBody(c) = {}
    BY DEF LockInit, InBody
  <2> QED
    BY <2>1 DEF ownerOf
<1>2. LockInv /\ LockInv' /\ [LockNext]_lockVars => [Mutex!MutexNext]_ownerOf
  <2> SUFFICES ASSUME LockInv, LockInv', [LockNext]_lockVars PROVE [Mutex!MutexNext]_ownerOf
    OBVIOUS
  <2> USE DEF LockInv
  <2>0. \A c \in Chapters :
          /\ ownerOf'[c] \in Threads \cup {NoThread}
          /\ \A t \in Threads : ownerOf'[c] = t <=> pc'[t] = "body" /\ chapter'[t] = c
    <3> SUFFICES ASSUME NEW c \in Chapters
                 PROVE  /\ ownerOf'[c] \in Threads \cup {NoThread}
                        /\ \A t \in Threads :
                             ownerOf'[c] = t <=> pc'[t] = "body" /\ chapter'[t] = c
      OBVIOUS
    <3>1. MutualExclusion'
      BY NobodyAssumption DEF MutualExclusion, SameObject, HolderInBody, LockTypeOK
    <3>2. CASE InBody(c)' = {}
      BY <3>2, NobodyAssumption DEF ownerOf, InBody
    <3>3. CASE InBody(c)' # {}
      <4>1. PICK t \in Threads : pc'[t] = "body" /\ chapter'[t] = c
        BY <3>3 DEF InBody
      <4>2. InBody(c)' = {t}
        BY <3>1, <4>1 DEF InBody, MutualExclusion
      <4>3. ownerOf'[c] = t
        BY <4>2 DEF ownerOf
      <4> QED
        BY <3>1, <4>1, <4>3 DEF MutualExclusion
    <3> QED
      BY <3>2, <3>3
  <2>1. /\ DOMAIN ownerOf = Chapters /\ DOMAIN ownerOf' = Chapters
        /\ ownerOf = [c \in Chapters |-> ownerOf[c]]
        /\ ownerOf' = [c \in Chapters |-> ownerOf'[c]]
    BY DEF ownerOf
  <2>2. ASSUME NEW t \in Threads, Acquire(t)
        PROVE  Mutex!Enter(t, chapter[t]) /\ chapter[t] \in Chapters
    <3>1. chapter[t] \in Chapters
      BY <2>2 DEF Acquire, SameObject, LockTypeOK
    <3>2. \A u \in Threads : ~(pc[u] = "body" /\ chapter[u] = chapter[t])
      BY <2>2, NobodyAssumption DEF Acquire, SameObject, HolderInBody, LockTypeOK
    <3>3. ownerOf[chapter[t]] = NoThread
      BY <3>1, <3>2, OwnerIsInBody
    <3>4. \A d \in Chapters : ownerOf[d] # t
      BY <2>2, OwnerIsInBody DEF Acquire
    <3>5. ownerOf'[chapter[t]] = t
      BY <2>2, <2>0, <3>1 DEF Acquire, LockTypeOK
    <3>6. \A d \in Chapters \ {chapter[t]} : ownerOf'[d] = ownerOf[d]
      <4> SUFFICES ASSUME NEW d \in Chapters \ {chapter[t]} PROVE ownerOf'[d] = ownerOf[d]
        OBVIOUS
      <4>1. \A u \in Threads :
              (pc'[u] = "body" /\ chapter'[u] = d) <=> (pc[u] = "body" /\ chapter[u] = d)
        BY <2>2 DEF Acquire, LockTypeOK
      <4> QED
        BY <4>1, <2>0, OwnerIsInBody
    <3> QED
      BY <2>1, <3>1, <3>3, <3>4, <3>5, <3>6 DEF Mutex!Enter
  <2>3. ASSUME NEW t \in Threads, Unlock(t)
        PROVE  Mutex!Leave(t, chapter[t]) /\ chapter[t] \in Chapters
    <3>1. chapter[t] \in Chapters
      BY <2>3 DEF Unlock, SameObject, LockTypeOK
    <3>2. ownerOf[chapter[t]] = t
      BY <2>3, <3>1, OwnerIsInBody DEF Unlock
    <3>3. \A u \in Threads : ~(pc'[u] = "body" /\ chapter'[u] = chapter[t])
      BY <2>3, <3>1, <3>2, OwnerIsInBody DEF Unlock, LockTypeOK
    <3>4. ownerOf'[chapter[t]] = NoThread
      BY <2>0, <3>1, <3>3
    <3>5. \A d \in Chapters \ {chapter[t]} : ownerOf'[d] = ownerOf[d]
      <4> SUFFICES ASSUME NEW d \in Chapters \ {chapter[t]} PROVE ownerOf'[d] = ownerOf[d]
        OBVIOUS
      <4>1. \A u \in Threads :
              (pc'[u] = "body" /\ chapter'[u] = d) <=> (pc[u] = "body" /\ chapter[u] = d)
        BY <2>3 DEF Unlock, LockTypeOK
      <4> QED
        BY <4>1, <2>0, OwnerIsInBody
    <3> QED
      BY <2>1, <3>1, <3>2, <3>4, <3>5 DEF Mutex!Leave
  <2>4. ASSUME \A c \in Chapters, t \in Threads :
                 (pc'[t] = "body" /\ chapter'[t] = c) <=> (pc[t] = "body" /\ chapter[t] = c)
        PROVE  ownerOf' = ownerOf
    <3>1. \A c \in Chapters : ownerOf'[c] = ownerOf[c]
      BY <2>4, <2>0, OwnerIsInBody
    <3> QED
      BY <3>1, <2>1
  <2>5. ASSUME NEW t \in Threads, NEW c \in Chapters, Register(t, c)
        PROVE  ownerOf' = ownerOf
    BY <2>5, <2>4 DEF Register, LockTypeOK
  <2>6. ASSUME NEW t \in Threads, Release(t)
        PROVE  ownerOf' = ownerOf
    BY <2>6, <2>4 DEF Release, LockTypeOK
  <2>7. CASE UNCHANGED lockVars
    BY <2>7 DEF lockVars, ownerOf, InBody
  <2> QED
    BY <2>2, <2>3, <2>5, <2>6, <2>7 DEF LockNext, Mutex!MutexNext
<1> QED
  BY <1>1, <1>2, Invariance, PTL DEF LockSpec, MutexRefined, Mutex!MutexSpec

-----------------------------------------------------------------------------
(***************************************************************************)
(* The text.  First what the operators on lists of paragraphs give, then   *)
(* what the rebuild makes of a file, then the commit save by save, and     *)
(* last the invariant of the specification.                                *)
(***************************************************************************)

\* Induction over the natural numbers, for a set.
LEMMA SetInduction ==
    ASSUME NEW S, 0 \in S, \A n \in Nat : n \in S => n + 1 \in S
    PROVE  Nat \subseteq S
<1>1. SUFFICES ASSUME Nat \ S # {}
               PROVE  FALSE
    OBVIOUS
<1> DEFINE T == Nat \ S
<1>2. IsWellFoundedOn(OpToRel(<, Nat), Nat)
    BY NatLessThanWellFounded
<1>3. PICK x \in T : \A y \in T : ~(<<y, x>> \in OpToRel(<, Nat))
    BY <1>1, <1>2, WFMin
<1>4. x \in T
    OBVIOUS
<1>5. x # 0 /\ x - 1 \in Nat
    <2> HIDE <1>3
    <2> QED BY <1>4
<1>6. <<x - 1, x>> \in OpToRel(<, Nat)
    BY <1>4, <1>5 DEF OpToRel
<1>7. x - 1 \notin T
    BY <1>3, <1>6
<1>8. x \in S
    <2> HIDE <1>3
    <2> QED BY <1>5, <1>7
<1> QED BY <1>4, <1>8


\* A nonempty finite set of numbers has a least and a greatest one.
LEMMA MinMax ==
    ASSUME NEW n \in Nat, NEW x \in SUBSET (1 .. n), x # {}
    PROVE  /\ Min(x) \in x /\ \A y \in x : Min(x) <= y
           /\ Max(x) \in x /\ \A y \in x : Max(x) >= y
<1>1. PICK a \in x : \A y \in x : a <= y
    <2> DEFINE S == {m \in Nat : \A z \in SUBSET (1 .. n) : (\E b \in z : b <= m) => \E a \in z : \A y \in z : a <= y}
    <2>1. 0 \in S
        OBVIOUS
    <2>2. ASSUME NEW m \in Nat, m \in S PROVE m + 1 \in S
        <3> SUFFICES ASSUME NEW z \in SUBSET (1 .. n), \E b \in z : b <= m + 1
                     PROVE  \E a \in z : \A y \in z : a <= y
            OBVIOUS
        <3>1. CASE \E b \in z : b <= m
            BY <2>2, <3>1
        <3>2. CASE ~\E b \in z : b <= m
            <4>1. PICK b \in z : b <= m + 1
                OBVIOUS
            <4>2. \A y \in z : b <= y
                BY <3>2, <4>1
            <4> QED BY <4>2
        <3> QED BY <3>1, <3>2
    <2>3. n \in S
        <3> HIDE DEF S
        <3> QED BY <2>1, <2>2, SetInduction
    <2>4. \E b \in x : b <= n
        <3>1. PICK b \in x : b \in 1 .. n
            OBVIOUS
        <3> HIDE DEF S
        <3> QED BY <3>1
    <2> QED BY <2>3, <2>4
<1>2. PICK c \in x : \A y \in x : c >= y
    <2> DEFINE S == {m \in Nat : \A z \in SUBSET (1 .. n) : (\E b \in z : b >= n - m) => \E c \in z : \A y \in z : c >= y}
    <2>1. 0 \in S
        OBVIOUS
    <2>2. ASSUME NEW m \in Nat, m \in S PROVE m + 1 \in S
        <3> SUFFICES ASSUME NEW z \in SUBSET (1 .. n), \E b \in z : b >= n - (m + 1)
                     PROVE  \E c \in z : \A y \in z : c >= y
            OBVIOUS
        <3>1. CASE \E b \in z : b >= n - m
            BY <2>2, <3>1
        <3>2. CASE ~\E b \in z : b >= n - m
            <4>1. PICK b \in z : b >= n - (m + 1)
                OBVIOUS
            <4>2. \A y \in z : b >= y
                BY <3>2, <4>1
            <4> QED BY <4>2
        <3> QED BY <3>1, <3>2
    <2>3. n \in S
        <3> HIDE DEF S
        <3> QED BY <2>1, <2>2, SetInduction
    <2> QED BY <2>3
<1> QED BY <1>1, <1>2 DEF Min, Max

-----------------------------------------------------------------------------
(* Nth and Part.                                                           *)
-----------------------------------------------------------------------------
Rank(K, i) == Cardinality({j \in K : j <= i})

\* Counting up a set of indexes meets every one of them, in their order.
LEMMA Ranked ==
    ASSUME NEW n \in Nat, NEW K \in SUBSET (0 .. n)
    PROVE  /\ Cardinality(K) \in Nat
           /\ \A i \in K : Rank(K, i) \in 1 .. Cardinality(K)
           /\ \A i, j \in K : i < j => Rank(K, i) < Rank(K, j)
           /\ \A k \in 1 .. Cardinality(K) : \E i \in K : Rank(K, i) = k
<1> DEFINE P(K0) == /\ Cardinality(K0) \in Nat
                    /\ \A i \in K0 : Rank(K0, i) \in 1 .. Cardinality(K0)
                    /\ \A i, j \in K0 : i < j => Rank(K0, i) < Rank(K0, j)
                    /\ \A k \in 1 .. Cardinality(K0) : \E i \in K0 : Rank(K0, i) = k
           S == {m \in Nat : \A K0 \in SUBSET (0 .. m - 1) : P(K0)}
<1>1. 0 \in S
    <2>1. \A K0 \in SUBSET (0 .. 0 - 1) : K0 = {}
        OBVIOUS
    <2>2. P({})
        BY FS_EmptySet
    <2> HIDE DEF P
    <2> QED BY <2>1, <2>2
<1>2. ASSUME NEW m \in Nat, m \in S
      PROVE  m + 1 \in S
    <2> SUFFICES ASSUME NEW K0 \in SUBSET (0 .. m)
                 PROVE  P(K0)
        <3> HIDE DEF P
        <3> QED OBVIOUS
    <2>1. CASE m \notin K0
        <3>1. K0 \in SUBSET (0 .. m - 1)
            BY <2>1
        <3> HIDE DEF P
        <3> QED BY <1>2, <3>1
    <2>2. CASE m \in K0
        <3> DEFINE K1 == K0 \ {m}
        <3>1. K1 \in SUBSET (0 .. m - 1) /\ K0 = K1 \cup {m} /\ m \notin K1
            BY <2>2
        <3>2. P(K1)
            <4> HIDE DEF P, K1
            <4> QED BY <1>2, <3>1
        <3>3. IsFiniteSet(K1)
            <4>1. IsFiniteSet(0 .. m - 1)
                BY FS_Interval
            <4> QED BY <3>1, <4>1, FS_Subset
        <3>4. Cardinality(K0) = Cardinality(K1) + 1
            BY <3>1, <3>3, FS_AddElement
        <3>5. \A i \in K1 : Rank(K0, i) = Rank(K1, i)
            <4> SUFFICES ASSUME NEW i \in K1 PROVE {j \in K0 : j <= i} = {j \in K1 : j <= i}
                BY DEF Rank
            <4>1. i < m
                BY <3>1
            <4> HIDE DEF K1
            <4> QED BY <3>1, <4>1
        <3>6. Rank(K0, m) = Cardinality(K0)
            <4>0. \A j \in K0 : j <= m
                BY <3>1
            <4>1. {j \in K0 : j <= m} = K0
                BY <4>0
            <4> QED BY <4>1 DEF Rank
        <3> HIDE DEF K1
        <3>7. \A i \in K0 : Rank(K0, i) \in 1 .. Cardinality(K0)
            BY SMTT(30), <3>1, <3>2, <3>4, <3>5, <3>6
        <3>8. \A i, j \in K0 : i < j => Rank(K0, i) < Rank(K0, j)
            <4> SUFFICES ASSUME NEW i \in K0, NEW j \in K0, i < j PROVE Rank(K0, i) < Rank(K0, j)
                OBVIOUS
            <4>1. i \in K1 /\ i < m
                BY <3>1
            <4>2. CASE j = m
                BY <3>2, <3>4, <3>5, <3>6, <4>1, <4>2
            <4>3. CASE j # m
                BY <3>1, <3>2, <3>5, <4>1, <4>3
            <4> QED BY <4>2, <4>3
        <3>9. \A k \in 1 .. Cardinality(K0) : \E i \in K0 : Rank(K0, i) = k
            <4> SUFFICES ASSUME NEW k \in 1 .. Cardinality(K0) PROVE \E i \in K0 : Rank(K0, i) = k
                OBVIOUS
            <4>1. CASE k = Cardinality(K0)
                BY <2>2, <3>6, <4>1
            <4>2. CASE k # Cardinality(K0)
                <5>1. k \in 1 .. Cardinality(K1)
                    BY <3>2, <3>4, <4>2
                <5>2. PICK i \in K1 : Rank(K1, i) = k
                    BY <3>2, <5>1
                <5> QED BY <3>1, <3>5, <5>2
            <4> QED BY <4>1, <4>2
        <3> QED BY <3>2, <3>4, <3>7, <3>8, <3>9
    <2> QED BY <2>1, <2>2
<1>3. n + 1 \in S
    <2> HIDE DEF S
    <2> QED BY <1>1, <1>2, SetInduction
<1>4. K \in SUBSET (0 .. (n + 1) - 1)
    OBVIOUS
<1> QED BY <1>3, <1>4

LEMMA NthOf ==
    ASSUME NEW n \in Nat, NEW K \in SUBSET (0 .. n)
    PROVE  /\ Cardinality(K) \in Nat
           /\ \A k \in 1 .. Cardinality(K) : Nth(K, k) \in K
           /\ \A k, l \in 1 .. Cardinality(K) : k < l => Nth(K, k) < Nth(K, l)
           /\ \A i \in K : \E k \in 1 .. Cardinality(K) : Nth(K, k) = i
<1>1. /\ Cardinality(K) \in Nat
      /\ \A i \in K : Rank(K, i) \in 1 .. Cardinality(K)
      /\ \A i, j \in K : i < j => Rank(K, i) < Rank(K, j)
      /\ \A k \in 1 .. Cardinality(K) : \E i \in K : Rank(K, i) = k
    BY Ranked
<1>2. \A k \in 1 .. Cardinality(K) : Nth(K, k) \in K /\ Rank(K, Nth(K, k)) = k
    BY <1>1 DEF Nth, Rank
<1>3. \A i, j \in K : i \in Int /\ j \in Int /\ (i < j \/ i = j \/ j < i)
    OBVIOUS
<1>4. \A k, l \in 1 .. Cardinality(K) : k < l => Nth(K, k) < Nth(K, l)
    <2> SUFFICES ASSUME NEW k \in 1 .. Cardinality(K), NEW l \in 1 .. Cardinality(K), k < l
                 PROVE  Nth(K, k) < Nth(K, l)
        OBVIOUS
    <2> DEFINE a == Nth(K, k)
               b == Nth(K, l)
    <2>1. a \in K /\ b \in K /\ Rank(K, a) = k /\ Rank(K, b) = l
        BY <1>2
    <2> HIDE DEF a, b
    <2>2. a < b
        BY <1>1, <1>3, <2>1
    <2> QED BY <2>2 DEF a, b
<1>5. \A i \in K : \E k \in 1 .. Cardinality(K) : Nth(K, k) = i
    <2> SUFFICES ASSUME NEW i \in K PROVE \E k \in 1 .. Cardinality(K) : Nth(K, k) = i
        OBVIOUS
    <2> DEFINE a == Nth(K, Rank(K, i))
    <2>1. a \in K /\ Rank(K, a) = Rank(K, i)
        BY <1>1, <1>2
    <2>2. Rank(K, i) \in 1 .. Cardinality(K)
        BY <1>1
    <2> HIDE DEF a
    <2>3. a = i
        BY <1>1, <1>3, <2>1
    <2> QED BY <2>2, <2>3 DEF a
<1> QED BY <1>1, <1>2, <1>4, <1>5

\* f counts the m members of K in rising order.
Counts(f, m, K) ==
    /\ \A k \in 1 .. m : f[k] \in K
    /\ \A k, l \in 1 .. m : k < l => f[k] < f[l]
    /\ \A i \in K : \E k \in 1 .. m : f[k] = i

\* A rising count of all of a set of indexes is the one Nth gives.
LEMMA Counted ==
    ASSUME NEW n \in Nat, NEW K \in SUBSET (0 .. n), NEW m \in Nat, NEW f, Counts(f, m, K)
    PROVE  m = Cardinality(K) /\ \A k \in 1 .. m : f[k] = Nth(K, k)
<1>0. /\ \A k \in 1 .. m : f[k] \in K
      /\ \A k, l \in 1 .. m : k < l => f[k] < f[l]
      /\ \A i \in K : \E k \in 1 .. m : f[k] = i
    BY DEF Counts
<1> USE <1>0
<1> DEFINE c == Cardinality(K)
           g == [k \in 1 .. c |-> Nth(K, k)]
           S == {q \in Nat : \A k \in 1 .. q : k <= m /\ k <= c => f[k] = g[k]}
<1>a. \A k \in 1 .. c : g[k] = Nth(K, k)
    OBVIOUS
<1>1. /\ c \in Nat /\ \A k \in 1 .. c : g[k] \in K
      /\ \A k, l \in 1 .. c : k < l => g[k] < g[l]
      /\ \A i \in K : \E k \in 1 .. c : g[k] = i
    <2>1. /\ c \in Nat /\ \A k \in 1 .. c : Nth(K, k) \in K
          /\ \A k, l \in 1 .. c : k < l => Nth(K, k) < Nth(K, l)
          /\ \A i \in K : \E k \in 1 .. c : Nth(K, k) = i
        BY NthOf
    <2> HIDE DEF c, g
    <2> QED BY <1>a, <2>1
<1>b. (\A k \in 1 .. m : f[k] \in Int) /\ (\A k \in 1 .. c : g[k] \in Int)
    <2>1. \A i \in K : i \in Int
        OBVIOUS
    <2> HIDE DEF c, g
    <2> QED BY <1>1, <2>1
<1> HIDE DEF c, g
<1>c. ASSUME NEW k \in Int, NEW l \in Int, 1 <= k, k < l
      PROVE  (l <= m => f[k] < f[l]) /\ (l <= c => g[k] < g[l])
    BY <1>1, <1>c
<1>2. 0 \in S
    OBVIOUS
<1>3. ASSUME NEW q \in Nat, q \in S
      PROVE  q + 1 \in S
    <2> SUFFICES ASSUME q + 1 <= m, q + 1 <= c
                 PROVE  f[q + 1] = g[q + 1]
        BY <1>3
    <2>1. q + 1 \in 1 .. m /\ q + 1 \in 1 .. c
        BY <1>1
    <2>2. PICK l \in 1 .. c : g[l] = f[q + 1]
        BY <1>1, <2>1
    <2>3. PICK k \in 1 .. m : f[k] = g[q + 1]
        BY <1>1, <2>1
    <2>4. l >= q + 1
        <3> SUFFICES ASSUME l <= q PROVE FALSE
            BY <1>1
        <3>1. f[l] = g[l] /\ l \in 1 .. m
            BY <1>3, <1>1
        <3>2. f[l] < f[q + 1] /\ f[l] \in Int
            <4>1. l \in Int /\ 1 <= l /\ l < q + 1 /\ q + 1 \in Int
                BY <1>1
            <4> QED BY <1>b, <1>c, <3>1, <4>1
        <3> QED BY <2>2, <3>1, <3>2
    <2>5. k >= q + 1
        <3> SUFFICES ASSUME k <= q PROVE FALSE
            OBVIOUS
        <3>1. f[k] = g[k] /\ k \in 1 .. c
            BY <1>3, <1>1
        <3>2. g[k] < g[q + 1] /\ g[k] \in Int
            BY <1>b, <1>c, <3>1
        <3> QED BY <2>3, <3>1, <3>2
    <2>6. f[q + 1] \in Int /\ g[q + 1] \in Int
        BY <1>b, <2>1
    <2>7. g[l] >= g[q + 1]
        BY <1>1, <1>b, <1>c, <2>4, <2>6
    <2>8. f[k] >= f[q + 1]
        BY <1>b, <1>c, <2>5, <2>6
    <2> QED BY <2>2, <2>3, <2>6, <2>7, <2>8
<1>4. \A q \in Nat : \A k \in 1 .. q : k <= m /\ k <= c => f[k] = g[k]
    <2>1. Nat \subseteq S
        <3> HIDE DEF S
        <3> QED BY <1>2, <1>3, SetInduction
    <2> QED BY <2>1
<1>5. \A k \in Nat : 1 <= k /\ k <= m /\ k <= c => f[k] = g[k]
    BY <1>4
<1>6. ~(m < c)
    <2> SUFFICES ASSUME m < c PROVE FALSE
        OBVIOUS
    <2>1. m + 1 \in 1 .. c
        BY <1>1
    <2>2. PICK k \in 1 .. m : f[k] = g[m + 1]
        BY <1>1, <2>1
    <2>3. f[k] = g[k] /\ k \in 1 .. c
        BY <1>1, <1>5
    <2>4. g[k] < g[m + 1] /\ g[k] \in Int
        BY <1>1, <1>b, <1>c, <2>3
    <2> QED BY <2>2, <2>3, <2>4
<1>7. ~(c < m)
    <2> SUFFICES ASSUME c < m PROVE FALSE
        OBVIOUS
    <2>1. c + 1 \in 1 .. m
        BY <1>1
    <2>2. PICK k \in 1 .. c : g[k] = f[c + 1]
        BY <1>1, <2>1
    <2>3. f[k] = g[k] /\ k \in 1 .. m
        BY <1>1, <1>5
    <2>4. f[k] < f[c + 1] /\ f[k] \in Int
        BY <1>1, <1>b, <1>c, <2>3
    <2> QED BY <2>2, <2>3, <2>4
<1>8. m = c
    BY <1>1, <1>6, <1>7
<1>9. \A k \in 1 .. m : f[k] = g[k]
    BY <1>1, <1>5, <1>8
<1> QED BY <1>8, <1>9, <1>a DEF c

LEMMA PartIs ==
    ASSUME NEW W, NEW s \in Seq(W), NEW K \in SUBSET (1 .. Len(s))
    PROVE  /\ Cardinality(K) \in Nat
           /\ Part(s, K) \in Seq(W) /\ Len(Part(s, K)) = Cardinality(K)
           /\ \A k \in 1 .. Cardinality(K) : Nth(K, k) \in K /\ Part(s, K)[k] = s[Nth(K, k)]
           /\ \A k, l \in 1 .. Cardinality(K) : k < l => Nth(K, k) < Nth(K, l)
           /\ \A i \in K : \E k \in 1 .. Cardinality(K) : Nth(K, k) = i
<1>1. Len(s) \in Nat /\ K \in SUBSET (0 .. Len(s))
    OBVIOUS
<1>2. /\ Cardinality(K) \in Nat
      /\ \A k \in 1 .. Cardinality(K) : Nth(K, k) \in K
      /\ \A k, l \in 1 .. Cardinality(K) : k < l => Nth(K, k) < Nth(K, l)
      /\ \A i \in K : \E k \in 1 .. Cardinality(K) : Nth(K, k) = i
    BY <1>1, NthOf
<1>3. \A k \in 1 .. Cardinality(K) : s[Nth(K, k)] \in W
    <2>1. \A i \in K : i \in 1 .. Len(s)
        OBVIOUS
    <2>2. \A i \in 1 .. Len(s) : s[i] \in W
        BY ElementOfSeq
    <2> QED BY <1>2, <2>1, <2>2
<1>4. Part(s, K) = [k \in 1 .. Cardinality(K) |-> s[Nth(K, k)]]
    BY DEF Part
<1>5. Part(s, K) \in Seq(W)
    BY <1>2, <1>3, <1>4, IsASeq
<1>6. DOMAIN Part(s, K) = 1 .. Cardinality(K)
    BY <1>4
<1>7. Len(Part(s, K)) = Cardinality(K)
    BY <1>2, <1>5, <1>6, LenProperties
<1> QED BY <1>2, <1>4, <1>5, <1>7

LEMMA NthWhole ==
    ASSUME NEW n \in Nat
    PROVE  Cardinality(1 .. n) = n /\ \A k \in 1 .. n : Nth(1 .. n, k) = k
<1>1. 1 .. n \in SUBSET (0 .. n)
    OBVIOUS
<1> DEFINE f == [k \in 1 .. n |-> k]
<1>2. /\ \A k \in 1 .. n : f[k] \in 1 .. n
      /\ \A k, l \in 1 .. n : k < l => f[k] < f[l]
      /\ \A i \in 1 .. n : \E k \in 1 .. n : f[k] = i
    OBVIOUS
<1>3. \A k \in 1 .. n : f[k] = k
    OBVIOUS
<1> HIDE DEF f
<1>4. n = Cardinality(1 .. n) /\ \A k \in 1 .. n : f[k] = Nth(1 .. n, k)
    <2>1. Counts(f, n, 1 .. n)
        BY <1>2 DEF Counts
    <2> QED BY <1>1, <2>1, Counted
<1> QED BY <1>3, <1>4

\* All of a sequence is the sequence.
LEMMA PartWhole ==
    ASSUME NEW W, NEW s \in Seq(W)
    PROVE  Part(s, 1 .. Len(s)) = s
<1>1. Len(s) \in Nat /\ DOMAIN s = 1 .. Len(s)
    OBVIOUS
<1>2. Part(s, 1 .. Len(s)) = [k \in 1 .. Len(s) |-> s[k]]
    BY <1>1, NthWhole DEF Part
<1>3. s = [k \in 1 .. Len(s) |-> s[k]]
    BY <1>1
<1> QED BY <1>2, <1>3

LEMMA PartNone ==
    ASSUME NEW s
    PROVE  Part(s, {}) = << >>
<1>1. Cardinality({}) = 0
    BY FS_EmptySet
<1>2. Part(s, {}) = [k \in 1 .. 0 |-> s[Nth({}, k)]]
    BY <1>1 DEF Part
<1>3. 1 .. 0 = {}
    OBVIOUS
<1>4. Part(s, {}) \in Seq({})
    BY <1>2, <1>3, IsASeq
<1> QED BY <1>2, <1>3, <1>4, EmptySeq

-----------------------------------------------------------------------------
(* Finding a paragraph, and putting one in.                                *)
-----------------------------------------------------------------------------
LEMMA AtIs ==
    ASSUME NEW W, NEW s \in Seq(W), NEW id
    PROVE  /\ (\E i \in 1 .. Len(s) : s[i].id = id) =>
                /\ At(s, id) \in 1 .. Len(s) /\ s[At(s, id)].id = id
                /\ \A i \in 1 .. Len(s) : s[i].id = id => At(s, id) <= i
                /\ LastAt(s, id) \in 1 .. Len(s) /\ s[LastAt(s, id)].id = id
                /\ \A i \in 1 .. Len(s) : s[i].id = id => LastAt(s, id) >= i
           /\ (\A i \in 1 .. Len(s) : s[i].id # id) => At(s, id) = 0 /\ LastAt(s, id) = 0
<1>1. Where(s, id) = {i \in 1 .. Len(s) : s[i].id = id} /\ Len(s) \in Nat
    BY DEF Where
<1>2. CASE \A i \in 1 .. Len(s) : s[i].id # id
    BY <1>1, <1>2 DEF At, LastAt
<1>3. CASE \E i \in 1 .. Len(s) : s[i].id = id
    <2>1. Where(s, id) # {} /\ Where(s, id) \in SUBSET (1 .. Len(s))
        BY <1>1, <1>3
    <2>2. /\ Min(Where(s, id)) \in Where(s, id) /\ \A y \in Where(s, id) : Min(Where(s, id)) <= y
          /\ Max(Where(s, id)) \in Where(s, id) /\ \A y \in Where(s, id) : Max(Where(s, id)) >= y
        BY <1>1, <2>1, MinMax
    <2>3. At(s, id) = Min(Where(s, id)) /\ LastAt(s, id) = Max(Where(s, id))
        BY <2>1 DEF At, LastAt
    <2> QED BY <1>1, <1>3, <2>2, <2>3
<1> QED BY <1>2, <1>3

\* A list with x put in before its i-th element.
LEMMA InsertAtIs ==
    ASSUME NEW W, NEW s \in Seq(W), NEW x \in W, NEW i \in 1 .. Len(s) + 1
    PROVE  /\ InsertAt(s, i, x) \in Seq(W) /\ Len(InsertAt(s, i, x)) = Len(s) + 1
           /\ \A j \in 1 .. Len(s) + 1 :
                InsertAt(s, i, x)[j] = IF j < i THEN s[j] ELSE IF j = i THEN x ELSE s[j - 1]
<1>1. Len(s) \in Nat /\ i \in Nat /\ 1 <= i /\ i <= Len(s) + 1
    BY LenProperties
<1> DEFINE a == SubSeq(s, 1, i - 1)
           b == SubSeq(s, i, Len(s))
           m == a \o <<x>>
<1>2. a \in Seq(W) /\ Len(a) = i - 1 /\ \A j \in 1 .. i - 1 : a[j] = s[j]
    <2>1. \A j \in 1 .. i - 1 : j \in 1 .. Len(s)
        BY <1>1
    <2>2. 1 \in Int /\ i - 1 \in Int /\ (1 <= i - 1 => 1 \in 1 .. Len(s) /\ i - 1 \in 1 .. Len(s))
        BY <1>1
    <2> QED BY <1>1, <2>1, <2>2, SubSeqProperties
<1>3. b \in Seq(W) /\ Len(b) = Len(s) + 1 - i /\ \A j \in 1 .. Len(s) + 1 - i : b[j] = s[i + j - 1]
    BY <1>1, SubSeqProperties
<1>4. <<x>> \in Seq(W) /\ Len(<<x>>) = 1 /\ <<x>>[1] = x
    OBVIOUS
<1> HIDE DEF a, b
<1>5. m \in Seq(W) /\ Len(m) = i /\ \A j \in 1 .. i : m[j] = IF j < i THEN s[j] ELSE x
    <2>1. m \in Seq(W) /\ Len(m) = Len(a) + 1
          /\ \A j \in 1 .. Len(a) + 1 : m[j] = IF j <= Len(a) THEN a[j] ELSE <<x>>[j - Len(a)]
        BY <1>2, <1>4, ConcatProperties
    <2> QED BY <1>1, <1>2, <1>4, <2>1
<1> HIDE DEF m
<1>6. /\ m \o b \in Seq(W) /\ Len(m \o b) = Len(m) + Len(b)
      /\ \A j \in 1 .. Len(m) + Len(b) : (m \o b)[j] = IF j <= Len(m) THEN m[j] ELSE b[j - Len(m)]
    BY <1>3, <1>5, ConcatProperties
<1>7. InsertAt(s, i, x) = m \o b
    BY DEF InsertAt, m, a, b
<1>8. Len(m) + Len(b) = Len(s) + 1
    BY <1>1, <1>3, <1>5
<1>9. ASSUME NEW j \in 1 .. Len(s) + 1
      PROVE  (m \o b)[j] = IF j < i THEN s[j] ELSE IF j = i THEN x ELSE s[j - 1]
    <2>1. CASE j <= i
        BY <1>1, <1>5, <1>6, <1>8, <2>1
    <2>2. CASE j > i
        <3>1. (m \o b)[j] = b[j - i]
            BY <1>1, <1>5, <1>6, <1>8, <2>2
        <3>2. j - i \in 1 .. Len(s) + 1 - i /\ i + (j - i) - 1 = j - 1
            BY <1>1, <2>2
        <3>3. b[j - i] = s[i + (j - i) - 1]
            BY <1>3, <3>2
        <3> QED BY <1>1, <2>2, <3>1, <3>2, <3>3
    <2>3. j <= i \/ j > i
        BY <1>1
    <2> QED BY <2>1, <2>2, <2>3
<1> QED BY <1>6, <1>7, <1>8, <1>9

\* The function that Placed computes.
Placing(paras, new, ids, r) ==
    /\ r[0] = paras /\ r[Len(new)] = Placed(paras, new, ids)
    /\ \A k \in 1 .. Len(new) :
         r[k] = Inserted(r[k - 1], IF Consecutive(new, k) THEN ids[k - 1] ELSE new[k].after,
                         [id |-> ids[k], text |-> new[k].text, quote |-> new[k].quote])

LEMMA PlacedIs ==
    ASSUME NEW W, NEW new \in Seq(W), NEW paras, NEW ids
    PROVE  \E r : Placing(paras, new, ids, r)
<1> DEFINE Link(g, k) == IF k = 0 THEN paras
                         ELSE Inserted(g[k - 1], IF Consecutive(new, k) THEN ids[k - 1] ELSE new[k].after,
                                       [id |-> ids[k], text |-> new[k].text, quote |-> new[k].quote])
           Iter(g, m) == g = [k \in 0 .. m |-> Link(g, k)]
           S == {m \in Nat : \E g : Iter(g, m)}
<1>1. 0 \in S
    <2> DEFINE g == [k \in 0 .. 0 |-> paras]
    <2>1. \A k \in 0 .. 0 : k = 0
        OBVIOUS
    <2>2. Iter(g, 0)
        BY <2>1
    <2> QED BY <2>2
<1>2. ASSUME NEW m \in Nat, m \in S
      PROVE  m + 1 \in S
    <2>1. PICK g : Iter(g, m)
        BY <1>2
    <2> DEFINE h == [k \in 0 .. m + 1 |-> IF k = m + 1 THEN Link(g, k) ELSE g[k]]
    <2>2. ASSUME NEW k \in 0 .. m + 1
          PROVE  h[k] = Link(h, k)
        <3>1. k # 0 => k - 1 \in 0 .. m + 1 /\ k - 1 # m + 1
            OBVIOUS
        <3>2. k # 0 => h[k - 1] = g[k - 1]
            BY <3>1
        <3>3. h[k] = Link(g, k)
            <4>1. CASE k = m + 1
                BY <4>1
            <4>2. CASE k # m + 1
                <5>1. k \in 0 .. m /\ h[k] = g[k]
                    BY <4>2
                <5> HIDE DEF Link, h
                <5> QED BY <2>1, <5>1
            <4> QED BY <4>1, <4>2
        <3> HIDE DEF h
        <3> QED BY <3>2, <3>3
    <2>3. Iter(h, m + 1)
        <3>1. h = [k \in 0 .. m + 1 |-> h[k]]
            OBVIOUS
        <3> HIDE DEF h, Link
        <3> QED BY <2>2, <3>1
    <2> HIDE DEF h, Iter
    <2> QED BY <2>3
<1>3. Len(new) \in Nat
    OBVIOUS
<1>4. \E g : Iter(g, Len(new))
    <2> HIDE DEF Iter
    <2> QED BY <1>1, <1>2, <1>3, SetInduction
<1> DEFINE r0 == CHOOSE g : Iter(g, Len(new))
<1>5. r0 = [k \in 0 .. Len(new) |-> Link(r0, k)]
    <2>1. Iter(r0, Len(new))
        <3> HIDE DEF Iter
        <3> QED BY <1>4
    <2> HIDE DEF r0
    <2> QED BY <2>1
<1>6. Placed(paras, new, ids) = r0[Len(new)]
    BY DEF Placed
<1> HIDE DEF r0
<1>7. r0[0] = paras
    BY <1>3, <1>5
<1>8. \A k \in 1 .. Len(new) : r0[k] = Link(r0, k)
    <2>1. \A k \in 1 .. Len(new) : k \in 0 .. Len(new)
        BY <1>3
    <2> HIDE DEF Link
    <2> QED BY <1>5, <2>1
<1> QED BY <1>6, <1>7, <1>8 DEF Placing

-----------------------------------------------------------------------------
(* The changes of a file, and the chapter rebuilt from them.               *)
-----------------------------------------------------------------------------
AllTexts == Seq(UNION {ToSet(t) : t \in Texts})

HasText(s)   == \A i \in DOMAIN s : s[i].text # << >>
IsChapter(s) == s \in Seq(Blocks) /\ Distinct(s) /\ HasText(s)

\* A block without an id is no quote.
IsFile(s) == s \in Seq(Blocks) /\ \A i \in DOMAIN s : s[i].id = NoId => s[i].quote = NoQuote

LEMMA BlockIs ==
    ASSUME NEW s \in Seq(Blocks)
    PROVE  /\ Len(s) \in Nat /\ DOMAIN s = 1 .. Len(s)
           /\ \A i \in 1 .. Len(s) : s[i] \in Blocks
           /\ \A b \in Blocks : /\ b.id \in Ids \cup {NoId} /\ b.text \in AllTexts
                               /\ b.quote \in Quotes \cup {NoQuote}
                               /\ b = [id |-> b.id, text |-> b.text, quote |-> b.quote]
<1>1. Len(s) \in Nat /\ DOMAIN s = 1 .. Len(s) /\ \A i \in 1 .. Len(s) : s[i] \in Blocks
    BY LenProperties, ElementOfSeq
<1>2. ASSUME NEW b \in Blocks
      PROVE  /\ b.id \in Ids \cup {NoId} /\ b.text \in AllTexts
             /\ b.quote \in Quotes \cup {NoQuote}
             /\ b = [id |-> b.id, text |-> b.text, quote |-> b.quote]
    <2> DEFINE T == AllTexts
    <2>1. b \in [id : Ids \cup {NoId}, text : T, quote : Quotes \cup {NoQuote}]
        BY DEF Blocks, AllTexts
    <2> HIDE DEF T
    <2>2. b.id \in Ids \cup {NoId} /\ b.text \in T /\ b.quote \in Quotes \cup {NoQuote}
          /\ b = [id |-> b.id, text |-> b.text, quote |-> b.quote]
        BY <2>1
    <2> QED BY <2>2 DEF T
<1> QED BY <1>1, <1>2

LEMMA MakeBlock ==
    ASSUME NEW id \in Ids, NEW text \in AllTexts, NEW quote \in Quotes \cup {NoQuote}
    PROVE  [id |-> id, text |-> text, quote |-> quote] \in Blocks
<1> DEFINE T == AllTexts
<1>1. Blocks = [id : Ids \cup {NoId}, text : T, quote : Quotes \cup {NoQuote}]
    BY DEF Blocks, AllTexts
<1> HIDE DEF T
<1>2. text \in T
    BY DEF T
<1> QED BY <1>1, <1>2

\* In a chapter every paragraph is where its id is.
LEMMA InChapter ==
    ASSUME NEW P, IsChapter(P)
    PROVE  /\ \A i \in 1 .. Len(P) : P[i].id \in IdsOf(P) /\ At(P, P[i].id) = i
           /\ \A id \in IdsOf(P) : At(P, id) \in 1 .. Len(P) /\ P[At(P, id)].id = id
           /\ \A id : id \notin IdsOf(P) => At(P, id) = 0
<1>1. P \in Seq(Blocks) /\ DOMAIN P = 1 .. Len(P)
    BY DEF IsChapter
<1>2. \A i \in 1 .. Len(P) : P[i].id # NoId /\ \A j \in 1 .. Len(P) : P[j].id = P[i].id => j = i
    BY <1>1 DEF IsChapter, Distinct
<1>3. IdsOf(P) = {P[i].id : i \in 1 .. Len(P)}
    BY <1>1, <1>2 DEF IdsOf
<1>4. ASSUME NEW i \in 1 .. Len(P)
      PROVE  P[i].id \in IdsOf(P) /\ At(P, P[i].id) = i
    <2>1. At(P, P[i].id) \in 1 .. Len(P) /\ P[At(P, P[i].id)].id = P[i].id
        BY <1>1, AtIs
    <2> QED BY <1>2, <1>3, <2>1
<1>5. ASSUME NEW id \in IdsOf(P)
      PROVE  At(P, id) \in 1 .. Len(P) /\ P[At(P, id)].id = id
    <2>1. \E i \in 1 .. Len(P) : P[i].id = id
        BY <1>3
    <2> QED BY <1>1, <2>1, AtIs
<1>6. ASSUME NEW id, id \notin IdsOf(P)
      PROVE  At(P, id) = 0
    <2>1. \A i \in 1 .. Len(P) : P[i].id # id
        BY <1>3, <1>6
    <2> QED BY <1>1, <2>1, AtIs
<1> QED BY <1>4, <1>5, <1>6

\* The changed blocks are blocks of the file, of paragraphs it knows; what
\* any other block of such a paragraph says, the paragraph says.
LEMMA ChangedIs ==
    ASSUME NEW B \in Seq(Blocks), NEW P, IsChapter(P)
    PROVE  /\ Changed(B, P) \in Seq(Blocks)
           /\ \A k \in 1 .. Len(Changed(B, P)) :
                /\ Changed(B, P)[k].id \in IdsOf(P) \cap IdsOf(B)
                /\ Changed(B, P)[k].text # << >>
                /\ \E i \in 1 .. Len(B) : Changed(B, P)[k] = B[i]
           /\ \A i \in 1 .. Len(B) :
                B[i].text # << >> /\ B[i].id \in IdsOf(P) \ IdsOf(Changed(B, P)) =>
                  B[i].text = P[At(P, B[i].id)].text /\ B[i].quote = P[At(P, B[i].id)].quote
<1> DEFINE D(b) == b.text # P[At(P, b.id)].text \/ b.quote # P[At(P, b.id)].quote
           K == {i \in 1 .. Len(B) : B[i].text # << >> /\ B[i].id \in IdsOf(P) /\ D(B[i])}
           C == Part(B, K)
<1>1. DOMAIN B = 1 .. Len(B) /\ K \in SUBSET (1 .. Len(B)) /\ NoId \notin IdsOf(P)
    BY DEF IdsOf
<1>2. Changed(B, P) = C
    BY <1>1 DEF Changed
<1>3. /\ Cardinality(K) \in Nat /\ C \in Seq(Blocks) /\ Len(C) = Cardinality(K)
      /\ \A k \in 1 .. Cardinality(K) : Nth(K, k) \in K /\ C[k] = B[Nth(K, k)]
      /\ \A i \in K : \E k \in 1 .. Cardinality(K) : Nth(K, k) = i
    <2> HIDE DEF K
    <2> QED BY <1>1, PartIs
<1> HIDE DEF C
<1>4. ASSUME NEW k \in 1 .. Len(C)
      PROVE  /\ C[k].id \in IdsOf(P) \cap IdsOf(B) /\ C[k].text # << >>
             /\ \E i \in 1 .. Len(B) : C[k] = B[i]
    <2>1. PICK i \in K : C[k] = B[i]
        BY <1>3
    <2>2. i \in 1 .. Len(B) /\ B[i].id \in IdsOf(P) /\ B[i].text # << >>
        OBVIOUS
    <2>3. B[i].id \in IdsOf(B)
        BY <1>1, <2>2 DEF IdsOf
    <2> QED BY <2>1, <2>2, <2>3
<1>5. ASSUME NEW i \in 1 .. Len(B), B[i].text # << >>, B[i].id \in IdsOf(P) \ IdsOf(C)
      PROVE  ~D(B[i])
    <2> SUFFICES ASSUME D(B[i]) PROVE FALSE
        OBVIOUS
    <2>1. i \in K
        BY <1>5
    <2>2. PICK k \in 1 .. Len(C) : C[k] = B[i]
        BY ZenonT(30), <1>3, <2>1
    <2>3. DOMAIN C = 1 .. Len(C) /\ C[k].id # NoId
        <3>1. DOMAIN C = 1 .. Len(C)
            BY <1>3, BlockIs
        <3>2. B[i].id # NoId
            BY <1>1, <1>5
        <3> QED BY <2>2, <3>1, <3>2
    <2>4. C[k].id \in IdsOf(C)
        BY <2>3 DEF IdsOf
    <2> QED BY <1>5, <2>2, <2>4
<1> QED BY <1>2, <1>3, <1>4, <1>5

Base(B, P) == Reworded(Without(P, Deleted(B, P)), Changed(B, P))
Stays(B, P) == {i \in 1 .. Len(P) : P[i].id \in IdsOf(B)}

\* The paragraphs that stay, with what the file has them say.
LEMMA BaseIs ==
    ASSUME NEW B \in Seq(Blocks), NEW P, IsChapter(P)
    PROVE  /\ IsChapter(Base(B, P)) /\ Len(Base(B, P)) = Cardinality(Stays(B, P))
           /\ \A k \in 1 .. Len(Base(B, P)) :
                /\ Nth(Stays(B, P), k) \in Stays(B, P) /\ Base(B, P)[k].id = P[Nth(Stays(B, P), k)].id
                /\ Base(B, P)[k].id \notin IdsOf(Changed(B, P)) => Base(B, P)[k] = P[Nth(Stays(B, P), k)]
                /\ Base(B, P)[k].id \in IdsOf(Changed(B, P)) =>
                     \E i \in 1 .. Len(B) : Base(B, P)[k] = B[i] /\ B[i].text # << >>
<1> DEFINE K == Stays(B, P)
           C == Changed(B, P)
           W == Part(P, K)
           R == Base(B, P)
<1>1. P \in Seq(Blocks) /\ DOMAIN P = 1 .. Len(P) /\ K \in SUBSET (1 .. Len(P))
    BY DEF IsChapter, Stays
<1>2. Without(P, Deleted(B, P)) = W
    <2>1. \A i \in 1 .. Len(P) : P[i].id \in IdsOf(P)
        BY InChapter
    <2>2. {i \in DOMAIN P : P[i].id \notin Deleted(B, P)} = K
        BY <1>1, <2>1 DEF Deleted, Seen, Stays
    <2> QED BY <2>2 DEF Without
<1>3. /\ Cardinality(K) \in Nat /\ W \in Seq(Blocks) /\ Len(W) = Cardinality(K)
      /\ \A k \in 1 .. Cardinality(K) : Nth(K, k) \in K /\ W[k] = P[Nth(K, k)]
      /\ \A k, l \in 1 .. Cardinality(K) : k < l => Nth(K, k) < Nth(K, l)
    <2> HIDE DEF K
    <2> QED BY <1>1, PartIs
<1>4. /\ C \in Seq(Blocks) /\ DOMAIN C = 1 .. Len(C)
      /\ \A k \in 1 .. Len(C) : /\ C[k].id \in IdsOf(P) \cap IdsOf(B) /\ C[k].text # << >>
                                /\ \E i \in 1 .. Len(B) : C[k] = B[i]
    BY ChangedIs
<1>5. DOMAIN W = 1 .. Len(W)
    BY <1>3
<1>6. R = [i \in 1 .. Len(W) |-> IF LastAt(C, W[i].id) = 0 THEN W[i] ELSE C[LastAt(C, W[i].id)]]
    BY <1>2, <1>5 DEF Base, Reworded
<1> HIDE DEF K, C, W, R
<1>7. ASSUME NEW k \in 1 .. Len(W)
      PROVE  /\ R[k] \in Blocks /\ R[k].id = W[k].id /\ W[k].id # NoId /\ R[k].text # << >>
             /\ W[k].id \notin IdsOf(C) => R[k] = W[k]
             /\ W[k].id \in IdsOf(C) => \E i \in 1 .. Len(B) : R[k] = B[i] /\ B[i].text # << >>
    <2>1. PICK i \in 1 .. Len(P) : i = Nth(K, k) /\ W[k] = P[i]
        BY <1>1, <1>3
    <2>2. W[k] \in Blocks /\ W[k].id # NoId /\ W[k].text # << >>
        BY <1>1, <1>3, <2>1, BlockIs DEF IsChapter, Distinct, HasText
    <2>3. CASE W[k].id \in IdsOf(C)
        <3>1. \E j \in 1 .. Len(C) : C[j].id = W[k].id
            BY <1>4, <2>3 DEF IdsOf
        <3>2. PICK j \in 1 .. Len(C) : j = LastAt(C, W[k].id) /\ C[j].id = W[k].id
            BY ZenonT(30), <1>4, <3>1, AtIs
        <3>3. R[k] = C[j]
            BY <1>4, <1>6, <3>2
        <3>4. C[j] \in Blocks
            BY <1>4, BlockIs
        <3> QED BY <1>4, <2>2, <2>3, <3>2, <3>3, <3>4
    <2>4. CASE W[k].id \notin IdsOf(C)
        <3>1. \A j \in 1 .. Len(C) : C[j].id # W[k].id
            BY <1>4, <2>2, <2>4 DEF IdsOf
        <3>2. LastAt(C, W[k].id) = 0
            BY <1>4, <3>1, AtIs
        <3> QED BY <1>6, <2>2, <2>4, <3>2
    <2> QED BY <2>3, <2>4
<1>8. R \in Seq(Blocks) /\ Len(R) = Len(W) /\ DOMAIN R = 1 .. Len(W)
    <2>1. \A k \in 1 .. Len(W) : R[k] \in Blocks
        BY <1>7
    <2>2. DOMAIN R = 1 .. Len(W) /\ R = [k \in 1 .. Len(W) |-> R[k]]
        BY <1>6
    <2>3. Len(W) \in Nat
        BY <1>3
    <2>4. R \in Seq(Blocks)
        BY <2>1, <2>2, <2>3, IsASeq
    <2> QED BY <2>2, <2>3, <2>4, LenProperties
<1>9. Distinct(R)
    <2> SUFFICES ASSUME NEW k \in 1 .. Len(W), NEW l \in 1 .. Len(W), R[l].id = R[k].id
                 PROVE  l = k
        BY <1>7, <1>8 DEF Distinct
    <2>1. W[l].id = W[k].id
        BY <1>7
    <2>2. P[Nth(K, l)].id = P[Nth(K, k)].id /\ Nth(K, l) \in 1 .. Len(P) /\ Nth(K, k) \in 1 .. Len(P)
        BY <1>1, <1>3, <2>1
    <2>3. Nth(K, l) = Nth(K, k)
        BY <1>1, <2>2 DEF IsChapter, Distinct
    <2>4. \A i \in K : i \in Int
        BY <1>1
    <2>5. k \in 1 .. Cardinality(K) /\ l \in 1 .. Cardinality(K)
        BY <1>3
    <2> HIDE DEF K
    <2>6. Nth(K, k) \in Int /\ Nth(K, l) \in Int /\ k \in Int /\ l \in Int
        BY <1>3, <2>4, <2>5
    <2>7. ~(k < l) /\ ~(l < k)
        BY <1>3, <2>3, <2>5, <2>6
    <2> QED BY <2>6, <2>7
<1>10. IsChapter(R)
    BY <1>7, <1>8, <1>9 DEF IsChapter, HasText
<1>11. ASSUME NEW k \in 1 .. Len(R)
       PROVE  /\ Nth(K, k) \in K /\ R[k].id = P[Nth(K, k)].id
              /\ R[k].id \notin IdsOf(C) => R[k] = P[Nth(K, k)]
              /\ R[k].id \in IdsOf(C) => \E i \in 1 .. Len(B) : R[k] = B[i] /\ B[i].text # << >>
    BY <1>3, <1>7, <1>8
<1> QED BY <1>3, <1>8, <1>10, <1>11 DEF K, C, R

\* The blocks that say something, in their order.
Speaking(B) == {i \in 1 .. Len(B) : B[i].text # << >>}

LEMMA SpokenIs ==
    ASSUME NEW B \in Seq(Blocks)
    PROVE  /\ Spoken(B) \in Seq(Blocks) /\ HasText(Spoken(B)) /\ Len(Spoken(B)) \in Nat
           /\ \A k \in 1 .. Len(Spoken(B)) :
                Nth(Speaking(B), k) \in 1 .. Len(B) /\ Spoken(B)[k] = B[Nth(Speaking(B), k)]
           /\ \A k, l \in 1 .. Len(Spoken(B)) : k < l => Nth(Speaking(B), k) < Nth(Speaking(B), l)
           /\ \A i \in 1 .. Len(B) :
                B[i].text # << >> => \E k \in 1 .. Len(Spoken(B)) : Nth(Speaking(B), k) = i
<1> DEFINE K == Speaking(B)
           S == Part(B, K)
<1>1. DOMAIN B = 1 .. Len(B) /\ K \in SUBSET (1 .. Len(B)) /\ \A i \in K : B[i].text # << >>
    BY DEF Speaking
<1>2. Spoken(B) = S
    BY <1>1 DEF Spoken, Speaking
<1>3. \A i \in 1 .. Len(B) : B[i].text # << >> => i \in K
    BY DEF Speaking
<1> HIDE DEF K
<1>4. /\ Cardinality(K) \in Nat /\ S \in Seq(Blocks) /\ Len(S) = Cardinality(K)
      /\ \A k \in 1 .. Cardinality(K) : Nth(K, k) \in K /\ S[k] = B[Nth(K, k)]
      /\ \A k, l \in 1 .. Cardinality(K) : k < l => Nth(K, k) < Nth(K, l)
      /\ \A i \in K : \E k \in 1 .. Cardinality(K) : Nth(K, k) = i
    BY <1>1, PartIs
<1> HIDE DEF S
<1>5. HasText(S)
    BY <1>1, <1>4, BlockIs DEF HasText
<1> QED BY <1>1, <1>2, <1>3, <1>4, <1>5 DEF K

Unknown(S, P)   == {i \in 1 .. Len(S) : S[i].id \notin IdsOf(P)}
Before(S, i, P) == {j \in 1 .. i - 1 : S[j].id \in IdsOf(P)}

LEMMA AnchorIs ==
    ASSUME NEW S \in Seq(Blocks), NEW P, NEW i \in 1 .. Len(S)
    PROVE  /\ Before(S, i, P) = {} => Anchor(S, i, P) = NoId
           /\ Before(S, i, P) # {} =>
                \E j \in Before(S, i, P) : /\ Anchor(S, i, P) = S[j].id
                                          /\ \A l \in Before(S, i, P) : l <= j
<1>1. Before(S, i, P) \in SUBSET (1 .. i - 1) /\ i - 1 \in Nat
    BY DEF Before
<1>2. Anchor(S, i, P) = IF Before(S, i, P) = {} THEN NoId ELSE S[Max(Before(S, i, P))].id
    BY DEF Anchor, Before
<1>3. CASE Before(S, i, P) # {}
    <2>1. /\ Max(Before(S, i, P)) \in Before(S, i, P)
          /\ \A l \in Before(S, i, P) : Max(Before(S, i, P)) >= l
        BY <1>1, <1>3, MinMax
    <2>2. \A l \in Before(S, i, P) : l \in Int
        BY <1>1
    <2> QED BY <1>2, <1>3, <2>1, <2>2
<1> QED BY <1>2, <1>3

News == [text : AllTexts, after : Ids \cup {NoId}, quote : Quotes \cup {NoQuote}]

LEMMA NewIs ==
    ASSUME NEW B, IsFile(B), NEW P
    PROVE  /\ New(B, P) \in Seq(News) /\ Len(New(B, P)) = Cardinality(Unknown(Spoken(B), P))
           /\ Len(New(B, P)) \in Nat
           /\ \A k \in 1 .. Len(New(B, P)) :
                LET i == Nth(Unknown(Spoken(B), P), k) IN
                /\ i \in Unknown(Spoken(B), P)
                /\ New(B, P)[k].text = Spoken(B)[i].text /\ New(B, P)[k].text # << >>
                /\ New(B, P)[k].quote = Spoken(B)[i].quote
                /\ New(B, P)[k].after = Anchor(Spoken(B), i, P)
<1> DEFINE S == Spoken(B)
           U == Unknown(S, P)
           N == New(B, P)
           I(k) == Nth(U, k)
           E(k) == [text |-> S[I(k)].text, after |-> Anchor(S, I(k), P),
                    quote |-> IF S[I(k)].id = NoId THEN NoQuote ELSE S[I(k)].quote]
<1>1. B \in Seq(Blocks)
    BY DEF IsFile
<1>2. S \in Seq(Blocks) /\ DOMAIN S = 1 .. Len(S) /\ Len(S) \in Nat /\ HasText(S)
    BY <1>1, SpokenIs, BlockIs
<1>3. \A i \in 1 .. Len(S) : S[i].id = NoId => S[i].quote = NoQuote
    BY <1>1, SpokenIs, BlockIs DEF IsFile
<1>4. U \in SUBSET (0 .. Len(S)) /\ U \subseteq 1 .. Len(S)
    BY <1>2 DEF Unknown
<1>5. Cardinality(U) \in Nat /\ \A k \in 1 .. Cardinality(U) : I(k) \in U
    <2> HIDE DEF U, S
    <2> QED BY <1>2, <1>4, NthOf
<1>6. N = [k \in 1 .. Cardinality(U) |-> E(k)]
    BY <1>2 DEF New, Unknown
<1>7. ASSUME NEW k \in 1 .. Cardinality(U)
      PROVE  /\ N[k] \in News /\ I(k) \in U /\ N[k].text = S[I(k)].text /\ N[k].text # << >>
             /\ N[k].quote = S[I(k)].quote /\ N[k].after = Anchor(S, I(k), P)
    <2>1. PICK i \in 1 .. Len(S) : i = I(k) /\ i \in U
        BY <1>4, <1>5
    <2>2. N[k] = [text |-> S[i].text, after |-> Anchor(S, i, P),
                  quote |-> IF S[i].id = NoId THEN NoQuote ELSE S[i].quote]
        BY <1>6, <2>1
    <2> HIDE DEF S, N, U, I
    <2>3. S[i] \in Blocks /\ S[i].text # << >>
        BY <1>2, BlockIs DEF HasText
    <2>4. Anchor(S, i, P) \in Ids \cup {NoId}
        <3>1. \A j \in Before(S, i, P) : S[j].id \in Ids \cup {NoId}
            BY <1>2, BlockIs DEF Before
        <3> QED BY <1>2, <3>1, AnchorIs
    <2>5. N[k].quote = S[i].quote
        BY <1>3, <2>2
    <2>6. S[i].text \in AllTexts /\ S[i].quote \in Quotes \cup {NoQuote}
        BY <1>1, <2>3, BlockIs
    <2>7. N[k] \in News
        <3> DEFINE T == AllTexts
        <3>1. News = [text : T, after : Ids \cup {NoId}, quote : Quotes \cup {NoQuote}]
            BY DEF News
        <3> HIDE DEF T
        <3>2. S[i].text \in T
            BY <2>6 DEF T
        <3> QED BY <2>2, <2>4, <2>6, <3>1, <3>2
    <2> QED BY <2>1, <2>2, <2>3, <2>5, <2>7
<1>8. N \in Seq(News) /\ Len(N) = Cardinality(U)
    <2>1. DOMAIN N = 1 .. Cardinality(U) /\ N = [k \in 1 .. Cardinality(U) |-> N[k]]
        BY <1>6
    <2> HIDE DEF N, U
    <2>2. N \in Seq(News)
        BY <1>5, <1>7, <2>1, IsASeq
    <2> QED BY <1>5, <2>1, <2>2, LenProperties
<1> HIDE DEF N, U, S, E
<1> QED BY <1>5, <1>7, <1>8 DEF N, U, S

\* The ids a save draws are unused and no two are the same.
LEMMA FreshIs ==
    ASSUME NEW n \in Nat, Available(n)
    PROVE  /\ FreshIds(n) \in Seq(Ids) /\ Len(FreshIds(n)) = n
           /\ \A k \in 1 .. n : FreshIds(n)[k] \in Unused
           /\ \A k, l \in 1 .. n : FreshIds(n)[k] = FreshIds(n)[l] => k = l
<1> DEFINE U == Unused
<1>1. U \subseteq Ids /\ Ids \subseteq Nat
    BY IdsAssumption DEF Unused
<1>2. PICK top \in Ids : n <= Cardinality({i \in U : i <= top})
    BY DEF Available
<1>3. FreshIds(n) = [k \in 1 .. n |-> Nth(U, k)]
    BY DEF FreshIds
<1> HIDE DEF U
<1> DEFINE T == {i \in U : i <= top}
<1>4. T \in SUBSET (0 .. top) /\ top \in Nat
    <2>1. top \in Nat /\ \A i \in U : i \in Nat
        BY <1>1
    <2>2. \A i \in T : i \in 0 .. top
        BY <2>1
    <2> QED BY <2>1, <2>2
<1>5. Cardinality(T) \in Nat /\ \A k \in 1 .. Cardinality(T) : \E i \in T : Rank(T, i) = k
    <2> HIDE DEF T
    <2> QED BY <1>4, Ranked
<1>6. ASSUME NEW k \in 1 .. n
      PROVE  Nth(U, k) \in U /\ Rank(U, Nth(U, k)) = k
    <2>1. k \in 1 .. Cardinality(T)
        <3> HIDE DEF T
        <3> QED BY <1>2, <1>5 DEF T
    <2>2. PICK i \in T : Rank(T, i) = k
        <3> HIDE DEF T
        <3> QED BY <1>5, <2>1
    <2>3. {j \in T : j <= i} = {j \in U : j <= i}
        <3>1. i \in Int /\ top \in Int /\ i <= top /\ \A j \in U : j \in Int
            BY <1>1, <1>4
        <3>2. \A j \in U : j <= i => j \in T
            BY <3>1
        <3>3. \A j \in T : j \in U
            OBVIOUS
        <3> HIDE DEF T
        <3> QED BY <3>2, <3>3
    <2>4. i \in U /\ Rank(U, i) = k
        BY <2>2, <2>3 DEF Rank
    <2> QED BY <2>4 DEF Nth, Rank
<1>7. \A k \in 1 .. n : FreshIds(n)[k] \in U /\ FreshIds(n)[k] = Nth(U, k)
    BY <1>3, <1>6
<1>8. FreshIds(n) \in Seq(Ids)
    <2> DEFINE F == FreshIds(n)
    <2>1. DOMAIN F = 1 .. n /\ F = [k \in 1 .. n |-> F[k]]
        BY <1>3
    <2>2. \A k \in 1 .. n : F[k] \in Ids
        BY <1>1, <1>7
    <2> HIDE DEF F
    <2>3. F \in Seq(Ids)
        BY <2>1, <2>2, IsASeq
    <2> QED BY <2>3 DEF F
<1>9. Len(FreshIds(n)) = n
    <2>1. DOMAIN FreshIds(n) = 1 .. n
        BY <1>3
    <2> QED BY <1>8, <2>1, LenProperties
<1> QED BY <1>6, <1>7, <1>8, <1>9 DEF U

-----------------------------------------------------------------------------
(* Placing the new paragraphs.                                             *)
-----------------------------------------------------------------------------
LEMMA InsertedIs ==
    ASSUME NEW s, IsChapter(s), NEW p \in Blocks, p.id \notin IdsOf(s), p.id # NoId, p.text # << >>, NEW a
    PROVE  /\ At(s, a) \in 0 .. Len(s) /\ IsChapter(Inserted(s, a, p))
           /\ Len(s) \in Nat /\ Len(Inserted(s, a, p)) = Len(s) + 1
           /\ \A j \in 1 .. Len(s) + 1 :
                Inserted(s, a, p)[j] = IF j <= At(s, a) THEN s[j] ELSE IF j = At(s, a) + 1 THEN p ELSE s[j - 1]
           /\ IdsOf(Inserted(s, a, p)) = IdsOf(s) \cup {p.id}
<1> DEFINE m == At(s, a)
           t == Inserted(s, a, p)
           n == Len(s)
<1>1. s \in Seq(Blocks) /\ n \in Nat /\ DOMAIN s = 1 .. n
    BY DEF IsChapter
<1>2. m \in 0 .. n
    <2>1. (\E i \in 1 .. n : s[i].id = a) \/ (\A i \in 1 .. n : s[i].id # a)
        OBVIOUS
    <2> HIDE DEF m
    <2>2. m \in 1 .. n \/ m = 0
        BY <1>1, <2>1, AtIs DEF m
    <2> QED BY <1>1, <2>2
<1>3. t = InsertAt(s, m + 1, p)
    BY DEF Inserted
<1> HIDE DEF m
<1>4. m + 1 \in 1 .. n + 1
    BY <1>1, <1>2
<1> HIDE DEF t, n
<1>5. /\ t \in Seq(Blocks) /\ Len(t) = n + 1
      /\ \A j \in 1 .. n + 1 : t[j] = IF j < m + 1 THEN s[j] ELSE IF j = m + 1 THEN p ELSE s[j - 1]
    <2>1. PICK i \in 1 .. Len(s) + 1 : i = m + 1
        BY <1>4 DEF n
    <2>2. /\ InsertAt(s, i, p) \in Seq(Blocks) /\ Len(InsertAt(s, i, p)) = Len(s) + 1
          /\ \A j \in 1 .. Len(s) + 1 :
               InsertAt(s, i, p)[j] = IF j < i THEN s[j] ELSE IF j = i THEN p ELSE s[j - 1]
        <3> DEFINE W == Blocks
        <3>1. s \in Seq(W) /\ p \in W /\ i \in 1 .. Len(s) + 1
            BY <1>1
        <3> HIDE DEF W
        <3>2. /\ InsertAt(s, i, p) \in Seq(W) /\ Len(InsertAt(s, i, p)) = Len(s) + 1
              /\ \A j \in 1 .. Len(s) + 1 :
                   InsertAt(s, i, p)[j] = IF j < i THEN s[j] ELSE IF j = i THEN p ELSE s[j - 1]
            BY <3>1, InsertAtIs
        <3> QED BY <3>2 DEF W
    <2> QED BY <1>3, <2>1, <2>2 DEF n
<1>6. \A j \in 1 .. n + 1 : t[j] = IF j <= m THEN s[j] ELSE IF j = m + 1 THEN p ELSE s[j - 1]
    BY <1>1, <1>2, <1>5
<1>7. DOMAIN t = 1 .. n + 1
    BY <1>5, BlockIs
<1>8. \A j \in 1 .. n : /\ s[j].id # NoId /\ s[j].text # << >> /\ s[j].id # p.id
                        /\ \A l \in 1 .. n : s[l].id = s[j].id => l = j
    BY <1>1 DEF IsChapter, Distinct, HasText, IdsOf, n
<1>9. ASSUME NEW j \in 1 .. n + 1
      PROVE  \/ j <= m /\ j \in 1 .. n /\ t[j] = s[j]
             \/ j = m + 1 /\ t[j] = p
             \/ j > m + 1 /\ j - 1 \in 1 .. n /\ t[j] = s[j - 1]
    BY <1>1, <1>2, <1>6
<1>10. Distinct(t)
    <2>1. \A j \in 1 .. n + 1 : t[j].id # NoId
        BY <1>8, <1>9
    <2>2. ASSUME NEW j \in 1 .. n + 1, NEW l \in 1 .. n + 1, t[l].id = t[j].id
          PROVE  l = j
        <3> DEFINE Old(x, y) == x \in 1 .. n /\ t[y] = s[x] /\ ((y <= m /\ x = y) \/ (y > m + 1 /\ x = y - 1))
        <3>1. ASSUME NEW y \in 1 .. n + 1
              PROVE  (y = m + 1 /\ t[y] = p) \/ \E x : Old(x, y)
            <4>1. CASE y <= m /\ y \in 1 .. n /\ t[y] = s[y]
                <5>1. Old(y, y)
                    BY <4>1
                <5> QED BY <5>1
            <4>2. CASE y > m + 1 /\ y - 1 \in 1 .. n /\ t[y] = s[y - 1]
                <5>1. Old(y - 1, y)
                    BY <4>2
                <5> QED BY <5>1
            <4> QED BY <1>9, <4>1, <4>2
        <3>2. CASE j = m + 1 /\ t[j] = p
            <4>1. ~\E x : Old(x, l)
                BY <1>8, <2>2, <3>2
            <4> QED BY <2>2, <3>1, <3>2, <4>1
        <3>3. CASE l = m + 1 /\ t[l] = p
            <4>1. ~\E x : Old(x, j)
                BY <1>8, <2>2, <3>3
            <4> QED BY <2>2, <3>1, <3>3, <4>1
        <3>4. CASE (\E x : Old(x, j)) /\ \E y : Old(y, l)
            <4>1. PICK x : Old(x, j)
                BY <3>4
            <4>2. PICK y : Old(y, l)
                BY <3>4
            <4>3. x = y
                BY <1>8, <2>2, <4>1, <4>2
            <4> QED BY <1>1, <1>2, <4>1, <4>2, <4>3
        <3> QED BY <2>2, <3>1, <3>2, <3>3, <3>4
    <2> QED BY <1>7, <2>1, <2>2 DEF Distinct
<1>11. HasText(t)
    BY <1>7, <1>8, <1>9 DEF HasText
<1>12. IdsOf(t) = IdsOf(s) \cup {p.id}
    <2>1. \A j \in 1 .. n : \E l \in 1 .. n + 1 : t[l] = s[j]
        <3> SUFFICES ASSUME NEW j \in 1 .. n PROVE \E l \in 1 .. n + 1 : t[l] = s[j]
            OBVIOUS
        <3>1. CASE j <= m
            BY <1>1, <1>2, <1>6, <3>1
        <3>2. CASE j > m
            <4>1. j + 1 \in 1 .. n + 1 /\ ~(j + 1 <= m) /\ j + 1 # m + 1 /\ (j + 1) - 1 = j
                BY <1>1, <1>2, <3>2
            <4> QED BY <1>6, <4>1
        <3> QED BY <1>1, <1>2, <3>1, <3>2
    <2>2. \E l \in 1 .. n + 1 : t[l] = p
        BY <1>1, <1>2, <1>4, <1>6
    <2>3. IdsOf(t) = {t[j].id : j \in 1 .. n + 1} /\ IdsOf(s) = {s[j].id : j \in 1 .. n}
        BY <1>1, <1>7, <1>8, <1>10 DEF IdsOf, Distinct
    <2>4. \A x \in IdsOf(t) : x \in IdsOf(s) \cup {p.id}
        BY <1>9, <2>3
    <2> QED BY <2>1, <2>2, <2>3, <2>4
<1>13. IsChapter(t)
    BY <1>5, <1>10, <1>11 DEF IsChapter
<1> QED BY <1>1, <1>2, <1>5, <1>6, <1>12, <1>13 DEF m, t, n

Para(new, ids, k) == [id |-> ids[k], text |-> new[k].text, quote |-> new[k].quote]

Placeable(base, new, ids) ==
    /\ IsChapter(base) /\ new \in Seq(News) /\ ids \in Seq(Ids) /\ Len(ids) = Len(new)
    /\ \A k \in 1 .. Len(new) : /\ new[k].text # << >> /\ ids[k] \notin IdsOf(base)
                               /\ \A l \in 1 .. Len(new) : ids[l] = ids[k] => l = k

\* The chapter t after k of the new paragraphs: those of base, in their order
\* (g says where they are), and the new ones.
Spread(base, t, g) ==
    /\ \A i \in 1 .. Len(base) : g[i] \in 1 .. Len(t) /\ t[g[i]] = base[i]
    /\ \A i, j \in 1 .. Len(base) : i < j => g[i] < g[j]

Grown(base, new, ids, t, k) ==
    /\ IsChapter(t) /\ IdsOf(t) = IdsOf(base) \cup {ids[l] : l \in 1 .. k}
    /\ \A l \in 1 .. k : \E j \in 1 .. Len(t) : t[j] = Para(new, ids, l)
    /\ \E g : Spread(base, t, g)

LEMMA ParaIs ==
    ASSUME NEW base, NEW new, NEW ids, Placeable(base, new, ids), NEW k \in 1 .. Len(new)
    PROVE  /\ Para(new, ids, k) \in Blocks /\ Para(new, ids, k).id = ids[k] /\ ids[k] \in Ids
           /\ ids[k] # NoId /\ Para(new, ids, k).text # << >>
<1>1. ids[k] \in Ids /\ new[k] \in News
    <2>1. k \in 1 .. Len(ids)
        BY DEF Placeable
    <2> QED BY <2>1, ElementOfSeq DEF Placeable
<1>2. ids[k] # NoId
    BY <1>1, IdsAssumption
<1>3. new[k].text \in AllTexts /\ new[k].quote \in Quotes \cup {NoQuote}
    <2> DEFINE T == AllTexts
    <2>1. News = [text : T, after : Ids \cup {NoId}, quote : Quotes \cup {NoQuote}]
        BY DEF News
    <2> HIDE DEF T
    <2>2. new[k].text \in T /\ new[k].quote \in Quotes \cup {NoQuote}
        BY <1>1, <2>1
    <2> QED BY <2>2 DEF T
<1>4. Para(new, ids, k) \in Blocks
    BY <1>1, <1>3, MakeBlock DEF Para
<1> QED BY <1>1, <1>2, <1>4 DEF Para, Placeable

LEMMA Growing ==
    ASSUME NEW base, NEW new, NEW ids, Placeable(base, new, ids), NEW r, Placing(base, new, ids, r)
    PROVE  \A k \in 0 .. Len(new) : Grown(base, new, ids, r[k], k)
<1> DEFINE n == Len(new)
           S == {k \in Nat : k <= n => Grown(base, new, ids, r[k], k)}
<1>1. n \in Nat /\ Len(base) \in Nat /\ IsChapter(base)
    BY BlockIs DEF Placeable, IsChapter
<1>2. 0 \in S
    <2> DEFINE g == [i \in 1 .. Len(base) |-> i]
    <2>1. Spread(base, base, g)
        BY <1>1 DEF Spread
    <2>2. {ids[l] : l \in 1 .. 0} = {} /\ \A l \in 1 .. 0 : FALSE
        OBVIOUS
    <2>3. r[0] = base
        BY DEF Placing
    <2> HIDE DEF g
    <2>4. Grown(base, new, ids, r[0], 0)
        BY <1>1, <2>1, <2>2, <2>3 DEF Grown
    <2> QED BY <2>4
<1>3. ASSUME NEW k \in Nat, k \in S
      PROVE  k + 1 \in S
    <2> SUFFICES ASSUME k + 1 <= n PROVE Grown(base, new, ids, r[k + 1], k + 1)
        OBVIOUS
    <2> DEFINE s == r[k]
               p == Para(new, ids, k + 1)
    <2>1. Grown(base, new, ids, s, k) /\ k + 1 \in 1 .. Len(new)
        BY <1>1, <1>3
    <2>2. PICK a : r[k + 1] = Inserted(s, a, p)
        <3>1. (k + 1) - 1 = k
            OBVIOUS
        <3> QED BY <2>1, <3>1 DEF Placing, Para
    <2>3. p \in Blocks /\ p.id = ids[k + 1] /\ p.id # NoId /\ p.text # << >>
        <3> HIDE DEF s
        <3> QED BY <2>1, ParaIs
    <2>4. p.id \notin IdsOf(s)
        <3>1. ids[k + 1] \notin IdsOf(base)
            BY <2>1 DEF Placeable
        <3>2. \A l \in 1 .. k : l \in 1 .. Len(new) /\ l # k + 1
            BY <1>1, <2>1
        <3>3. \A l \in 1 .. k : ids[l] # ids[k + 1]
            BY <2>1, <3>2 DEF Placeable
        <3> QED BY <2>1, <2>3, <3>1, <3>3 DEF Grown
    <2> DEFINE t == r[k + 1]
               m == At(s, a)
    <2> HIDE DEF s, p
    <2>5. /\ m \in 0 .. Len(s) /\ IsChapter(t) /\ Len(s) \in Nat /\ Len(t) = Len(s) + 1
          /\ \A j \in 1 .. Len(s) + 1 :
               t[j] = IF j <= m THEN s[j] ELSE IF j = m + 1 THEN p ELSE s[j - 1]
          /\ IdsOf(t) = IdsOf(s) \cup {p.id}
        <3>1. IsChapter(s)
            BY <2>1 DEF Grown
        <3> QED BY <2>2, <2>3, <2>4, <3>1, InsertedIs
    <2> HIDE DEF t, m
    <2>6. IdsOf(t) = IdsOf(base) \cup {ids[l] : l \in 1 .. k + 1}
        <3>1. IdsOf(s) = IdsOf(base) \cup {ids[l] : l \in 1 .. k}
            BY <2>1 DEF Grown
        <3>2. 1 .. k + 1 = (1 .. k) \cup {k + 1}
            OBVIOUS
        <3> QED BY <2>3, <2>5, <3>1, <3>2
    <2>7. ASSUME NEW j \in 1 .. Len(s)
          PROVE  t[IF j <= m THEN j ELSE j + 1] = s[j]
        <3>1. CASE j <= m
            BY <2>5, <3>1
        <3>2. CASE ~(j <= m)
            <4>1. j + 1 \in 1 .. Len(s) + 1 /\ ~(j + 1 <= m) /\ j + 1 # m + 1 /\ (j + 1) - 1 = j
                BY <2>5, <3>2
            <4> QED BY <2>5, <3>2, <4>1
        <3> QED BY <3>1, <3>2
    <2>8. ASSUME NEW l \in 1 .. k + 1
          PROVE  \E j \in 1 .. Len(t) : t[j] = Para(new, ids, l)
        <3>1. CASE l = k + 1
            <4>1. m + 1 \in 1 .. Len(s) + 1 /\ ~(m + 1 <= m)
                BY <2>5
            <4> QED BY <2>5, <3>1, <4>1 DEF p
        <3>2. CASE l # k + 1
            <4>1. l \in 1 .. k
                BY <3>2
            <4>2. PICK j \in 1 .. Len(s) : s[j] = Para(new, ids, l)
                BY <2>1, <4>1 DEF Grown
            <4>3. (IF j <= m THEN j ELSE j + 1) \in 1 .. Len(t)
                BY <2>5
            <4> QED BY <2>7, <4>2, <4>3
        <3> QED BY <3>1, <3>2
    <2>9. \E h : Spread(base, t, h)
        <3>1. PICK g : Spread(base, s, g)
            BY <2>1 DEF Grown
        <3> DEFINE h == [i \in 1 .. Len(base) |-> IF g[i] <= m THEN g[i] ELSE g[i] + 1]
        <3>2. \A i \in 1 .. Len(base) : g[i] \in 1 .. Len(s) /\ s[g[i]] = base[i]
            BY <3>1 DEF Spread
        <3>3. ASSUME NEW i \in 1 .. Len(base)
              PROVE  h[i] \in 1 .. Len(t) /\ t[h[i]] = base[i]
            <4>1. h[i] \in 1 .. Len(t)
                BY <2>5, <3>2
            <4> QED BY <2>7, <3>2, <4>1
        <3>4. ASSUME NEW i \in 1 .. Len(base), NEW j \in 1 .. Len(base), i < j
              PROVE  h[i] < h[j]
            <4>1. g[i] < g[j] /\ g[i] \in Int /\ g[j] \in Int /\ m \in Int
                BY <2>5, <3>1, <3>2, <3>4 DEF Spread
            <4> QED BY <4>1
        <3> HIDE DEF h
        <3>5. Spread(base, t, h)
            BY <3>3, <3>4 DEF Spread
        <3> QED BY <3>5
    <2>10. Grown(base, new, ids, t, k + 1)
        BY <2>5, <2>6, <2>8, <2>9 DEF Grown
    <2> QED BY <2>10 DEF t
<1>4. Nat \subseteq S
    <2> HIDE DEF S
    <2> QED BY <1>2, <1>3, SetInduction
<1>5. \A k \in Nat : k <= n => Grown(base, new, ids, r[k], k)
    BY <1>4
<1>6. \A k \in 0 .. n : k \in Nat /\ k <= n
    BY <1>1
<1> HIDE DEF n, S
<1> QED BY <1>5, <1>6 DEF n

Drawn(ids, B, P) ==
    /\ ids \in Seq(Ids) /\ Len(ids) = Len(New(B, P))
    /\ \A k \in 1 .. Len(ids) : /\ ids[k] \notin IdsOf(P)
                               /\ \A l \in 1 .. Len(ids) : ids[l] = ids[k] => l = k

LEMMA CanPlace ==
    ASSUME NEW B, IsFile(B), NEW P, IsChapter(P), NEW ids, Drawn(ids, B, P)
    PROVE  /\ Placeable(Base(B, P), New(B, P), ids)
           /\ IdsOf(Base(B, P)) = IdsOf(P) \cap IdsOf(B)
           /\ \E r : Placing(Base(B, P), New(B, P), ids, r)
           /\ Rebuilt(B, P, ids) = Placed(Base(B, P), New(B, P), ids)
<1> DEFINE R == Base(B, P)
           N == New(B, P)
           K == Stays(B, P)
<1>0. B \in Seq(Blocks) /\ P \in Seq(Blocks) /\ Len(P) \in Nat /\ DOMAIN P = 1 .. Len(P)
    BY BlockIs DEF IsFile, IsChapter
<1>1. IsChapter(R) /\ Len(R) = Cardinality(K) /\ \A k \in 1 .. Len(R) : Nth(K, k) \in K /\ R[k].id = P[Nth(K, k)].id
    BY <1>0, BaseIs
<1>2. N \in Seq(News) /\ \A k \in 1 .. Len(N) : N[k].text # << >>
    BY NewIs
<1>3. K \in SUBSET (0 .. Len(P)) /\ \A i \in K : i \in 1 .. Len(P) /\ P[i].id \in IdsOf(B)
    BY <1>0 DEF Stays
<1>4. \A i \in 1 .. Len(P) : P[i].id \in IdsOf(B) => i \in K
    BY DEF Stays
<1>5. IdsOf(R) = {R[k].id : k \in 1 .. Len(R)} /\ IdsOf(P) = {P[k].id : k \in 1 .. Len(P)}
    <2>1. \A s : IsChapter(s) => IdsOf(s) = {s[k].id : k \in 1 .. Len(s)}
        <3> SUFFICES ASSUME NEW s, IsChapter(s) PROVE IdsOf(s) = {s[k].id : k \in 1 .. Len(s)}
            OBVIOUS
        <3>1. DOMAIN s = 1 .. Len(s) /\ \A i \in 1 .. Len(s) : s[i].id # NoId
            BY BlockIs DEF IsChapter, Distinct
        <3> QED BY <3>1 DEF IdsOf
    <2> HIDE DEF R
    <2> QED BY <1>1, <2>1
<1> HIDE DEF R, N, K
<1>6. IdsOf(R) = IdsOf(P) \cap IdsOf(B)
    <2>1. \A x \in IdsOf(R) : x \in IdsOf(P) \cap IdsOf(B)
        BY <1>1, <1>3, <1>5
    <2>2. ASSUME NEW x \in IdsOf(P) \cap IdsOf(B)
          PROVE  x \in IdsOf(R)
        <3>1. PICK i \in 1 .. Len(P) : P[i].id = x
            BY <1>5
        <3>2. PICK k \in 1 .. Cardinality(K) : Nth(K, k) = i
            BY <1>0, <1>3, <1>4, <3>1, NthOf
        <3> QED BY <1>1, <1>5, <3>1, <3>2
    <2> QED BY <2>1, <2>2
<1>7. Placeable(R, N, ids)
    BY <1>1, <1>2, <1>6 DEF Placeable, Drawn, N
<1> QED BY <1>2, <1>6, <1>7, PlacedIs DEF R, N, Rebuilt, Base

\* Whatever was typed into the file, the chapter rebuilt is a chapter: the
\* paragraphs that stay, in their order, and the new ones.
LEMMA RebuiltKeeps ==
    ASSUME NEW B, IsFile(B), NEW P, IsChapter(P), NEW ids, Drawn(ids, B, P)
    PROVE  /\ IsChapter(Rebuilt(B, P, ids))
           /\ IdsOf(Rebuilt(B, P, ids)) = (IdsOf(P) \cap IdsOf(B)) \cup {ids[k] : k \in 1 .. Len(ids)}
           /\ \A j \in 1 .. Len(Rebuilt(B, P, ids)) :
                Rebuilt(B, P, ids)[j].id \in IdsOf(P) \ IdsOf(Changed(B, P)) =>
                  Rebuilt(B, P, ids)[j] = P[At(P, Rebuilt(B, P, ids)[j].id)]
           /\ IdList(Kept(Rebuilt(B, P, ids), IdsOf(P))) = IdList(Kept(P, IdsOf(B)))
<1> DEFINE R == Base(B, P)
           F == Rebuilt(B, P, ids)
           K == Stays(B, P)
<1>0. B \in Seq(Blocks) /\ P \in Seq(Blocks) /\ Len(P) \in Nat /\ DOMAIN P = 1 .. Len(P)
      /\ Len(ids) = Len(New(B, P)) /\ Len(New(B, P)) \in Nat
    BY NewIs, BlockIs DEF IsFile, IsChapter, Drawn
<1>1. Placeable(R, New(B, P), ids) /\ IdsOf(R) = IdsOf(P) \cap IdsOf(B) /\ F = Placed(R, New(B, P), ids)
    BY CanPlace
<1>2. Grown(R, New(B, P), ids, F, Len(ids))
    <2>1. PICK r : Placing(R, New(B, P), ids, r)
        BY CanPlace
    <2>2. r[Len(ids)] = F /\ Len(ids) \in 0 .. Len(New(B, P))
        BY <1>0, <1>1, <2>1 DEF Placing
    <2> HIDE DEF R, F
    <2> QED BY <1>1, <2>1, <2>2, Growing
<1>3. /\ IsChapter(R) /\ Len(R) = Cardinality(K)
      /\ \A k \in 1 .. Len(R) :
           /\ Nth(K, k) \in K /\ R[k].id = P[Nth(K, k)].id
           /\ R[k].id \notin IdsOf(Changed(B, P)) => R[k] = P[Nth(K, k)]
    BY <1>0, BaseIs
<1>4. /\ IsChapter(F) /\ IdsOf(F) = IdsOf(R) \cup {ids[k] : k \in 1 .. Len(ids)}
    <2> HIDE DEF F, R
    <2> QED BY <1>2 DEF Grown
<1>5. PICK g : Spread(R, F, g)
    <2> HIDE DEF F, R
    <2> QED BY <1>2 DEF Grown
<1>6. \A i \in K : i \in 1 .. Len(P)
    BY DEF Stays
<1> HIDE DEF R, F
<1>6a. \A k \in 1 .. Len(ids) : ids[k] \notin IdsOf(P)
    BY DEF Drawn
<1>7. ASSUME NEW j \in 1 .. Len(F), F[j].id \in IdsOf(P)
      PROVE  \E i \in 1 .. Len(R) : g[i] = j
    <2>1. F[j].id \in IdsOf(R)
        BY <1>4, <1>6a, <1>7, InChapter
    <2>2. PICK i \in 1 .. Len(R) : R[i].id = F[j].id
        BY <1>3, <2>1, InChapter
    <2>3. g[i] \in 1 .. Len(F) /\ F[g[i]].id = F[j].id
        BY <1>5, <2>2 DEF Spread
    <2> QED BY <1>4, <2>3, InChapter
<1>8. ASSUME NEW j \in 1 .. Len(F), F[j].id \in IdsOf(P) \ IdsOf(Changed(B, P))
      PROVE  F[j] = P[At(P, F[j].id)]
    <2>1. PICK i \in 1 .. Len(R) : g[i] = j
        BY <1>7, <1>8
    <2>2. F[j] = R[i]
        BY <1>5, <2>1 DEF Spread
    <2>3. PICK k \in 1 .. Len(P) : k = Nth(K, i) /\ R[i] = P[k]
        BY <1>3, <1>6, <1>8, <2>2
    <2> QED BY <2>2, <2>3, InChapter
<1>9. IdList(Kept(F, IdsOf(P))) = [k \in 1 .. Len(R) |-> R[k].id]
    <2> DEFINE Q == {j \in 1 .. Len(F) : F[j].id \in IdsOf(P)}
    <2>1. F \in Seq(Blocks) /\ Len(F) \in Nat /\ DOMAIN F = 1 .. Len(F) /\ Q \in SUBSET (0 .. Len(F))
        BY <1>4, BlockIs DEF IsChapter
    <2>2. \A i \in 1 .. Len(R) : g[i] \in Q
        <3>1. \A i \in 1 .. Len(R) : R[i].id \in IdsOf(R)
            BY <1>3, InChapter
        <3> QED BY <1>1, <1>5, <3>1 DEF Spread
    <2>3. \A j \in Q : \E i \in 1 .. Len(R) : g[i] = j
        BY <1>7
    <2>4. \A i, j \in 1 .. Len(R) : i < j => g[i] < g[j]
        BY <1>5 DEF Spread
    <2>5. Len(R) \in Nat
        BY <1>3, BlockIs DEF IsChapter
    <2>6. Kept(F, IdsOf(P)) = Part(F, Q)
        BY <2>1 DEF Kept
    <2> HIDE DEF Q
    <2>7. Len(R) = Cardinality(Q) /\ \A i \in 1 .. Len(R) : g[i] = Nth(Q, i)
        <3>1. Counts(g, Len(R), Q)
            BY <2>2, <2>3, <2>4 DEF Counts
        <3> QED BY <2>1, <2>5, <3>1, Counted
    <2>8. Part(F, Q) = [k \in 1 .. Len(R) |-> F[g[k]]]
        BY <2>7 DEF Part
    <2>9. \A k \in 1 .. Len(R) : F[g[k]] = R[k]
        BY <1>5 DEF Spread
    <2> QED BY <2>6, <2>8, <2>9 DEF IdList
<1>10. IdList(Kept(P, IdsOf(B))) = [k \in 1 .. Len(R) |-> R[k].id]
    <2>1. Kept(P, IdsOf(B)) = [k \in 1 .. Len(R) |-> P[Nth(K, k)]]
        BY <1>0, <1>3 DEF Kept, Part, Stays
    <2> QED BY <1>3, <2>1 DEF IdList
<1> QED BY <1>1, <1>4, <1>8, <1>9, <1>10 DEF F

-----------------------------------------------------------------------------
(* The words of an ordinary file.  f says which spoken block each paragraph *)
(* of the chapter reads like: all the known ones and the first k new ones. *)
-----------------------------------------------------------------------------
InFileOrder(S, P) ==
    /\ \A i, j \in 1 .. Len(S) : i # j => S[i].id # S[j].id \/ S[i].id = NoId
    /\ \A i, j \in 1 .. Len(S) :
         i < j /\ S[i].id \in IdsOf(P) /\ S[j].id \in IdsOf(P) => At(P, S[i].id) < At(P, S[j].id)

Reads(S, P, ids, t, f, k) ==
    /\ \A i \in 1 .. Len(t) :
         /\ f[i] \in 1 .. Len(S) /\ t[i].text = S[f[i]].text /\ t[i].quote = S[f[i]].quote
         /\ f[i] \in Unknown(S, P) => \E l \in 1 .. k : f[i] = Nth(Unknown(S, P), l)
         /\ f[i] \notin Unknown(S, P) => t[i].id = S[f[i]].id
    /\ \A i, j \in 1 .. Len(t) : i < j => f[i] < f[j]
    /\ \A l \in 1 .. k : \E i \in 1 .. Len(t) : f[i] = Nth(Unknown(S, P), l) /\ t[i].id = ids[l]
    /\ \A x \in 1 .. Len(S) : x \notin Unknown(S, P) => \E i \in 1 .. Len(t) : f[i] = x

LEMMA OrdinaryIs ==
    ASSUME NEW B \in Seq(Blocks), NEW P, IsChapter(P), Ordinary(B, P)
    PROVE  /\ InFileOrder(Spoken(B), P)
           /\ \A j \in 1 .. Len(B) : B[j].id \in IdsOf(P) =>
                \E x \in 1 .. Len(Spoken(B)) : Spoken(B)[x] = B[j]
           /\ \A x \in 1 .. Len(Spoken(B)) : \E j \in 1 .. Len(B) : Spoken(B)[x] = B[j] /\ B[j].text # << >>
           /\ \A i, j \in 1 .. Len(B) : B[i].id = B[j].id /\ B[i].id \in IdsOf(P) => i = j
<1> DEFINE S == Spoken(B)
           T == Speaking(B)
<1>1. DOMAIN B = 1 .. Len(B) /\ Len(B) \in Nat /\ NoId \notin IdsOf(P)
    BY BlockIs DEF IdsOf
<1>2. /\ S \in Seq(Blocks) /\ HasText(S) /\ Len(S) \in Nat
      /\ \A k \in 1 .. Len(S) : Nth(T, k) \in 1 .. Len(B) /\ S[k] = B[Nth(T, k)]
      /\ \A k, l \in 1 .. Len(S) : k < l => Nth(T, k) < Nth(T, l)
      /\ \A i \in 1 .. Len(B) : B[i].text # << >> => \E k \in 1 .. Len(S) : Nth(T, k) = i
    BY SpokenIs
<1>3. \A i, j \in 1 .. Len(B) : i # j => B[i].id # B[j].id \/ B[i].id = NoId
    BY <1>1 DEF Ordinary
<1>4. \A i \in 1 .. Len(B) : B[i].id \in IdsOf(P) => B[i].text # << >>
    BY <1>1 DEF Ordinary
<1>5. \A i, j \in 1 .. Len(B) :
        i < j /\ B[i].id \in IdsOf(P) /\ B[j].id \in IdsOf(P) => At(P, B[i].id) < At(P, B[j].id)
    BY <1>1 DEF Ordinary
<1>5a. DOMAIN S = 1 .. Len(S)
    BY <1>2, BlockIs
<1> HIDE DEF S, T
<1>6. ASSUME NEW i \in 1 .. Len(S), NEW j \in 1 .. Len(S), i # j
      PROVE  S[i].id # S[j].id \/ S[i].id = NoId
    <2>1. Nth(T, i) # Nth(T, j)
        <3>1. i < j \/ j < i
            BY <1>2, <1>6
        <3>2. Nth(T, i) \in Int /\ Nth(T, j) \in Int
            BY <1>2
        <3> QED BY <1>2, <3>1, <3>2
    <2> QED BY <1>2, <1>3, <2>1
<1>7. InFileOrder(S, P)
    BY <1>2, <1>5, <1>6 DEF InFileOrder
<1>8. \A x \in 1 .. Len(S) : \E j \in 1 .. Len(B) : S[x] = B[j] /\ B[j].text # << >>
    BY <1>2, <1>5a DEF HasText
<1>9. \A j \in 1 .. Len(B) : B[j].id \in IdsOf(P) => \E x \in 1 .. Len(S) : S[x] = B[j]
    BY <1>2, <1>4
<1> QED BY <1>1, <1>3, <1>7, <1>8, <1>9 DEF S

\* A new paragraph goes in just where its block is.
LEMMA Spot ==
    ASSUME NEW S \in Seq(Blocks), NEW P, InFileOrder(S, P), NEW N, NEW ids, NEW s, IsChapter(s), NEW f, NEW k \in Nat,
           Reads(S, P, ids, s, f, k), k + 1 \in 1 .. Cardinality(Unknown(S, P)),
           \A l \in 1 .. k + 1 : N[l].after = Anchor(S, Nth(Unknown(S, P), l), P),
           NEW i \in 1 .. Len(s)
    PROVE  LET a == IF Consecutive(N, k + 1) THEN ids[k] ELSE N[k + 1].after IN
           /\ i <= At(s, a) => f[i] < Nth(Unknown(S, P), k + 1)
           /\ i > At(s, a)  => f[i] > Nth(Unknown(S, P), k + 1)
<1> DEFINE U == Unknown(S, P)
           u == Nth(U, k + 1)
           v == Nth(U, k)
           a == IF Consecutive(N, k + 1) THEN ids[k] ELSE N[k + 1].after
           q == At(s, a)
<1>0. Len(S) \in Nat /\ NoId \notin IdsOf(P) /\ U \in SUBSET (0 .. Len(S)) /\ Len(s) \in Nat
      /\ \A x \in U : x \in 1 .. Len(S) /\ S[x].id \notin IdsOf(P)
    BY BlockIs DEF IdsOf, Unknown, IsChapter
<1>1. \A x \in 1 .. Len(S) : x \notin U => S[x].id \in IdsOf(P)
    BY DEF Unknown
<1>2. /\ Cardinality(U) \in Nat /\ \A l \in 1 .. Cardinality(U) : Nth(U, l) \in U
      /\ \A l, m \in 1 .. Cardinality(U) : l < m => Nth(U, l) < Nth(U, m)
    BY <1>0, NthOf
<1>2a. k + 1 \in 1 .. Cardinality(U)
    OBVIOUS
<1> HIDE DEF U
<1>3. u \in U /\ u \in 1 .. Len(S) /\ u \in Int /\ k + 1 <= Cardinality(U)
    <2>1. u \in U
        BY <1>2, <1>2a
    <2>2. u \in 1 .. Len(S)
        BY <1>0, <2>1
    <2> QED BY <1>2, <1>2a, <2>1, <2>2
<1>3a. ASSUME 1 <= k
       PROVE  v \in U /\ v \in 1 .. Len(S) /\ v < u /\ v \in Int
    <2>1. k \in 1 .. Cardinality(U) /\ k < k + 1
        BY <1>2, <1>3, <1>3a
    <2>2. v \in U /\ v < u
        BY <1>2, <1>2a, <2>1
    <2>3. v \in 1 .. Len(S)
        BY <1>0, <2>2
    <2> QED BY <2>2, <2>3
<1>4. /\ f[i] \in 1 .. Len(S) /\ f[i] \in Int
      /\ f[i] \in U => \E l \in 1 .. k : f[i] = Nth(U, l)
      /\ f[i] \notin U => s[i].id = S[f[i]].id
      /\ \A j \in 1 .. Len(s) : (i < j => f[i] < f[j]) /\ (j < i => f[j] < f[i]) /\ f[j] \in Int
    <2>1. \A j \in 1 .. Len(s) : f[j] \in 1 .. Len(S)
        BY DEF Reads
    <2> QED BY <2>1 DEF Reads, U
<1>5. ASSUME f[i] \in U
      PROVE  f[i] < u /\ 1 <= k /\ v \in U /\ v \in 1 .. Len(S) /\ f[i] <= v /\ v < u
    <2>1. PICK l \in 1 .. k : f[i] = Nth(U, l)
        BY <1>4, <1>5
    <2>2. 1 <= k /\ k \in 1 .. Cardinality(U) /\ k + 1 \in 1 .. Cardinality(U) /\ l \in 1 .. Cardinality(U)
        BY <1>2, <1>3, <2>1
    <2>3. v \in U /\ v < u /\ v \in 1 .. Len(S)
        BY <1>3a, <2>2
    <2>4. l = k \/ l < k
        BY <2>1
    <2>5. f[i] = v \/ f[i] < v
        BY <1>2, <2>1, <2>2, <2>4
    <2>6. v \in Int
        BY <2>3
    <2> HIDE DEF u, v
    <2> QED BY <1>3, <1>4, <2>2, <2>3, <2>5, <2>6
<1>6. ASSUME f[i] \notin U
      PROVE  f[i] # u /\ S[f[i]].id \in IdsOf(P) /\ (f[i] < u => f[i] \in Before(S, u, P))
    BY <1>1, <1>3, <1>4, <1>6 DEF Before
<1>7. N[k + 1].after = Anchor(S, u, P)
    BY DEF U
<1>8. 1 <= k => N[k].after = Anchor(S, v, P)
    BY DEF U
<1>9. k + 1 > 1 <=> 1 <= k
    OBVIOUS
<1>10. (k + 1) - 1 = k
    OBVIOUS
<1>11. \A x \in Before(S, u, P) : x \in 1 .. Len(S) /\ x < u /\ x \in Int /\ S[x].id \in IdsOf(P)
    BY <1>0, <1>3 DEF Before
<1> HIDE DEF u, v
<1>12. CASE Consecutive(N, k + 1)
    <2>1. 1 <= k /\ Anchor(S, u, P) = Anchor(S, v, P) /\ a = ids[k]
        BY <1>7, <1>8, <1>9, <1>10, <1>12 DEF Consecutive
    <2>2. v \in U /\ v \in 1 .. Len(S) /\ v < u /\ v \in Int
        BY <1>3a, <2>1
    <2>3. PICK j \in 1 .. Len(s) : f[j] = v /\ s[j].id = ids[k]
        BY <2>1 DEF Reads, U, v
    <2>4. q = j
        BY <2>1, <2>3, InChapter
    <2>5. CASE i <= q
        <3>1. f[i] <= v
            BY <1>4, <2>2, <2>3, <2>4, <2>5
        <3>2. f[i] < u
            BY <1>3, <1>4, <2>2, <3>1
        <3> HIDE DEF a, q
        <3> QED BY <1>0, <2>4, <2>5, <3>2 DEF a, q, u, U
    <2>6. CASE i > q
        <3>1. f[i] > v
            BY <1>0, <1>4, <2>2, <2>3, <2>4, <2>6
        <3>2. f[i] \notin U
            BY <1>4, <1>5, <2>2, <3>1
        <3>3. ~(f[i] < u)
            <4> SUFFICES ASSUME f[i] < u PROVE FALSE
                OBVIOUS
            <4>1. f[i] \in Before(S, u, P)
                BY <1>6, <3>2
            <4>2. PICK x \in Before(S, u, P) : Anchor(S, u, P) = S[x].id /\ \A l \in Before(S, u, P) : l <= x
                BY <1>3, <4>1, AnchorIs
            <4>3. x > v
                BY <1>4, <1>11, <2>2, <3>1, <4>1, <4>2
            <4>4. Before(S, v, P) # {}
                BY ZenonT(30), <1>0, <1>11, <2>1, <2>2, <4>2, AnchorIs
            <4>5. PICK y \in Before(S, v, P) : Anchor(S, v, P) = S[y].id
                BY <2>2, <4>4, AnchorIs
            <4>6. y \in 1 .. Len(S) /\ y < v /\ y \in Int
                BY <1>0, <2>2, <4>5 DEF Before
            <4>7. S[x].id = S[y].id /\ x # y /\ S[x].id # NoId /\ x \in 1 .. Len(S)
                <5>1. x \in 1 .. Len(S) /\ x \in Int /\ S[x].id \in IdsOf(P)
                    BY <1>11, <4>2
                <5>2. S[x].id = S[y].id
                    BY <2>1, <4>2, <4>5
                <5>3. x # y
                    BY <2>2, <4>3, <4>6, <5>1
                <5> QED BY <1>0, <5>1, <5>2, <5>3
            <4> QED BY <4>6, <4>7 DEF InFileOrder
        <3>4. f[i] > u
            BY <1>3, <1>4, <1>6, <3>2, <3>3
        <3> QED BY <1>0, <2>4, <2>6, <3>4 DEF u, U
    <2> QED BY <1>0, <2>4, <2>5, <2>6
<1>13. CASE ~Consecutive(N, k + 1)
    <2>1. a = Anchor(S, u, P) /\ (1 <= k => Anchor(S, v, P) # Anchor(S, u, P))
        BY <1>7, <1>8, <1>9, <1>10, <1>13 DEF Consecutive
    <2>2. f[i] \in U => Before(S, v, P) \subseteq Before(S, u, P)
        BY <1>3, <1>5, <1>0 DEF Before
    <2>3. CASE Before(S, u, P) = {}
        <3>1. a = NoId
            BY <1>3, <2>1, <2>3, AnchorIs
        <3>2. q = 0
            <4>1. NoId \notin IdsOf(s)
                BY DEF IdsOf
            <4> QED BY <3>1, <4>1, InChapter
        <3>3. f[i] \notin U
            <4> SUFFICES ASSUME f[i] \in U PROVE FALSE
                OBVIOUS
            <4>1. Before(S, v, P) = {} /\ v \in 1 .. Len(S) /\ 1 <= k
                BY <1>5, <2>2, <2>3
            <4>2. Anchor(S, v, P) = NoId
                BY <4>1, AnchorIs
            <4> QED BY <2>1, <3>1, <4>1, <4>2
        <3>4. f[i] > u
            BY <1>3, <1>4, <1>6, <2>3, <3>3
        <3> QED BY <3>2, <3>4 DEF u, U
    <2>4. CASE Before(S, u, P) # {}
        <3>1. PICK x \in Before(S, u, P) : Anchor(S, u, P) = S[x].id /\ \A l \in Before(S, u, P) : l <= x
            BY <1>3, <2>4, AnchorIs
        <3>2. x \in 1 .. Len(S) /\ x < u /\ x \in Int /\ x \notin U
            BY <1>0, <1>11
        <3>3. PICK j \in 1 .. Len(s) : f[j] = x
            BY <3>2 DEF Reads, U
        <3>4. s[j].id = S[x].id
            BY <3>2, <3>3 DEF Reads, U
        <3>5. q = j
            BY <2>1, <3>1, <3>4, InChapter
        <3>6. CASE i <= q
            <4>1. f[i] <= x
                BY <1>4, <3>2, <3>3, <3>5, <3>6
            <4>2. f[i] < u
                BY <1>3, <1>4, <3>2, <4>1
            <4> QED BY <1>0, <3>5, <3>6, <4>2 DEF u, U
        <3>7. CASE i > q
            <4>1. f[i] > x
                BY <1>0, <1>4, <3>2, <3>3, <3>5, <3>7
            <4>2. f[i] \notin U
                <5> SUFFICES ASSUME f[i] \in U PROVE FALSE
                    OBVIOUS
                <5>1. 1 <= k /\ v \in 1 .. Len(S) /\ v > x /\ v \in Int
                    BY <1>4, <1>5, <3>2, <4>1
                <5>2. x \in Before(S, v, P)
                    BY <1>11, <3>2, <5>1 DEF Before
                <5>3. PICK y \in Before(S, v, P) : Anchor(S, v, P) = S[y].id /\ \A l \in Before(S, v, P) : l <= y
                    BY <5>1, <5>2, AnchorIs
                <5>4. y \in Before(S, u, P)
                    BY <2>2, <5>3
                <5>5. y <= x /\ x <= y /\ y \in Int
                    BY <1>11, <3>1, <5>2, <5>3, <5>4
                <5>6. y = x
                    BY <3>2, <5>5
                <5> QED BY <2>1, <3>1, <5>1, <5>3, <5>6
            <4>3. ~(f[i] < u)
                BY <1>4, <1>6, <1>11, <3>1, <3>2, <4>1, <4>2
            <4>4. f[i] > u
                BY <1>3, <1>4, <1>6, <4>2, <4>3
            <4> QED BY <1>0, <3>5, <3>7, <4>4 DEF u, U
        <3> QED BY <1>0, <3>5, <3>6, <3>7
    <2> QED BY <2>3, <2>4
<1> QED BY <1>12, <1>13

LEMMA BaseReads ==
    ASSUME NEW B, IsFile(B), NEW P, IsChapter(P), Ordinary(B, P), NEW ids
    PROVE  \E f : Reads(Spoken(B), P, ids, Base(B, P), f, 0)
<1> DEFINE S == Spoken(B)
           R == Base(B, P)
           K == Stays(B, P)
           C == IdsOf(Changed(B, P))
<1>0. B \in Seq(Blocks) /\ P \in Seq(Blocks) /\ Len(P) \in Nat /\ DOMAIN B = 1 .. Len(B) /\ NoId \notin IdsOf(P)
    BY BlockIs DEF IsFile, IsChapter, IdsOf
<1>1. /\ IsChapter(R) /\ Len(R) = Cardinality(K)
      /\ \A k \in 1 .. Len(R) :
           /\ Nth(K, k) \in K /\ R[k].id = P[Nth(K, k)].id
           /\ R[k].id \notin C => R[k] = P[Nth(K, k)]
           /\ R[k].id \in C => \E i \in 1 .. Len(B) : R[k] = B[i]
    BY <1>0, BaseIs
<1>2. /\ InFileOrder(S, P)
      /\ \A j \in 1 .. Len(B) : B[j].id \in IdsOf(P) => \E x \in 1 .. Len(S) : S[x] = B[j]
      /\ \A x \in 1 .. Len(S) : \E j \in 1 .. Len(B) : S[x] = B[j] /\ B[j].text # << >>
      /\ \A i, j \in 1 .. Len(B) : B[i].id = B[j].id /\ B[i].id \in IdsOf(P) => i = j
    BY <1>0, OrdinaryIs
<1>3. K \in SUBSET (0 .. Len(P)) /\ \A i \in K : i \in 1 .. Len(P) /\ P[i].id \in IdsOf(B)
    BY <1>0 DEF Stays
<1>3a. \A i \in 1 .. Len(P) : P[i].id \in IdsOf(B) => i \in K
    BY DEF Stays
<1>3b. \A id \in IdsOf(B) : \E j \in 1 .. Len(B) : B[j].id = id
    BY <1>0 DEF IdsOf
<1>3c. \A j \in 1 .. Len(B) : B[j].id \in IdsOf(P) => B[j].id \in IdsOf(B)
    BY <1>0 DEF IdsOf
<1>4. \A i \in 1 .. Len(B) :
        B[i].text # << >> /\ B[i].id \in IdsOf(P) \ C =>
          B[i].text = P[At(P, B[i].id)].text /\ B[i].quote = P[At(P, B[i].id)].quote
    BY <1>0, ChangedIs
<1>5. /\ \A k \in 1 .. Cardinality(K) : Nth(K, k) \in K
      /\ \A k, l \in 1 .. Cardinality(K) : k < l => Nth(K, k) < Nth(K, l)
      /\ \A i \in K : \E k \in 1 .. Cardinality(K) : Nth(K, k) = i
    BY <1>0, <1>3, NthOf
<1>5a. Len(R) \in Nat /\ Len(S) \in Nat
    BY <1>0, <1>1, SpokenIs, BlockIs DEF IsChapter
<1> HIDE DEF S, R, K, C
<1> DEFINE f == [i \in 1 .. Len(R) |-> CHOOSE x \in 1 .. Len(S) : S[x].id = R[i].id]
<1>6. ASSUME NEW i \in 1 .. Len(R)
      PROVE  /\ f[i] \in 1 .. Len(S) /\ S[f[i]].id = R[i].id /\ R[i].id \in IdsOf(P)
             /\ At(P, R[i].id) = Nth(K, i) /\ S[f[i]].text = R[i].text /\ S[f[i]].quote = R[i].quote
    <2>1. PICK p \in 1 .. Len(P) : p = Nth(K, i) /\ P[p].id \in IdsOf(B) /\ R[i].id = P[p].id
        BY <1>1, <1>3
    <2>2. R[i].id \in IdsOf(P) /\ At(P, R[i].id) = p
        BY <2>1, InChapter
    <2>3. PICK j \in 1 .. Len(B) : B[j].id = R[i].id
        BY <1>3b, <2>1
    <2>4. \E x \in 1 .. Len(S) : S[x].id = R[i].id
        BY <1>2, <2>2, <2>3
    <2>5. f[i] \in 1 .. Len(S) /\ S[f[i]].id = R[i].id
        BY <2>4
    <2> HIDE DEF f
    <2>6. PICK l \in 1 .. Len(B) : S[f[i]] = B[l] /\ B[l].text # << >>
        BY <1>2, <2>5
    <2>7. CASE R[i].id \in C
        <3>1. PICK m \in 1 .. Len(B) : R[i] = B[m]
            BY <1>1, <2>7
        <3>2. m = l
            BY <1>2, <2>2, <2>5, <2>6, <3>1
        <3> QED BY <2>1, <2>2, <2>5, <2>6, <3>1, <3>2
    <2>8. CASE R[i].id \notin C
        <3>1. R[i] = P[p]
            BY <1>1, <2>1, <2>8
        <3>2. B[l].text = P[p].text /\ B[l].quote = P[p].quote
            BY <1>4, <2>2, <2>5, <2>6, <2>8
        <3> QED BY <2>1, <2>2, <2>5, <2>6, <3>1, <3>2
    <2> QED BY <2>7, <2>8
<1> HIDE DEF f
<1>7. ASSUME NEW i \in 1 .. Len(R), NEW j \in 1 .. Len(R), i < j
      PROVE  f[i] < f[j]
    <2>1. /\ At(P, S[f[i]].id) < At(P, S[f[j]].id) /\ f[i] \in 1 .. Len(S) /\ f[j] \in 1 .. Len(S)
          /\ S[f[i]].id \in IdsOf(P) /\ S[f[j]].id \in IdsOf(P)
          /\ At(P, S[f[i]].id) \in Int /\ At(P, S[f[j]].id) \in Int
        <3>1. Nth(K, i) < Nth(K, j) /\ Nth(K, i) \in Int /\ Nth(K, j) \in Int
            <4>1. \A k \in K : k \in Int
                BY <1>3
            <4> QED BY <1>1, <1>5, <1>7, <4>1
        <3> QED BY <1>6, <3>1
    <2>2. f[i] # f[j]
        BY <2>1
    <2>3. ~(f[j] < f[i])
        <3> SUFFICES ASSUME f[j] < f[i] PROVE FALSE
            OBVIOUS
        <3>1. At(P, S[f[j]].id) < At(P, S[f[i]].id)
            BY <1>2, <2>1 DEF InFileOrder
        <3> QED BY <2>1, <3>1
    <2>4. f[i] \in Int /\ f[j] \in Int
        BY <2>1
    <2> QED BY <2>2, <2>3, <2>4
<1>8. \A i \in 1 .. Len(R) : f[i] \notin Unknown(S, P)
    BY <1>6 DEF Unknown
<1>9. ASSUME NEW x \in 1 .. Len(S), x \notin Unknown(S, P)
      PROVE  \E i \in 1 .. Len(R) : f[i] = x
    <2>1. S[x].id \in IdsOf(P)
        BY <1>9 DEF Unknown
    <2>2. S[x].id \in IdsOf(B)
        BY <1>2, <1>3c, <2>1
    <2>3. PICK p \in 1 .. Len(P) : P[p].id = S[x].id
        BY <2>1, InChapter
    <2>4. PICK i \in 1 .. Cardinality(K) : Nth(K, i) = p
        BY <1>3a, <1>5, <2>2, <2>3
    <2>5. i \in 1 .. Len(R) /\ R[i].id = S[x].id
        BY <1>1, <2>3, <2>4
    <2>6. S[f[i]].id = S[x].id /\ f[i] \in 1 .. Len(S) /\ S[x].id # NoId
        BY <1>0, <1>6, <2>1, <2>5
    <2>7. f[i] = x
        BY <1>2, <2>6 DEF InFileOrder
    <2> QED BY <2>5, <2>7
<1>10. Reads(S, P, ids, R, f, 0)
    <2>1. \A l \in 1 .. 0 : FALSE
        OBVIOUS
    <2>2. \A i \in 1 .. Len(R) : /\ f[i] \in 1 .. Len(S) /\ R[i].text = S[f[i]].text /\ R[i].quote = S[f[i]].quote
                                 /\ f[i] \notin Unknown(S, P) /\ R[i].id = S[f[i]].id
        BY <1>6, <1>8
    <2> QED BY <1>7, <1>9, <2>1, <2>2 DEF Reads
<1> QED BY <1>10 DEF S, R

LEMMA PlacedReads ==
    ASSUME NEW B, IsFile(B), NEW P, IsChapter(P), Ordinary(B, P), NEW ids, Drawn(ids, B, P)
    PROVE  \E f : Reads(Spoken(B), P, ids, Rebuilt(B, P, ids), f, Cardinality(Unknown(Spoken(B), P)))
<1> DEFINE S == Spoken(B)
           R == Base(B, P)
           N == New(B, P)
           U == Unknown(S, P)
           n == Len(N)
<1>0. B \in Seq(Blocks) /\ S \in Seq(Blocks) /\ Len(S) \in Nat
    BY SpokenIs DEF IsFile
<1>1. InFileOrder(S, P)
    BY <1>0, OrdinaryIs
<1>2. /\ n \in Nat /\ n = Cardinality(U)
      /\ \A k \in 1 .. n : /\ Nth(U, k) \in U
                            /\ N[k].text = S[Nth(U, k)].text /\ N[k].quote = S[Nth(U, k)].quote
                            /\ N[k].after = Anchor(S, Nth(U, k), P)
    BY NewIs
<1>2a. \A x \in U : x \in 1 .. Len(S)
    BY DEF Unknown
<1>3. Placeable(R, N, ids) /\ Rebuilt(B, P, ids) = Placed(R, N, ids)
    BY CanPlace
<1>4. PICK r : Placing(R, N, ids, r)
    BY CanPlace
<1>5. \E f : Reads(S, P, ids, R, f, 0)
    BY BaseReads
<1> HIDE DEF S, R, N, U, n
<1>6. \A k \in 0 .. n : Grown(R, N, ids, r[k], k)
    BY <1>3, <1>4, Growing DEF n
<1> DEFINE Z == {k \in Nat : k <= n => \E f : Reads(S, P, ids, r[k], f, k)}
<1>7. 0 \in Z
    <2>1. r[0] = R
        BY <1>4 DEF Placing
    <2> QED BY <1>5, <2>1
<1>8. ASSUME NEW k \in Nat, k \in Z
      PROVE  k + 1 \in Z
    <2> SUFFICES ASSUME k + 1 <= n PROVE \E f : Reads(S, P, ids, r[k + 1], f, k + 1)
        OBVIOUS
    <2> DEFINE s == r[k]
               t == r[k + 1]
               p == Para(N, ids, k + 1)
               u == Nth(U, k + 1)
               a == IF Consecutive(N, k + 1) THEN ids[k] ELSE N[k + 1].after
               m == At(s, a)
    <2>1. k + 1 \in 1 .. n /\ k \in 0 .. n /\ (k + 1) - 1 = k
        BY <1>2
    <2>2. PICK f : Reads(S, P, ids, s, f, k)
        BY <1>8, <2>1
    <2>3. t = Inserted(s, a, p)
        <3>1. k + 1 \in 1 .. Len(N)
            BY <2>1 DEF n
        <3> QED BY <1>4, <2>1, <3>1 DEF Placing, Para
    <2>4. p \in Blocks /\ p.id = ids[k + 1] /\ p.id # NoId /\ p.text # << >>
        <3>1. k + 1 \in 1 .. Len(N)
            BY <2>1 DEF n
        <3> HIDE DEF s, t, a
        <3> QED BY <1>3, <3>1, ParaIs
    <2>5. IsChapter(s) /\ IdsOf(s) = IdsOf(R) \cup {ids[l] : l \in 1 .. k}
        BY <1>6, <2>1 DEF Grown
    <2>6. p.id \notin IdsOf(s)
        <3>1. k + 1 \in 1 .. Len(N) /\ \A l \in 1 .. k : l \in 1 .. Len(N) /\ l # k + 1
            BY <1>2, <2>1 DEF n
        <3>2. ids[k + 1] \notin IdsOf(R)
            BY <1>3, <3>1 DEF Placeable
        <3>3. \A l \in 1 .. k : ids[l] # ids[k + 1]
            BY <1>3, <3>1 DEF Placeable
        <3> HIDE DEF p, s
        <3> QED BY <2>4, <2>5, <3>2, <3>3
    <2>7. u \in U /\ u \in 1 .. Len(S) /\ u \in Int /\ p.text = S[u].text /\ p.quote = S[u].quote
        BY <1>2, <1>2a, <2>1 DEF Para
    <2>8. ASSUME NEW i \in 1 .. Len(s)
          PROVE  (i <= m => f[i] < u) /\ (i > m => f[i] > u)
        <3>1. k + 1 \in 1 .. Cardinality(U)
            BY <1>2, <2>1
        <3>2. \A l \in 1 .. k + 1 : N[l].after = Anchor(S, Nth(U, l), P)
            <4>1. \A l \in 1 .. k + 1 : l \in 1 .. n
                BY <1>2, <2>1
            <4> QED BY <1>2, <4>1
        <3> HIDE DEF s
        <3> QED BY <1>0, <1>1, <2>2, <2>5, <3>1, <3>2, Spot DEF U
    <2> HIDE DEF s, t, p, u, a
    <2>9. /\ m \in 0 .. Len(s) /\ Len(s) \in Nat /\ Len(t) = Len(s) + 1
          /\ \A j \in 1 .. Len(s) + 1 :
               t[j] = IF j <= m THEN s[j] ELSE IF j = m + 1 THEN p ELSE s[j - 1]
        BY <2>3, <2>4, <2>5, <2>6, InsertedIs
    <2> HIDE DEF m
    <2> DEFINE h == [j \in 1 .. Len(s) + 1 |-> IF j <= m THEN f[j] ELSE IF j = m + 1 THEN u ELSE f[j - 1]]
    <2>10. ASSUME NEW j \in 1 .. Len(s) + 1
           PROVE  \/ j <= m /\ j \in 1 .. Len(s) /\ t[j] = s[j] /\ h[j] = f[j]
                  \/ j = m + 1 /\ t[j] = p /\ h[j] = u
                  \/ j > m + 1 /\ j - 1 \in 1 .. Len(s) /\ j - 1 > m /\ t[j] = s[j - 1] /\ h[j] = f[j - 1]
        BY <2>9
    <2>11. ASSUME NEW i \in 1 .. Len(s)
           PROVE  \E j \in 1 .. Len(s) + 1 : t[j] = s[i] /\ h[j] = f[i]
        <3>1. CASE i <= m
            BY <2>9, <3>1
        <3>2. CASE i > m
            <4>1. i + 1 \in 1 .. Len(s) + 1 /\ ~(i + 1 <= m) /\ i + 1 # m + 1 /\ (i + 1) - 1 = i
                BY <2>9, <3>2
            <4> QED BY <2>9, <4>1
        <3> QED BY <2>9, <3>1, <3>2
    <2>12. \E j \in 1 .. Len(s) + 1 : t[j] = p /\ h[j] = u
        <3>1. m + 1 \in 1 .. Len(s) + 1 /\ ~(m + 1 <= m)
            BY <2>9
        <3> QED BY <2>9, <3>1
    <2> HIDE DEF h
    <2>13. \A i \in 1 .. Len(s) :
             /\ f[i] \in 1 .. Len(S) /\ f[i] \in Int /\ s[i].text = S[f[i]].text /\ s[i].quote = S[f[i]].quote
             /\ f[i] \in U => \E l \in 1 .. k : f[i] = Nth(U, l)
             /\ f[i] \notin U => s[i].id = S[f[i]].id
        <3>1. \A i \in 1 .. Len(s) : f[i] \in 1 .. Len(S)
            BY <2>2 DEF Reads
        <3>2. \A x \in 1 .. Len(S) : x \in Int
            BY <1>0
        <3> QED BY <2>2, <3>1, <3>2 DEF Reads, U
    <2>14. \A l \in 1 .. k : l \in 1 .. k + 1
        OBVIOUS
    <2>15. ASSUME NEW j \in 1 .. Len(t)
           PROVE  /\ h[j] \in 1 .. Len(S) /\ t[j].text = S[h[j]].text /\ t[j].quote = S[h[j]].quote
                  /\ h[j] \in U => \E l \in 1 .. k + 1 : h[j] = Nth(U, l)
                  /\ h[j] \notin U => t[j].id = S[h[j]].id
        <3>1. j \in 1 .. Len(s) + 1 /\ k + 1 \in 1 .. k + 1
            BY <2>9
        <3>2. CASE j = m + 1
            <4>1. t[j] = p /\ h[j] = u
                BY <2>9, <2>10, <3>1, <3>2
            <4> QED BY <2>7, <3>1, <4>1 DEF u
        <3>3. CASE j # m + 1
            <4>1. PICK i \in 1 .. Len(s) : t[j] = s[i] /\ h[j] = f[i]
                BY <2>10, <3>1, <3>3
            <4> QED BY <2>13, <2>14, <4>1
        <3> QED BY <3>2, <3>3
    <2>16. ASSUME NEW i \in 1 .. Len(t), NEW j \in 1 .. Len(t), i < j
           PROVE  h[i] < h[j]
        <3>1. i \in 1 .. Len(s) + 1 /\ j \in 1 .. Len(s) + 1
            BY <2>9
        <3>2. \A x, y \in 1 .. Len(s) : x < y => f[x] < f[y]
            BY <2>2 DEF Reads
        <3>3. CASE j <= m
            <4>1. h[i] = f[i] /\ h[j] = f[j] /\ i \in 1 .. Len(s) /\ j \in 1 .. Len(s)
                BY <2>9, <2>10, <2>16, <3>1, <3>3
            <4> QED BY <2>16, <3>2, <4>1
        <3>4. CASE j = m + 1
            <4>1. h[i] = f[i] /\ h[j] = u /\ i \in 1 .. Len(s) /\ i <= m
                BY <2>9, <2>10, <2>16, <3>1, <3>4
            <4> QED BY <2>8, <4>1
        <3>5. CASE j > m + 1
            <4>1. h[j] = f[j - 1] /\ j - 1 \in 1 .. Len(s) /\ j - 1 > m
                BY <2>9, <2>10, <3>1, <3>5
            <4>2. CASE i <= m
                <5>1. h[i] = f[i] /\ i \in 1 .. Len(s) /\ i < j - 1
                    BY <2>9, <2>10, <3>1, <3>5, <4>2
                <5> QED BY <3>2, <4>1, <5>1
            <4>3. CASE i = m + 1
                <5>1. h[i] = u
                    BY <2>9, <2>10, <3>1, <4>3
                <5> QED BY <2>7, <2>8, <2>13, <4>1, <5>1
            <4>4. CASE i > m + 1
                <5>1. h[i] = f[i - 1] /\ i - 1 \in 1 .. Len(s) /\ i - 1 < j - 1
                    BY <2>9, <2>10, <2>16, <3>1, <4>4
                <5> QED BY <3>2, <4>1, <5>1
            <4> QED BY <2>9, <3>1, <4>2, <4>3, <4>4
        <3> QED BY <2>9, <3>1, <3>3, <3>4, <3>5
    <2>17. ASSUME NEW l \in 1 .. k + 1
           PROVE  \E j \in 1 .. Len(t) : h[j] = Nth(U, l) /\ t[j].id = ids[l]
        <3>1. CASE l = k + 1
            BY <2>4, <2>9, <2>12, <3>1 DEF u
        <3>2. CASE l # k + 1
            <4>1. l \in 1 .. k
                BY <3>2
            <4>2. PICK i \in 1 .. Len(s) : f[i] = Nth(U, l) /\ s[i].id = ids[l]
                BY <2>2, <4>1 DEF Reads, U
            <4> QED BY <2>9, <2>11, <4>2
        <3> QED BY <3>1, <3>2
    <2>18. ASSUME NEW x \in 1 .. Len(S), x \notin U
           PROVE  \E j \in 1 .. Len(t) : h[j] = x
        <3>1. PICK i \in 1 .. Len(s) : f[i] = x
            BY <2>2, <2>18 DEF Reads, U
        <3> QED BY <2>9, <2>11, <3>1
    <2>19. Reads(S, P, ids, t, h, k + 1)
        BY <2>15, <2>16, <2>17, <2>18 DEF Reads, U
    <2> QED BY <2>19 DEF t
<1>9. n \in Z
    <2> HIDE DEF Z
    <2> QED BY <1>2, <1>7, <1>8, SetInduction
<1>10. \E f : Reads(S, P, ids, r[n], f, n)
    BY <1>2, <1>9
<1>11. r[n] = Rebuilt(B, P, ids)
    BY <1>3, <1>4 DEF Placing, n
<1> QED BY <1>2, <1>10, <1>11 DEF S, U

\* The chapter rebuilt from an ordinary file reads like the file.
LEMMA RebuiltReads ==
    ASSUME NEW B, IsFile(B), NEW P, IsChapter(P), Ordinary(B, P), NEW ids, Drawn(ids, B, P)
    PROVE  Words(Rebuilt(B, P, ids)) = Words(Spoken(B))
<1> DEFINE S == Spoken(B)
           F == Rebuilt(B, P, ids)
           U == Unknown(S, P)
<1>0. S \in Seq(Blocks) /\ Len(S) \in Nat /\ DOMAIN S = 1 .. Len(S) /\ F \in Seq(Blocks) /\ Len(F) \in Nat /\ DOMAIN F = 1 .. Len(F)
    BY SpokenIs, BlockIs, RebuiltKeeps DEF IsFile, IsChapter
<1>1. PICK g : Reads(S, P, ids, F, g, Cardinality(U))
    BY PlacedReads
<1>2. U \in SUBSET (0 .. Len(S)) /\ 1 .. Len(S) \in SUBSET (0 .. Len(S))
    BY <1>0 DEF Unknown
<1> HIDE DEF S, F, U
<1>3. \A x \in U : \E l \in 1 .. Cardinality(U) : Nth(U, l) = x
    BY <1>0, <1>2, NthOf
<1>4. \A i \in 1 .. Len(F) : g[i] \in 1 .. Len(S) /\ F[i].text = S[g[i]].text /\ F[i].quote = S[g[i]].quote
    BY <1>1 DEF Reads
<1>5. \A i, j \in 1 .. Len(F) : i < j => g[i] < g[j]
    BY <1>1 DEF Reads
<1>6. \A x \in 1 .. Len(S) : \E i \in 1 .. Len(F) : g[i] = x
    <2> SUFFICES ASSUME NEW x \in 1 .. Len(S) PROVE \E i \in 1 .. Len(F) : g[i] = x
        OBVIOUS
    <2>1. CASE x \in U
        <3>1. PICK l \in 1 .. Cardinality(U) : Nth(U, l) = x
            BY <1>3, <2>1
        <3> QED BY <1>1, <3>1 DEF Reads, U
    <2>2. CASE x \notin U
        BY <1>1, <2>2 DEF Reads, U
    <2> QED BY <2>1, <2>2
<1>7. Len(F) = Cardinality(1 .. Len(S)) /\ \A i \in 1 .. Len(F) : g[i] = Nth(1 .. Len(S), i)
    <2> DEFINE K == 1 .. Len(S)
    <2>1. Len(F) \in Nat /\ Len(S) \in Nat /\ K \in SUBSET (0 .. Len(S))
        BY <1>0, <1>2
    <2>2. \A k \in 1 .. Len(F) : g[k] \in K
        BY <1>4
    <2>3. \A k, l \in 1 .. Len(F) : k < l => g[k] < g[l]
        BY <1>5
    <2>4. \A i \in K : \E k \in 1 .. Len(F) : g[k] = i
        BY <1>6
    <2>5. Len(F) = Cardinality(K) /\ \A k \in 1 .. Len(F) : g[k] = Nth(K, k)
        <3> HIDE DEF K
        <3>1. Counts(g, Len(F), K)
            BY <2>2, <2>3, <2>4 DEF Counts
        <3> QED BY <2>1, <3>1, Counted
    <2> QED BY <2>5
<1>8. Len(F) = Len(S) /\ \A i \in 1 .. Len(S) : g[i] = i
    BY <1>0, <1>7, NthWhole
<1>9. \A i \in 1 .. Len(S) : F[i].text = S[i].text /\ F[i].quote = S[i].quote
    BY <1>4, <1>8
<1>10. Words(F) = Words(S)
    BY <1>0, <1>8, <1>9 DEF Words
<1> QED BY <1>10 DEF F, S

\* Of a chapter that a file just like it makes nothing is changed.
LEMMA Itself ==
    ASSUME NEW P, IsChapter(P)
    PROVE  Spoken(P) = P /\ SameText(P, P)
<1>1. P \in Seq(Blocks) /\ Len(P) \in Nat /\ DOMAIN P = 1 .. Len(P)
    BY BlockIs DEF IsChapter
<1>2. Spoken(P) = P
    <2>1. {i \in DOMAIN P : P[i].text # << >>} = 1 .. Len(P)
        BY <1>1 DEF IsChapter, HasText
    <2> QED BY <1>1, <2>1, PartWhole DEF Spoken
<1>3. Changed(P, P) = << >>
    <2> DEFINE K == {i \in DOMAIN P : /\ P[i].text # << >> /\ P[i].id \in IdsOf(P)
                                     /\ (P[i].text # P[At(P, P[i].id)].text \/ P[i].quote # P[At(P, P[i].id)].quote)}
    <2>1. \A i \in 1 .. Len(P) : At(P, P[i].id) = i
        BY InChapter
    <2>2. K = {}
        BY <1>1, <2>1
    <2>3. Changed(P, P) = Part(P, K)
        BY DEF Changed
    <2> QED BY <2>2, <2>3, PartNone
<1>4. New(P, P) = << >>
    <2>1. {i \in DOMAIN P : P[i].id \notin IdsOf(P)} = {}
        BY <1>1, InChapter
    <2>2. Cardinality({}) = 0
        BY FS_EmptySet
    <2>3. Len(New(P, P)) = 0 /\ New(P, P) \in Seq(News)
        <3>1. IsFile(P)
            BY <1>1 DEF IsFile, IsChapter, Distinct
        <3>2. Unknown(P, P) = {}
            BY <1>1, <2>1 DEF Unknown
        <3> QED BY <1>2, <2>2, <3>1, <3>2, NewIs
    <2> QED BY <2>3
<1>5. Deleted(P, P) = {}
    BY DEF Deleted, Seen
<1> QED BY <1>2, <1>3, <1>4, <1>5 DEF SameText

\* From a file that says what the chapter says the chapter is rebuilt.
LEMMA SameRebuilt ==
    ASSUME NEW B, NEW P, IsChapter(P), SameText(B, P), NEW ids
    PROVE  Rebuilt(B, P, ids) = P
<1>1. P \in Seq(Blocks) /\ Len(P) \in Nat /\ DOMAIN P = 1 .. Len(P)
    BY BlockIs DEF IsChapter
<1>2. Without(P, {}) = P
    <2>1. {i \in DOMAIN P : P[i].id \notin {}} = 1 .. Len(P)
        BY <1>1
    <2> QED BY <1>1, <2>1, PartWhole DEF Without
<1>3. Reworded(P, << >>) = P
    <2>1. \A id : Where(<< >>, id) = {}
        BY DEF Where
    <2>2. \A id : LastAt(<< >>, id) = 0
        BY <2>1 DEF LastAt
    <2>3. Reworded(P, << >>) = [i \in DOMAIN P |-> P[i]]
        BY <2>2 DEF Reworded
    <2> QED BY <1>1, <2>3
<1>4. Placed(P, << >>, ids) = P
    <2>1. << >> \in Seq(News) /\ Len(<< >>) = 0
        OBVIOUS
    <2>2. PICK r : Placing(P, << >>, ids, r)
        BY <2>1, PlacedIs
    <2> QED BY <2>1, <2>2 DEF Placing
<1> QED BY <1>2, <1>3, <1>4 DEF Rebuilt, SameText

-----------------------------------------------------------------------------
(* The commit under way: what the graph's paragraphs G are to the rebuilt    *)
(* ones C while the saves W are still to come.                               *)
-----------------------------------------------------------------------------
Pends(W, kind, id) == \E i \in 1 .. Len(W) : W[i].kind = kind /\ W[i].id = id

Entries == [kind : Writes, id : Ids \cup {NoId}]

\* New paragraphs before the chapter, new sentences before their paragraph.
InTurn(W) ==
    \A i, j \in 1 .. Len(W) : i < j =>
      /\ W[i] # W[j]
      /\ ~(W[i].kind = "chapter" /\ W[j].kind \in {"chapter", "added"})
      /\ ~(W[i].kind = "changed" /\ W[j].kind = "sentences")

Underway(G, C, W) ==
    /\ W \in Seq(Entries) /\ InTurn(W)
    /\ \A id \in IdsOf(C) :
         /\ id \in IdsOf(G) \/ Pends(W, "added", id)
         /\ id \in IdsOf(G) => Pends(W, "changed", id) \/ G[At(G, id)] = C[At(C, id)]
    /\ \A id \in Ids \cup {NoId} : Pends(W, "added", id) => id \in IdsOf(C) \ IdsOf(G)
    /\ \A id \in Ids \cup {NoId} : Pends(W, "sentences", id) => Pends(W, "changed", id)
    /\ \A id \in Ids \cup {NoId} : Pends(W, "changed", id) => id \in IdsOf(C) \cap IdsOf(G)
    /\ (\E i \in 1 .. Len(W) : W[i].kind = "chapter") \/ C = << >> \/ IdList(G) = IdList(C)

Known(D) == IdList(Part(D, {i \in DOMAIN D : At(D, D[i].id) = i}))

\* Of the paragraphs changed each is known once.
LEMMA KnownIs ==
    ASSUME NEW D \in Seq(Blocks), \A k \in 1 .. Len(D) : D[k].id \in Ids
    PROVE  /\ Known(D) \in Seq(Ids) /\ Len(Known(D)) \in Nat
           /\ \A k, l \in 1 .. Len(Known(D)) : Known(D)[k] = Known(D)[l] => k = l
           /\ \A k \in 1 .. Len(Known(D)) : Known(D)[k] \in IdsOf(D)
           /\ \A id \in IdsOf(D) : \E k \in 1 .. Len(Known(D)) : Known(D)[k] = id
<1> DEFINE K == {i \in 1 .. Len(D) : At(D, D[i].id) = i}
           n == Cardinality(K)
<1>1. Len(D) \in Nat /\ DOMAIN D = 1 .. Len(D) /\ K \in SUBSET (1 .. Len(D)) /\ K \in SUBSET (0 .. Len(D))
    BY BlockIs
<1>2. /\ n \in Nat /\ Part(D, K) \in Seq(Blocks) /\ Len(Part(D, K)) = n
      /\ \A k \in 1 .. n : Nth(K, k) \in K /\ Part(D, K)[k] = D[Nth(K, k)]
      /\ \A k, l \in 1 .. n : k < l => Nth(K, k) < Nth(K, l)
      /\ \A i \in K : \E k \in 1 .. n : Nth(K, k) = i
    <2> HIDE DEF K
    <2> QED BY <1>1, PartIs
<1>3. Known(D) = [k \in 1 .. n |-> Part(D, K)[k].id]
    <2>1. DOMAIN Part(D, K) = 1 .. n
        BY <1>2, BlockIs
    <2> QED BY <1>1, <2>1 DEF Known, IdList
<1>4. \A i \in K : i \in 1 .. Len(D) /\ At(D, D[i].id) = i
    OBVIOUS
<1>5. IdsOf(D) = {D[i].id : i \in 1 .. Len(D)}
    <2>1. \A i \in 1 .. Len(D) : D[i].id # NoId
        BY IdsAssumption
    <2> QED BY <1>1, <2>1 DEF IdsOf
<1>6. ASSUME NEW id \in IdsOf(D)
      PROVE  \E i \in K : D[i].id = id
    <2>1. PICK j \in 1 .. Len(D) : D[j].id = id
        BY <1>5
    <2>2. At(D, id) \in 1 .. Len(D) /\ D[At(D, id)].id = id
        BY <2>1, AtIs
    <2> QED BY <2>2
<1> HIDE DEF K, n
<1>7. \A k \in 1 .. n : Known(D)[k] = D[Nth(K, k)].id /\ Known(D)[k] \in Ids
    BY <1>2, <1>3, <1>4
<1>8. Known(D) \in Seq(Ids) /\ Len(Known(D)) = n
    <2> DEFINE k0 == [k \in 1 .. n |-> D[Nth(K, k)].id]
    <2>1. Known(D) = k0
        BY <1>2, <1>3
    <2>2. \A k \in 1 .. n : D[Nth(K, k)].id \in Ids
        BY <1>2, <1>4
    <2>3. k0 \in Seq(Ids) /\ Len(k0) = n
        BY <1>2, <2>2
    <2> QED BY <2>1, <2>3
<1>9. ASSUME NEW k \in 1 .. n, NEW l \in 1 .. n, Known(D)[k] = Known(D)[l]
      PROVE  k = l
    <2>1. Nth(K, k) = Nth(K, l)
        BY <1>2, <1>4, <1>7, <1>9
    <2>2. \A i \in K : i \in Nat
        BY <1>1, <1>4
    <2>3. Nth(K, k) \in Nat /\ Nth(K, l) \in Nat /\ k \in Nat /\ l \in Nat
        BY <1>2, <2>2
    <2>4. CASE k < l
        BY <1>2, <2>1, <2>3, <2>4
    <2>5. CASE l < k
        BY <1>2, <2>1, <2>3, <2>5
    <2> QED BY <2>3, <2>4, <2>5
<1>10. \A k \in 1 .. n : Known(D)[k] \in IdsOf(D)
    BY <1>2, <1>4, <1>5, <1>7
<1>11. \A id \in IdsOf(D) : \E k \in 1 .. n : Known(D)[k] = id
    BY <1>2, <1>6, <1>7
<1> QED BY <1>2, <1>8, <1>9, <1>10, <1>11

LEMMA JoinIs ==
    ASSUME NEW S, NEW s \in Seq(S), NEW t \in Seq(S)
    PROVE  /\ s \o t \in Seq(S) /\ Len(s \o t) = Len(s) + Len(t)
           /\ \A i \in 1 .. Len(s) : (s \o t)[i] = s[i]
           /\ \A i \in 1 .. Len(t) : (s \o t)[Len(s) + i] = t[i]
OBVIOUS

\* The saves of a commit, one by one.
LEMMA WritesIs ==
    ASSUME NEW D \in Seq(Blocks), \A k \in 1 .. Len(D) : D[k].id \in Ids, NEW ids \in Seq(Ids)
    PROVE  LET W == WritesOf(D, ids)
               K == Known(D)
               n == Len(K)
               m == Len(ids) IN
           /\ W \in Seq(Entries) /\ Len(W) = n + m + 1 + n
           /\ \A i \in 1 .. n : W[i] = [kind |-> "sentences", id |-> K[i]]
           /\ \A i \in 1 .. m : W[n + i] = [kind |-> "added", id |-> ids[i]]
           /\ W[n + m + 1] = [kind |-> "chapter", id |-> NoId]
           /\ \A i \in 1 .. n : W[n + m + 1 + i] = [kind |-> "changed", id |-> K[i]]
<1> DEFINE Each(kind, s) == [i \in DOMAIN s |-> [kind |-> kind, id |-> s[i]]]
           K == Known(D)
           n == Len(K)
           m == Len(ids)
           a == Each("sentences", K)
           b == Each("added", ids)
           c == <<[kind |-> "chapter", id |-> NoId]>>
           d == Each("changed", K)
<1>1. K \in Seq(Ids) /\ n \in Nat /\ m \in Nat
    BY KnownIs
<1>2. WritesOf(D, ids) = ((a \o b) \o c) \o d
    BY DEF WritesOf, Known
<1>3. ASSUME NEW kind \in Writes, NEW s \in Seq(Ids)
      PROVE  Each(kind, s) \in Seq(Entries) /\ Len(Each(kind, s)) = Len(s)
    <2>1. Len(s) \in Nat /\ DOMAIN s = 1 .. Len(s)
        OBVIOUS
    <2>2. \A i \in 1 .. Len(s) : [kind |-> kind, id |-> s[i]] \in Entries
        BY DEF Entries
    <2> QED BY <2>1, <2>2
<1>4. /\ a \in Seq(Entries) /\ Len(a) = n /\ b \in Seq(Entries) /\ Len(b) = m
      /\ d \in Seq(Entries) /\ Len(d) = n
    <2>1. "sentences" \in Writes /\ "added" \in Writes /\ "changed" \in Writes
        BY DEF Writes
    <2> HIDE DEF Each, K
    <2> QED BY <1>1, <1>3, <2>1
<1>5. c \in Seq(Entries) /\ Len(c) = 1 /\ c[1] = [kind |-> "chapter", id |-> NoId]
    BY DEF Entries, Writes
<1>6. /\ \A i \in 1 .. n : a[i] = [kind |-> "sentences", id |-> K[i]] /\ d[i] = [kind |-> "changed", id |-> K[i]]
      /\ \A i \in 1 .. m : b[i] = [kind |-> "added", id |-> ids[i]]
    <2>1. DOMAIN K = 1 .. n /\ DOMAIN ids = 1 .. m
        BY <1>1
    <2> HIDE DEF K, n, m
    <2> QED BY <2>1
<1> HIDE DEF a, b, c, d, K, n, m
<1>7. /\ a \o b \in Seq(Entries) /\ Len(a \o b) = n + m
      /\ \A i \in 1 .. n : (a \o b)[i] = a[i]
      /\ \A i \in 1 .. m : (a \o b)[n + i] = b[i]
    <2>1. /\ a \o b \in Seq(Entries) /\ Len(a \o b) = Len(a) + Len(b)
          /\ \A i \in 1 .. Len(a) : (a \o b)[i] = a[i]
          /\ \A i \in 1 .. Len(b) : (a \o b)[Len(a) + i] = b[i]
        <3>1. a \in Seq(Entries) /\ b \in Seq(Entries)
            BY <1>4
        <3> QED BY <3>1, JoinIs
    <2> QED BY <1>4, <2>1
<1> DEFINE e == a \o b
           f == e \o c
           g == f \o d
<1>8. /\ f \in Seq(Entries) /\ Len(f) = n + m + 1
      /\ \A i \in 1 .. n + m : f[i] = e[i]
      /\ f[n + m + 1] = c[1]
    <2> HIDE DEF e
    <2>1. /\ \A i \in 1 .. Len(e) : (e \o c)[i] = e[i]
          /\ \A i \in 1 .. 1 : (e \o c)[Len(e) + i] = c[i]
          /\ Len(e \o c) = Len(e) + 1 /\ e \o c \in Seq(Entries)
        <3>1. e \in Seq(Entries)
            BY <1>7 DEF e
        <3>2. /\ \A i \in 1 .. Len(e) : (e \o c)[i] = e[i]
              /\ \A i \in 1 .. Len(c) : (e \o c)[Len(e) + i] = c[i]
              /\ Len(e \o c) = Len(e) + Len(c) /\ e \o c \in Seq(Entries)
            BY SMTT(30), <1>5, <3>1, JoinIs
        <3> QED BY <1>5, <3>2
    <2>2. Len(e) = n + m /\ 1 \in 1 .. 1
        BY <1>7 DEF e
    <2> QED BY <2>1, <2>2
<1>9. /\ g \in Seq(Entries) /\ Len(g) = n + m + 1 + n
      /\ \A i \in 1 .. n + m + 1 : g[i] = f[i]
      /\ \A i \in 1 .. n : g[n + m + 1 + i] = d[i]
    <2> HIDE DEF f
    <2>1. /\ \A i \in 1 .. Len(f) : (f \o d)[i] = f[i]
          /\ \A i \in 1 .. Len(d) : (f \o d)[Len(f) + i] = d[i]
          /\ Len(f \o d) = Len(f) + Len(d) /\ f \o d \in Seq(Entries)
        <3>1. f \in Seq(Entries) /\ d \in Seq(Entries)
            BY <1>4, <1>8
        <3> HIDE DEF f
        <3> QED BY <3>1, JoinIs
    <2> QED BY <1>4, <1>8, <2>1
<1>10. /\ \A i \in 1 .. n : g[i] = a[i]
       /\ \A i \in 1 .. m : g[n + i] = b[i]
       /\ g[n + m + 1] = c[1]
    <2>1. \A i \in 1 .. n : i \in 1 .. n + m /\ i \in 1 .. n + m + 1
        BY <1>1
    <2>2. \A i \in 1 .. m : n + i \in 1 .. n + m /\ n + i \in 1 .. n + m + 1
        BY <1>1
    <2>3. n + m + 1 \in 1 .. n + m + 1
        BY <1>1
    <2> HIDE DEF f, g
    <2>4. \A i \in 1 .. n : g[i] = (a \o b)[i]
        BY <1>8, <1>9, <2>1
    <2>5. \A i \in 1 .. m : g[n + i] = (a \o b)[n + i]
        BY <1>8, <1>9, <2>2
    <2> QED BY <1>7, <1>8, <1>9, <2>3, <2>4, <2>5
<1>11. WritesOf(D, ids) = g
    BY <1>2
<1> HIDE DEF g
<1> QED BY <1>5, <1>6, <1>9, <1>10, <1>11 DEF K, n, m

\* What is still to come once the first save is done.
LEMMA Passing ==
    ASSUME NEW W \in Seq(Entries), W # << >>
    PROVE  /\ Head(W) \in Entries /\ Tail(W) \in Seq(Entries)
           /\ \A i \in 1 .. Len(Tail(W)) : i + 1 \in 1 .. Len(W) /\ Tail(W)[i] = W[i + 1]
           /\ \A kind, id : Pends(W, kind, id) <=>
                (Head(W).kind = kind /\ Head(W).id = id) \/ Pends(Tail(W), kind, id)
           /\ (\E i \in 1 .. Len(W) : W[i].kind = "chapter") <=>
                Head(W).kind = "chapter" \/ \E i \in 1 .. Len(Tail(W)) : Tail(W)[i].kind = "chapter"
           /\ InTurn(W) => /\ InTurn(Tail(W)) /\ ~Pends(Tail(W), Head(W).kind, Head(W).id)
                           /\ Head(W).kind = "chapter" =>
                                \A i \in 1 .. Len(Tail(W)) : Tail(W)[i].kind \notin {"chapter", "added"}
                           /\ Head(W).kind = "changed" => \A i \in 1 .. Len(Tail(W)) : Tail(W)[i].kind # "sentences"
<1> DEFINE h == W[1]
           T == Tail(W)
           n == Len(W)
<1>1. /\ n \in Nat /\ n >= 1 /\ Head(W) = h /\ h \in Entries /\ T \in Seq(Entries) /\ Len(T) = n - 1
      /\ \A i \in 1 .. n - 1 : T[i] = W[i + 1]
      /\ \A i \in 1 .. n : W[i] \in Entries
    OBVIOUS
<1> HIDE DEF h, T, n
<1>2. \A i \in 1 .. n - 1 : i + 1 \in 1 .. n /\ 1 < i + 1
    BY <1>1
<1>3. \A i \in 1 .. n : i = 1 \/ (i - 1 \in 1 .. n - 1 /\ W[i] = T[i - 1])
    BY <1>1
<1>4. W[1] = h /\ 1 \in 1 .. n
    BY <1>1 DEF h
<1>5. ASSUME NEW kind, NEW id
      PROVE  Pends(W, kind, id) <=> (h.kind = kind /\ h.id = id) \/ Pends(T, kind, id)
    BY SMTT(30), <1>1, <1>2, <1>3, <1>4 DEF Pends, n
<1>6. (\E i \in 1 .. Len(W) : W[i].kind = "chapter") <=> h.kind = "chapter" \/ \E i \in 1 .. Len(T) : T[i].kind = "chapter"
    BY <1>1, <1>2, <1>3, <1>4 DEF n
<1>7. ASSUME InTurn(W)
      PROVE  /\ InTurn(T) /\ ~Pends(T, h.kind, h.id)
             /\ h.kind = "chapter" => \A i \in 1 .. Len(T) : T[i].kind \notin {"chapter", "added"}
             /\ h.kind = "changed" => \A i \in 1 .. Len(T) : T[i].kind # "sentences"
    <2>1. ASSUME NEW i \in 1 .. n - 1
          PROVE  /\ T[i] # h /\ T[i] \in Entries
                 /\ ~(h.kind = "chapter" /\ T[i].kind \in {"chapter", "added"})
                 /\ ~(h.kind = "changed" /\ T[i].kind = "sentences")
        <3>1. i + 1 \in 1 .. Len(W) /\ 1 < i + 1 /\ T[i] = W[i + 1] /\ W[1] = h /\ 1 \in 1 .. Len(W)
            BY <1>1, <1>2, <1>4 DEF n
        <3> QED BY <1>1, <1>7, <3>1 DEF InTurn
    <2>2. InTurn(T)
        <3> SUFFICES ASSUME NEW i \in 1 .. Len(T), NEW j \in 1 .. Len(T), i < j
                     PROVE  /\ T[i] # T[j]
                            /\ ~(T[i].kind = "chapter" /\ T[j].kind \in {"chapter", "added"})
                            /\ ~(T[i].kind = "changed" /\ T[j].kind = "sentences")
            BY DEF InTurn
        <3>1. i + 1 \in 1 .. Len(W) /\ j + 1 \in 1 .. Len(W) /\ i + 1 < j + 1 /\ T[i] = W[i + 1] /\ T[j] = W[j + 1]
            BY <1>1, <1>2 DEF n
        <3> QED BY <1>7, <3>1 DEF InTurn
    <2>3. ~Pends(T, h.kind, h.id)
        <3>1. \A x, y \in Entries : x.kind = y.kind /\ x.id = y.id => x = y
            BY DEF Entries
        <3> QED BY <1>1, <2>1, <3>1 DEF Pends
    <2> QED BY <1>1, <2>1, <2>2, <2>3
<1> QED BY <1>1, <1>2, <1>5, <1>6, <1>7 DEF T, n

\* Once the chapter is rebuilt all the saves are to come.
LEMMA Starts ==
    ASSUME NEW B, IsFile(B), NEW P, IsChapter(P), NEW ids, Drawn(ids, B, P)
    PROVE  /\ Underway(P, Rebuilt(B, P, ids), WritesOf(Changed(B, P), ids))
           /\ WritesOf(Changed(B, P), ids) # << >>
           /\ \E i \in 1 .. Len(WritesOf(Changed(B, P), ids)) : WritesOf(Changed(B, P), ids)[i].kind = "chapter"
<1> DEFINE C == Rebuilt(B, P, ids)
           D == Changed(B, P)
           W == WritesOf(D, ids)
           K == Known(D)
           n == Len(K)
           m == Len(ids)
<1>1. /\ IsChapter(C) /\ IdsOf(C) = (IdsOf(P) \cap IdsOf(B)) \cup {ids[k] : k \in 1 .. m}
      /\ \A j \in 1 .. Len(C) : C[j].id \in IdsOf(P) \ IdsOf(D) => C[j] = P[At(P, C[j].id)]
    BY RebuiltKeeps
<1>2. /\ D \in Seq(Blocks) /\ \A k \in 1 .. Len(D) : D[k].id \in IdsOf(P) \cap IdsOf(B)
    BY ChangedIs DEF IsFile
<1>3. IdsOf(P) \subseteq Ids
    <2>1. P \in Seq(Blocks) /\ DOMAIN P = 1 .. Len(P) /\ \A i \in 1 .. Len(P) : P[i].id \in Ids \cup {NoId}
        BY BlockIs DEF IsChapter
    <2> QED BY <2>1 DEF IdsOf
<1>4. /\ ids \in Seq(Ids) /\ m \in Nat
      /\ \A k \in 1 .. m : ids[k] \notin IdsOf(P) /\ \A l \in 1 .. m : ids[l] = ids[k] => l = k
    BY DEF Drawn
<1> HIDE DEF C, D
<1>5. \A k \in 1 .. Len(D) : D[k].id \in Ids
    BY <1>2, <1>3
<1>6. IdsOf(D) \subseteq IdsOf(P) \cap IdsOf(B)
    <2>1. DOMAIN D = 1 .. Len(D)
        BY <1>2, BlockIs
    <2> QED BY <1>2, <2>1 DEF IdsOf
<1>7. /\ K \in Seq(Ids) /\ n \in Nat
      /\ \A k, l \in 1 .. n : K[k] = K[l] => k = l
      /\ \A k \in 1 .. n : K[k] \in IdsOf(D)
      /\ \A id \in IdsOf(D) : \E k \in 1 .. n : K[k] = id
    BY <1>2, <1>5, KnownIs
<1>8. /\ W \in Seq(Entries) /\ Len(W) = n + m + 1 + n
      /\ \A i \in 1 .. n : W[i] = [kind |-> "sentences", id |-> K[i]]
      /\ \A i \in 1 .. m : W[n + i] = [kind |-> "added", id |-> ids[i]]
      /\ W[n + m + 1] = [kind |-> "chapter", id |-> NoId]
      /\ \A i \in 1 .. n : W[n + m + 1 + i] = [kind |-> "changed", id |-> K[i]]
    BY <1>2, <1>4, <1>5, WritesIs
<1> HIDE DEF W, K, n, m
<1>9. ASSUME NEW i \in 1 .. Len(W)
      PROVE  \/ i \in 1 .. n /\ W[i].kind = "sentences" /\ W[i].id = K[i]
             \/ i - n \in 1 .. m /\ W[i].kind = "added" /\ W[i].id = ids[i - n]
             \/ i = n + m + 1 /\ W[i].kind = "chapter"
             \/ i - (n + m + 1) \in 1 .. n /\ W[i].kind = "changed" /\ W[i].id = K[i - (n + m + 1)]
    <2>1. CASE i <= n
        <3>1. i \in 1 .. n
            BY <1>7, <2>1
        <3>2. W[i] = [kind |-> "sentences", id |-> K[i]]
            BY <1>8, <3>1
        <3> QED BY <3>1, <3>2
    <2>2. CASE n < i /\ i <= n + m
        <3>1. i - n \in 1 .. m /\ n + (i - n) = i
            BY <1>4, <1>7, <1>8, <2>2
        <3>2. W[i] = [kind |-> "added", id |-> ids[i - n]]
            BY <1>8, <3>1
        <3> QED BY <3>1, <3>2
    <2>3. CASE i = n + m + 1
        BY <1>8, <2>3
    <2>4. CASE n + m + 1 < i
        <3>1. i - (n + m + 1) \in 1 .. n /\ n + m + 1 + (i - (n + m + 1)) = i
            BY <1>4, <1>7, <1>8, <2>4
        <3>2. W[i] = [kind |-> "changed", id |-> K[i - (n + m + 1)]]
            BY <1>8, <3>1
        <3> QED BY <3>1, <3>2
    <2> QED BY <1>4, <1>7, <1>8, <2>1, <2>2, <2>3, <2>4
<1>10. \A i \in 1 .. Len(W) : i \in Int
    OBVIOUS
<1>11. InTurn(W)
    <2> SUFFICES ASSUME NEW i \in 1 .. Len(W), NEW j \in 1 .. Len(W), i < j
                 PROVE  /\ W[i] # W[j]
                        /\ ~(W[i].kind = "chapter" /\ W[j].kind \in {"chapter", "added"})
                        /\ ~(W[i].kind = "changed" /\ W[j].kind = "sentences")
        BY DEF InTurn
    <2>1. W[i].kind = "chapter" => i = n + m + 1
        BY <1>9
    <2>2. W[i].kind = "changed" => i > n + m + 1
        <3> SUFFICES ASSUME W[i].kind = "changed" PROVE i > n + m + 1
            OBVIOUS
        <3>1. i - (n + m + 1) \in 1 .. n
            BY <1>9
        <3> QED BY <1>4, <1>7, <1>10, <3>1
    <2>3. W[j].kind \in {"chapter", "added"} => j <= n + m + 1
        <3>1. CASE W[j].kind = "chapter"
            <4>1. j = n + m + 1
                BY <1>9, <3>1
            <4> QED BY <1>4, <1>7, <4>1
        <3>2. CASE W[j].kind = "added"
            <4>1. j - n \in 1 .. m
                BY <1>9, <3>2
            <4> QED BY <1>4, <1>7, <1>10, <4>1
        <3> QED BY <3>1, <3>2
    <2>4. W[j].kind = "sentences" => j <= n
        BY <1>4, <1>7, <1>9
    <2>5. W[i] # W[j]
        <3> SUFFICES ASSUME W[i].kind = W[j].kind, W[i].id = W[j].id PROVE FALSE
            OBVIOUS
        <3>1. CASE W[i].kind = "sentences"
            <4>1. i \in 1 .. n /\ j \in 1 .. n /\ K[i] = K[j]
                BY <1>9, <3>1
            <4> QED BY <1>7, <4>1
        <3>2. CASE W[i].kind = "added"
            <4>1. i - n \in 1 .. m /\ j - n \in 1 .. m /\ ids[i - n] = ids[j - n]
                BY <1>9, <3>2
            <4>2. i - n = j - n
                BY <1>4, <4>1
            <4> QED BY <1>7, <1>10, <4>2
        <3>3. CASE W[i].kind = "chapter"
            <4>1. i = n + m + 1 /\ j = n + m + 1
                BY <1>9, <3>3
            <4> QED BY <1>4, <1>7, <4>1
        <3>4. CASE W[i].kind = "changed"
            <4>1. /\ i - (n + m + 1) \in 1 .. n /\ j - (n + m + 1) \in 1 .. n
                  /\ K[i - (n + m + 1)] = K[j - (n + m + 1)]
                BY <1>9, <3>4
            <4>2. i - (n + m + 1) = j - (n + m + 1)
                BY <1>7, <4>1
            <4> QED BY <1>4, <1>7, <1>10, <4>2
        <3> QED BY <1>9, <3>1, <3>2, <3>3, <3>4
    <2> QED BY <1>4, <1>7, <1>10, <2>1, <2>2, <2>3, <2>4, <2>5
<1>12. \A id : Pends(W, "changed", id) <=> id \in IdsOf(D)
    <2>1. ASSUME NEW id, Pends(W, "changed", id) PROVE id \in IdsOf(D)
        BY <1>7, <1>9, <2>1 DEF Pends
    <2>2. ASSUME NEW id \in IdsOf(D) PROVE Pends(W, "changed", id)
        <3>1. PICK k \in 1 .. n : K[k] = id
            BY <1>7
        <3>2. W[n + m + 1 + k] = [kind |-> "changed", id |-> K[k]]
            BY <1>8
        <3>3. n + m + 1 + k \in 1 .. Len(W)
            BY <1>4, <1>7, <1>8
        <3> QED BY <3>1, <3>2, <3>3 DEF Pends
    <2> QED BY <2>1, <2>2
<1>13. \A id : Pends(W, "sentences", id) => id \in IdsOf(D)
    BY <1>7, <1>9 DEF Pends
<1>14. \A id : Pends(W, "added", id) <=> \E k \in 1 .. m : ids[k] = id
    <2>1. ASSUME NEW id, Pends(W, "added", id) PROVE \E k \in 1 .. m : ids[k] = id
        BY <1>9, <2>1 DEF Pends
    <2>2. ASSUME NEW k \in 1 .. m PROVE Pends(W, "added", ids[k])
        <3>1. W[n + k] = [kind |-> "added", id |-> ids[k]]
            BY <1>8
        <3>2. n + k \in 1 .. Len(W)
            BY <1>4, <1>7, <1>8
        <3> QED BY <3>1, <3>2 DEF Pends
    <2> QED BY <2>1, <2>2
<1>15. W # << >> /\ \E i \in 1 .. Len(W) : W[i].kind = "chapter"
    <2>1. n + m + 1 \in 1 .. Len(W) /\ W[n + m + 1].kind = "chapter"
        BY <1>4, <1>7, <1>8
    <2> QED BY <2>1
<1>16. \A id \in IdsOf(C) : id \in IdsOf(P) \/ Pends(W, "added", id)
    BY <1>1, <1>14
<1>17. \A id \in IdsOf(C) : id \in IdsOf(P) => Pends(W, "changed", id) \/ P[At(P, id)] = C[At(C, id)]
    <2> SUFFICES ASSUME NEW id \in IdsOf(C), id \in IdsOf(P), id \notin IdsOf(D)
                 PROVE  P[At(P, id)] = C[At(C, id)]
        BY <1>12
    <2>1. At(C, id) \in 1 .. Len(C) /\ C[At(C, id)].id = id
        BY <1>1, InChapter
    <2> QED BY <1>1, <2>1
<1>18. \A id : Pends(W, "added", id) => id \in IdsOf(C) \ IdsOf(P)
    <2>1. \A k \in 1 .. m : ids[k] \in IdsOf(C)
        BY <1>1 DEF m
    <2> QED BY <1>4, <1>14, <2>1
<1>19. \A id : Pends(W, "changed", id) => id \in IdsOf(C) \cap IdsOf(P)
    BY <1>1, <1>6, <1>12
<1>20. Underway(P, C, W)
    BY <1>8, <1>11, <1>12, <1>13, <1>15, <1>16, <1>17, <1>18, <1>19 DEF Underway
<1> QED BY <1>15, <1>20 DEF C, D, W

LEMMA ChapterIs ==
    ASSUME NEW G, IsChapter(G)
    PROVE  /\ G \in Seq(Blocks) /\ Len(G) \in Nat /\ DOMAIN G = 1 .. Len(G)
           /\ \A i \in 1 .. Len(G) : G[i] \in Blocks /\ G[i].text # << >> /\ G[i].id # NoId /\ G[i].id \in Ids
           /\ \A i, j \in 1 .. Len(G) : G[i].id = G[j].id => i = j
           /\ IdsOf(G) = {G[i].id : i \in 1 .. Len(G)}
<1>1. G \in Seq(Blocks) /\ Len(G) \in Nat /\ DOMAIN G = 1 .. Len(G)
    BY BlockIs DEF IsChapter
<1>2. \A i \in 1 .. Len(G) : G[i] \in Blocks /\ G[i].text # << >> /\ G[i].id # NoId
    BY <1>1 DEF IsChapter, HasText, Distinct
<1>3. \A b \in Blocks : b.id \in Ids \cup {NoId}
    BY DEF Blocks
<1>4. \A i, j \in 1 .. Len(G) : G[i].id = G[j].id => i = j
    BY <1>1 DEF IsChapter, Distinct
<1>5. IdsOf(G) = {G[i].id : i \in 1 .. Len(G)}
    BY <1>1, <1>2 DEF IdsOf
<1> QED BY <1>1, <1>2, <1>3, <1>4, <1>5

LEMMA IsChapterIf ==
    ASSUME NEW G \in Seq(Blocks),
           \A i \in 1 .. Len(G) : G[i].text # << >> /\ G[i].id # NoId,
           \A i, j \in 1 .. Len(G) : G[i].id = G[j].id => i = j
    PROVE  IsChapter(G)
<1>1. DOMAIN G = 1 .. Len(G)
    OBVIOUS
<1> QED BY <1>1 DEF IsChapter, HasText, Distinct

\* One paragraph says something else.
LEMMA Amend ==
    ASSUME NEW G, IsChapter(G), NEW i \in 1 .. Len(G), NEW b \in Blocks, b.id = G[i].id, b.text # << >>,
           NEW T \in Seq(Blocks), Len(T) = Len(G), T[i] = b, \A j \in 1 .. Len(G) : j # i => T[j] = G[j]
    PROVE  /\ IsChapter(T) /\ IdsOf(T) = IdsOf(G) /\ IdList(T) = IdList(G)
           /\ \A x : At(T, x) = At(G, x)
<1>1. /\ G \in Seq(Blocks) /\ Len(G) \in Nat /\ DOMAIN G = 1 .. Len(G)
      /\ \A k \in 1 .. Len(G) : G[k] \in Blocks /\ G[k].text # << >> /\ G[k].id # NoId
      /\ \A k, l \in 1 .. Len(G) : G[k].id = G[l].id => k = l
    BY ChapterIs
<1>2. T \in Seq(Blocks) /\ Len(T) = Len(G) /\ DOMAIN T = 1 .. Len(G)
    BY <1>1
<1>3. T[i] = b /\ \A j \in 1 .. Len(G) : j # i => T[j] = G[j]
    OBVIOUS
<1>4. \A j \in 1 .. Len(G) : T[j].id = G[j].id /\ T[j].text # << >>
    BY <1>1, <1>3
<1>5. IsChapter(T)
    BY <1>1, <1>2, <1>4, IsChapterIf
<1>6. IdList(T) = IdList(G)
    BY <1>1, <1>2, <1>4 DEF IdList
<1>7. IdsOf(T) = IdsOf(G)
    BY <1>1, <1>2, <1>4 DEF IdsOf
<1>8. ASSUME NEW x
      PROVE  At(T, x) = At(G, x)
    <2>1. Where(T, x) = Where(G, x)
        BY <1>1, <1>2, <1>4 DEF Where
    <2> QED BY <2>1 DEF At
<1> QED BY <1>5, <1>6, <1>7, <1>8

\* A paragraph whose new sentences or whose change is to come is in both.
LEMMA InBoth ==
    ASSUME NEW G, NEW C, NEW W, Underway(G, C, W), W # << >>, Head(W).kind \in {"sentences", "changed"}
    PROVE  Head(W).id \in IdsOf(C) \cap IdsOf(G) /\ Pends(W, "changed", Head(W).id)
<1> DEFINE h == Head(W)
<1>1. /\ W \in Seq(Entries)
      /\ \A id \in Ids \cup {NoId} : Pends(W, "sentences", id) => Pends(W, "changed", id)
      /\ \A id \in Ids \cup {NoId} : Pends(W, "changed", id) => id \in IdsOf(C) \cap IdsOf(G)
    BY DEF Underway
<1>2. h \in Entries /\ \A kind, id : (h.kind = kind /\ h.id = id) => Pends(W, kind, id)
    BY <1>1, Passing
<1>3. h.id \in Ids \cup {NoId}
    BY <1>2 DEF Entries
<1>4. Pends(W, h.kind, h.id)
    BY <1>2
<1> QED BY <1>1, <1>3, <1>4

\* The parts of a commit under way that do not change with a paragraph's text.
LEMMA Amended ==
    ASSUME NEW G, IsChapter(G), NEW C, IsChapter(C), NEW W, Underway(G, C, W), W # << >>,
           Head(W).kind \in {"sentences", "changed"}, NEW b \in Blocks,
           b.id = Head(W).id, b.text # << >>,
           Head(W).kind = "changed" => b = C[At(C, Head(W).id)],
           NEW T \in Seq(Blocks), Len(T) = Len(G), T[At(G, Head(W).id)] = b,
           \A j \in 1 .. Len(G) : j # At(G, Head(W).id) => T[j] = G[j]
    PROVE  IsChapter(T) /\ Underway(T, C, Tail(W))
<1> DEFINE h == Head(W)
           k == At(G, h.id)
           R == Tail(W)
<1>1. /\ W \in Seq(Entries) /\ InTurn(W)
      /\ \A id \in IdsOf(C) : id \in IdsOf(G) \/ Pends(W, "added", id)
      /\ \A id \in IdsOf(C) : id \in IdsOf(G) => Pends(W, "changed", id) \/ G[At(G, id)] = C[At(C, id)]
      /\ \A id \in Ids \cup {NoId} : Pends(W, "added", id) => id \in IdsOf(C) \ IdsOf(G)
      /\ \A id \in Ids \cup {NoId} : Pends(W, "sentences", id) => Pends(W, "changed", id)
      /\ \A id \in Ids \cup {NoId} : Pends(W, "changed", id) => id \in IdsOf(C) \cap IdsOf(G)
      /\ (\E i \in 1 .. Len(W) : W[i].kind = "chapter") \/ C = << >> \/ IdList(G) = IdList(C)
    BY DEF Underway
<1>2. /\ h \in Entries /\ R \in Seq(Entries) /\ InTurn(R) /\ ~Pends(R, h.kind, h.id)
      /\ \A kind, id : Pends(W, kind, id) <=> (h.kind = kind /\ h.id = id) \/ Pends(R, kind, id)
      /\ (\E i \in 1 .. Len(W) : W[i].kind = "chapter") =>
           h.kind = "chapter" \/ \E i \in 1 .. Len(R) : R[i].kind = "chapter"
      /\ h.kind = "changed" => \A i \in 1 .. Len(R) : R[i].kind # "sentences"
    BY <1>1, Passing
<1>3. h.id \in IdsOf(C) \cap IdsOf(G) /\ Pends(W, "changed", h.id)
    BY InBoth
<1> HIDE DEF h, R
<1>4. k \in 1 .. Len(G) /\ G[k].id = h.id /\ b.id = h.id
    BY <1>3, InChapter DEF h
<1>5. /\ IsChapter(T) /\ IdsOf(T) = IdsOf(G) /\ IdList(T) = IdList(G)
      /\ \A x : At(T, x) = At(G, x)
      /\ T[k] = b /\ \A j \in 1 .. Len(G) : j # k => T[j] = G[j]
    <2>1. b.id = G[k].id /\ k \in 1 .. Len(G)
        BY <1>4
    <2>2. T[k] = b /\ \A j \in 1 .. Len(G) : j # k => T[j] = G[j]
        BY DEF h
    <2> HIDE DEF k
    <2> QED BY <2>1, <2>2, Amend
<1> HIDE DEF k
<1>6. \A kind, id : Pends(R, kind, id) => Pends(W, kind, id)
    BY <1>2
<1>7. ASSUME NEW id \in IdsOf(C)
      PROVE  /\ id \in IdsOf(T) \/ Pends(R, "added", id)
             /\ id \in IdsOf(T) => Pends(R, "changed", id) \/ T[At(T, id)] = C[At(C, id)]
    <2>1. id \in IdsOf(T) \/ Pends(R, "added", id)
        BY <1>1, <1>2, <1>5, <1>7 DEF h
    <2>2. ASSUME id \in IdsOf(T) PROVE Pends(R, "changed", id) \/ T[At(T, id)] = C[At(C, id)]
        <3>1. CASE id = h.id
            <4>1. CASE h.kind = "changed"
                BY <1>5, <3>1, <4>1 DEF h, k
            <4>2. CASE h.kind = "sentences"
                BY <1>2, <1>3, <3>1, <4>2
            <4> QED BY <4>1, <4>2 DEF h
        <3>2. CASE id # h.id
            <4>1. Pends(W, "changed", id) => Pends(R, "changed", id)
                BY <1>2, <3>2
            <4>2. At(T, id) = At(G, id) /\ At(G, id) \in 1 .. Len(G) /\ G[At(G, id)].id = id
                BY <1>5, <2>2, InChapter
            <4>3. T[At(T, id)] = G[At(G, id)]
                BY <1>4, <1>5, <3>2, <4>2
            <4> QED BY <1>1, <1>5, <1>7, <2>2, <4>1, <4>3
        <3> QED BY <3>1, <3>2
    <2> QED BY <2>1, <2>2
<1>8. \A id \in Ids \cup {NoId} : Pends(R, "added", id) => id \in IdsOf(C) \ IdsOf(T)
    BY <1>1, <1>5, <1>6
<1>9. \A id \in Ids \cup {NoId} : Pends(R, "sentences", id) => Pends(R, "changed", id)
    <2> SUFFICES ASSUME NEW id \in Ids \cup {NoId}, Pends(R, "sentences", id) PROVE Pends(R, "changed", id)
        OBVIOUS
    <2>1. h.kind # "changed"
        BY <1>2 DEF Pends
    <2> QED BY <1>1, <1>2, <1>6, <2>1
<1>10. \A id \in Ids \cup {NoId} : Pends(R, "changed", id) => id \in IdsOf(C) \cap IdsOf(T)
    BY <1>1, <1>5, <1>6
<1>11. (\E i \in 1 .. Len(R) : R[i].kind = "chapter") \/ C = << >> \/ IdList(T) = IdList(C)
    BY <1>1, <1>2, <1>5 DEF h
<1>12. Underway(T, C, R)
    BY <1>2, <1>7, <1>8, <1>9, <1>10, <1>11 DEF Underway
<1> QED BY <1>5, <1>12 DEF R

\* A new paragraph is appended.
LEMMA Appended ==
    ASSUME NEW G, IsChapter(G), NEW C, IsChapter(C), NEW W, Underway(G, C, W), W # << >>,
           Head(W).kind = "added"
    PROVE  LET T == Append(G, C[At(C, Head(W).id)]) IN
           IsChapter(T) /\ Underway(T, C, Tail(W)) /\ Head(W).id \in IdsOf(C)
<1> DEFINE h == Head(W)
           b == C[At(C, h.id)]
           T == Append(G, b)
           R == Tail(W)
           n == Len(G)
<1>1. /\ W \in Seq(Entries) /\ InTurn(W)
      /\ \A id \in IdsOf(C) : id \in IdsOf(G) \/ Pends(W, "added", id)
      /\ \A id \in IdsOf(C) : id \in IdsOf(G) => Pends(W, "changed", id) \/ G[At(G, id)] = C[At(C, id)]
      /\ \A id \in Ids \cup {NoId} : Pends(W, "added", id) => id \in IdsOf(C) \ IdsOf(G)
      /\ \A id \in Ids \cup {NoId} : Pends(W, "sentences", id) => Pends(W, "changed", id)
      /\ \A id \in Ids \cup {NoId} : Pends(W, "changed", id) => id \in IdsOf(C) \cap IdsOf(G)
      /\ (\E i \in 1 .. Len(W) : W[i].kind = "chapter") \/ C = << >> \/ IdList(G) = IdList(C)
    BY DEF Underway
<1>2. /\ h \in Entries /\ R \in Seq(Entries) /\ InTurn(R) /\ ~Pends(R, h.kind, h.id)
      /\ \A kind, id : Pends(W, kind, id) <=> (h.kind = kind /\ h.id = id) \/ Pends(R, kind, id)
      /\ (\E i \in 1 .. Len(W) : W[i].kind = "chapter") =>
           h.kind = "chapter" \/ \E i \in 1 .. Len(R) : R[i].kind = "chapter"
    BY <1>1, Passing
<1>3. h.id \in IdsOf(C) \ IdsOf(G)
    <2>1. h.id \in Ids \cup {NoId}
        BY <1>2 DEF Entries
    <2>2. Pends(W, "added", h.id)
        BY <1>2
    <2> QED BY <1>1, <2>1, <2>2
<1> HIDE DEF h, R
<1>4. At(C, h.id) \in 1 .. Len(C) /\ b.id = h.id /\ b \in Blocks /\ b.text # << >> /\ b.id # NoId
    BY <1>3, InChapter, ChapterIs
<1>5. /\ G \in Seq(Blocks) /\ n \in Nat
      /\ \A i \in 1 .. n : G[i].text # << >> /\ G[i].id # NoId
      /\ \A i, j \in 1 .. n : G[i].id = G[j].id => i = j
      /\ IdsOf(G) = {G[i].id : i \in 1 .. n}
    BY ChapterIs
<1> HIDE DEF b
<1>6. T \in Seq(Blocks) /\ Len(T) = n + 1 /\ T[n + 1] = b /\ \A i \in 1 .. n : T[i] = G[i]
    BY <1>4, <1>5
<1> HIDE DEF T, n
<1>7. \A i \in 1 .. Len(T) : i \in 1 .. n \/ i = n + 1
    BY <1>5, <1>6
<1>8. IsChapter(T)
    <2>1. \A i \in 1 .. Len(T) : T[i].text # << >> /\ T[i].id # NoId
        BY <1>4, <1>5, <1>6, <1>7
    <2>2. \A i \in 1 .. n : T[i].id # h.id
        BY <1>3, <1>5, <1>6
    <2>3. \A i, j \in 1 .. Len(T) : T[i].id = T[j].id => i = j
        BY <1>4, <1>5, <1>6, <1>7, <2>2
    <2> QED BY <1>6, <2>1, <2>3, IsChapterIf
<1>9. IdsOf(T) = IdsOf(G) \cup {h.id}
    <2>1. IdsOf(T) = {T[i].id : i \in 1 .. Len(T)}
        BY <1>8, ChapterIs
    <2>2. \A x \in IdsOf(T) : x \in IdsOf(G) \cup {h.id}
        BY <1>4, <1>5, <1>6, <1>7, <2>1
    <2>3. \A i \in 1 .. n : i \in 1 .. Len(T)
        BY <1>5, <1>6
    <2>4. n + 1 \in 1 .. Len(T)
        BY <1>5, <1>6
    <2> QED BY <1>4, <1>5, <1>6, <2>1, <2>2, <2>3, <2>4
<1>10. At(T, h.id) = n + 1 /\ \A id \in IdsOf(G) : At(T, id) = At(G, id) /\ T[At(T, id)] = G[At(G, id)]
    <2>1. \A i \in 1 .. Len(T) : At(T, T[i].id) = i
        BY <1>8, InChapter
    <2>2. n + 1 \in 1 .. Len(T) /\ T[n + 1].id = h.id
        BY <1>4, <1>5, <1>6
    <2>3. ASSUME NEW id \in IdsOf(G)
          PROVE  At(T, id) = At(G, id) /\ T[At(T, id)] = G[At(G, id)]
        <3>1. At(G, id) \in 1 .. n /\ G[At(G, id)].id = id
            BY InChapter DEF n
        <3>2. At(G, id) \in 1 .. Len(T) /\ T[At(G, id)] = G[At(G, id)]
            BY <1>5, <1>6, <3>1
        <3> QED BY <2>1, <3>1, <3>2
    <2> QED BY <2>1, <2>2, <2>3
<1>11. \A kind, id : Pends(R, kind, id) => Pends(W, kind, id)
    BY <1>2
<1>12. \A kind, id : Pends(W, kind, id) => Pends(R, kind, id) \/ (kind = "added" /\ id = h.id)
    BY <1>2 DEF h
<1>13. ASSUME NEW id \in IdsOf(C)
       PROVE  /\ id \in IdsOf(T) \/ Pends(R, "added", id)
              /\ id \in IdsOf(T) => Pends(R, "changed", id) \/ T[At(T, id)] = C[At(C, id)]
    <2>1. id \in IdsOf(T) \/ Pends(R, "added", id)
        BY <1>1, <1>9, <1>12, <1>13
    <2>2. ASSUME id \in IdsOf(T) PROVE Pends(R, "changed", id) \/ T[At(T, id)] = C[At(C, id)]
        <3>1. CASE id = h.id
            BY <1>6, <1>10, <3>1 DEF b
        <3>2. CASE id # h.id
            <4>1. id \in IdsOf(G) /\ (Pends(W, "changed", id) => Pends(R, "changed", id))
                BY <1>9, <1>12, <2>2, <3>2
            <4> QED BY <1>1, <1>10, <1>13, <4>1
        <3> QED BY <3>1, <3>2
    <2> QED BY <2>1, <2>2
<1>14. \A id \in Ids \cup {NoId} : Pends(R, "added", id) => id \in IdsOf(C) \ IdsOf(T)
    <2>1. ~Pends(R, "added", h.id)
        BY <1>2 DEF h
    <2> QED BY <1>1, <1>9, <1>11, <2>1
<1>15. \A id \in Ids \cup {NoId} : Pends(R, "sentences", id) => Pends(R, "changed", id)
    <2>1. "added" # "changed"
        OBVIOUS
    <2> QED BY <1>1, <1>11, <1>12, <2>1
<1>16. \A id \in Ids \cup {NoId} : Pends(R, "changed", id) => id \in IdsOf(C) \cap IdsOf(T)
    BY <1>1, <1>9, <1>11
<1>17. (\E i \in 1 .. Len(R) : R[i].kind = "chapter") \/ C = << >> \/ IdList(T) = IdList(C)
    <2>1. CASE \E i \in 1 .. Len(W) : W[i].kind = "chapter"
        BY <1>2, <2>1 DEF h
    <2>2. CASE IdList(G) = IdList(C)
        <3>1. IdsOf(G) = IdsOf(C)
            <4>1. /\ DOMAIN G = DOMAIN C
                  /\ \A i \in DOMAIN G : G[i].id = C[i].id
                <5>1. DOMAIN IdList(G) = DOMAIN G /\ DOMAIN IdList(C) = DOMAIN C
                    BY DEF IdList
                <5>2. \A i \in DOMAIN G : IdList(G)[i] = G[i].id
                    BY DEF IdList
                <5>3. \A i \in DOMAIN C : IdList(C)[i] = C[i].id
                    BY DEF IdList
                <5> QED BY <2>2, <5>1, <5>2, <5>3
            <4> QED BY <4>1 DEF IdsOf
        <3> QED BY <1>3, <3>1
    <2> QED BY <1>1, <2>1, <2>2
<1>18. Underway(T, C, R)
    BY <1>2, <1>13, <1>14, <1>15, <1>16, <1>17 DEF Underway
<1> QED BY <1>3, <1>8, <1>18 DEF T, R, b, h

\* The chapter is saved: the graph has its paragraphs in its order, unless it has none.
LEMMA Relisted ==
    ASSUME NEW G, IsChapter(G), NEW C, IsChapter(C), NEW W, Underway(G, C, W), W # << >>,
           Head(W).kind = "chapter", NEW T,
           T = IF C = << >> THEN G ELSE [i \in DOMAIN C |-> G[At(G, C[i].id)]]
    PROVE  IsChapter(T) /\ Underway(T, C, Tail(W))
<1> DEFINE h == Head(W)
           R == Tail(W)
<1>1. /\ W \in Seq(Entries) /\ InTurn(W)
      /\ \A id \in IdsOf(C) : id \in IdsOf(G) \/ Pends(W, "added", id)
      /\ \A id \in IdsOf(C) : id \in IdsOf(G) => Pends(W, "changed", id) \/ G[At(G, id)] = C[At(C, id)]
      /\ \A id \in Ids \cup {NoId} : Pends(W, "added", id) => id \in IdsOf(C) \ IdsOf(G)
      /\ \A id \in Ids \cup {NoId} : Pends(W, "sentences", id) => Pends(W, "changed", id)
      /\ \A id \in Ids \cup {NoId} : Pends(W, "changed", id) => id \in IdsOf(C) \cap IdsOf(G)
    BY DEF Underway
<1>2. /\ h \in Entries /\ R \in Seq(Entries) /\ InTurn(R)
      /\ \A kind, id : Pends(W, kind, id) <=> (h.kind = kind /\ h.id = id) \/ Pends(R, kind, id)
      /\ \A i \in 1 .. Len(R) : R[i].kind \notin {"chapter", "added"}
    BY <1>1, Passing
<1> HIDE DEF R
<1>3. /\ \A id : Pends(W, "added", id) <=> Pends(R, "added", id)
      /\ \A id : Pends(W, "changed", id) <=> Pends(R, "changed", id)
      /\ \A id : Pends(W, "sentences", id) <=> Pends(R, "sentences", id)
    BY <1>2 DEF h
<1>4. \A id : ~Pends(R, "added", id)
    BY <1>2 DEF Pends
<1>5. \A id \in IdsOf(C) : id \in IdsOf(G)
    BY <1>1, <1>3, <1>4
<1>6. CASE C = << >>
    <2>1. T = G
        BY <1>6
    <2>2. IdsOf(C) = {}
        BY <1>6 DEF IdsOf
    <2>3. Underway(G, C, R)
        BY <1>1, <1>2, <1>3, <1>4, <1>6, <2>2 DEF Underway
    <2> QED BY <2>1, <2>3 DEF R
<1>7. CASE C # << >>
    <2>1. /\ C \in Seq(Blocks) /\ Len(C) \in Nat /\ DOMAIN C = 1 .. Len(C)
          /\ \A i \in 1 .. Len(C) : C[i].id # NoId /\ C[i].id \in IdsOf(C) /\ At(C, C[i].id) = i
          /\ \A i, j \in 1 .. Len(C) : C[i].id = C[j].id => i = j
        BY ChapterIs, InChapter
    <2>2. T = [i \in 1 .. Len(C) |-> G[At(G, C[i].id)]]
        BY <1>7, <2>1
    <2>3. ASSUME NEW i \in 1 .. Len(C)
          PROVE  /\ T[i] = G[At(G, C[i].id)] /\ T[i] \in Blocks /\ T[i].id = C[i].id /\ T[i].text # << >>
        <3>1. C[i].id \in IdsOf(G)
            BY <1>5, <2>1
        <3>2. At(G, C[i].id) \in 1 .. Len(G) /\ G[At(G, C[i].id)].id = C[i].id
            BY <3>1, InChapter
        <3>3. G[At(G, C[i].id)] \in Blocks /\ G[At(G, C[i].id)].text # << >>
            BY <3>2, ChapterIs
        <3>4. T[i] = G[At(G, C[i].id)]
            BY <2>2
        <3> QED BY <3>2, <3>3, <3>4
    <2>4. T \in Seq(Blocks) /\ Len(T) = Len(C) /\ DOMAIN T = 1 .. Len(C)
        <3> DEFINE m == Len(C)
        <3>1. m \in Nat /\ \A i \in 1 .. m : G[At(G, C[i].id)] \in Blocks
            BY <2>1, <2>3
        <3>2. T = [i \in 1 .. m |-> G[At(G, C[i].id)]]
            BY <2>2
        <3> HIDE DEF m
        <3>3. T \in Seq(Blocks) /\ Len(T) = m /\ DOMAIN T = 1 .. m
            BY <3>1, <3>2
        <3> QED BY <3>3 DEF m
    <2>5. IsChapter(T)
        <3>1. \A i \in 1 .. Len(T) : T[i].text # << >> /\ T[i].id # NoId
            BY <2>1, <2>3, <2>4
        <3>2. \A i, j \in 1 .. Len(T) : T[i].id = T[j].id => i = j
            BY <2>1, <2>3, <2>4
        <3> QED BY <2>4, <3>1, <3>2, IsChapterIf
    <2>6. IdList(T) = IdList(C)
        BY <2>1, <2>3, <2>4 DEF IdList
    <2>7. IdsOf(T) = IdsOf(C)
        <3>1. DOMAIN T = DOMAIN C /\ \A i \in DOMAIN C : T[i].id = C[i].id
            BY <2>1, <2>3, <2>4
        <3>2. {T[i].id : i \in DOMAIN T} = {C[i].id : i \in DOMAIN C}
            BY <3>1
        <3> QED BY <3>2 DEF IdsOf
    <2>8. \A id \in IdsOf(C) : T[At(T, id)] = G[At(G, id)]
        <3> SUFFICES ASSUME NEW id \in IdsOf(C) PROVE T[At(T, id)] = G[At(G, id)]
            OBVIOUS
        <3>1. At(C, id) \in 1 .. Len(C) /\ C[At(C, id)].id = id
            BY InChapter
        <3>2. At(T, T[At(C, id)].id) = At(C, id)
            BY <2>4, <2>5, <3>1, InChapter
        <3> DEFINE j == At(C, id)
        <3>3. j \in 1 .. Len(C) /\ C[j].id = id /\ At(T, T[j].id) = j
            BY <3>1, <3>2
        <3> HIDE DEF j
        <3>4. T[j].id = C[j].id /\ T[j] = G[At(G, C[j].id)]
            BY <2>3, <2>2, <2>1, <3>3
        <3>5. At(T, id) = j /\ T[j] = G[At(G, id)]
            BY <3>3, <3>4
        <3> QED BY <3>5
    <2>9. Underway(T, C, R)
        <3>1. \A id \in IdsOf(C) : id \in IdsOf(T) /\ (Pends(R, "changed", id) \/ T[At(T, id)] = C[At(C, id)])
            BY <1>1, <1>3, <1>5, <2>7, <2>8
        <3>2. \A id \in Ids \cup {NoId} : Pends(R, "changed", id) => id \in IdsOf(C) \cap IdsOf(T)
            BY <1>1, <1>3, <2>7
        <3> QED BY <1>1, <1>2, <1>3, <1>4, <2>6, <3>1, <3>2 DEF Underway
    <2> QED BY <2>5, <2>9 DEF R
<1> QED BY <1>6, <1>7

\* When no save is left the graph has the rebuilt paragraphs.
LEMMA Ends ==
    ASSUME NEW G, IsChapter(G), NEW C, IsChapter(C), Underway(G, C, << >>)
    PROVE  C = << >> \/ G = C
<1> SUFFICES ASSUME C # << >> PROVE G = C
    OBVIOUS
<1>1. /\ IdList(G) = IdList(C)
      /\ \A id \in IdsOf(C) : id \in IdsOf(G) /\ G[At(G, id)] = C[At(C, id)]
    <2>1. \A i \in 1 .. Len(<< >>) : FALSE
        OBVIOUS
    <2>2. \A kind, id : ~Pends(<< >>, kind, id)
        BY <2>1 DEF Pends
    <2> QED BY <2>1, <2>2 DEF Underway
<1>2. /\ G \in Seq(Blocks) /\ DOMAIN G = 1 .. Len(G) /\ C \in Seq(Blocks) /\ DOMAIN C = 1 .. Len(C) /\ Len(C) \in Nat /\ Len(G) \in Nat
      /\ \A i \in 1 .. Len(C) : C[i].id \in IdsOf(C) /\ At(C, C[i].id) = i
      /\ \A i \in 1 .. Len(G) : At(G, G[i].id) = i
    BY ChapterIs, InChapter
<1>3. DOMAIN G = DOMAIN C /\ \A i \in DOMAIN C : G[i].id = C[i].id
    <2>1. DOMAIN IdList(G) = DOMAIN G /\ DOMAIN IdList(C) = DOMAIN C
        BY DEF IdList
    <2>2. \A i \in DOMAIN G : IdList(G)[i] = G[i].id
        BY DEF IdList
    <2>3. \A i \in DOMAIN C : IdList(C)[i] = C[i].id
        BY DEF IdList
    <2> QED BY <1>1, <2>1, <2>2, <2>3
<1>4. Len(G) = Len(C)
    <2>1. Len(G) \in Nat /\ Len(C) \in Nat /\ 1 .. Len(G) = 1 .. Len(C)
        BY <1>2, <1>3
    <2>2. \A m, n \in Nat : 1 .. m = 1 .. n => m = n
        <3> SUFFICES ASSUME NEW m \in Nat, NEW n \in Nat, 1 .. m = 1 .. n PROVE m = n
            OBVIOUS
        <3>1. \A i \in Nat : i >= 1 /\ i <= m <=> i >= 1 /\ i <= n
            OBVIOUS
        <3>2. CASE m = 0
            BY <3>1, <3>2
        <3>3. CASE n = 0
            BY <3>1, <3>3
        <3> QED BY <3>1, <3>2, <3>3
    <2> QED BY <2>1, <2>2
<1>5. \A i \in 1 .. Len(C) : G[i] = C[i]
    BY <1>1, <1>2, <1>3, <1>4
<1> QED BY <1>2, <1>4, <1>5

Chapter == [paras : Seq(Blocks), props : SUBSET Props, pov : People \cup {NoPerson}]
File    == [blocks : Seq(Blocks), props : SUBSET Props, pov : Titles \cup {NoLine, EmptyLine}]
Call    == [at : Steps, chapter : Chapter, writes : Seq(Entries), seen : Seq(Blocks), old : Seq(Blocks),
            title : Titles \cup {NoLine}]

Typed ==
    /\ TypeOK
    /\ graph \in Chapter /\ file \in File /\ call \in Call
    /\ IsChapter(graph.paras) /\ IsFile(file.blocks)

\* What the rebuild made of the file and the chapter it read.
Read ==
    call.at \in {"persist", "back", "done"} =>
      /\ IsChapter(call.chapter.paras)
      /\ Ordinary(call.seen, call.old) /\ Spoken(call.seen) # << >> =>
           Words(call.chapter.paras) = Words(Spoken(call.seen))
      /\ IdList(Kept(call.chapter.paras, IdsOf(call.old))) = IdList(Kept(call.old, IdsOf(call.seen)))

\* How far the save has come.
Progress ==
    /\ call.at = "persist" => /\ call.writes # << >>
                              /\ Underway(graph.paras, call.chapter.paras, call.writes)
                              /\ \/ \E i \in 1 .. Len(call.writes) : call.writes[i].kind = "chapter"
                                 \/ graph.props = call.chapter.props /\ graph.pov = call.chapter.pov
    /\ call.at = "back" => graph.props = call.chapter.props /\ graph.pov = call.chapter.pov
    /\ call.at \in {"back", "done"} => call.chapter.paras = << >> \/ graph.paras = call.chapter.paras
    /\ call.at \in {"persist", "back"} /\ clean => file.props \subseteq call.chapter.props
    /\ call.at = "pov" => call.chapter.paras = graph.paras

RebuildInv == Typed /\ Read /\ Progress /\ SettledAfterSave /\ FrontMatterAgrees

-----------------------------------------------------------------------------
(* The specification keeps the invariant.                                    *)
-----------------------------------------------------------------------------
LEMMA TitleIs ==
    ASSUME people \in [People -> Titles \cup {Gone}], NEW who \in People \cup {NoPerson}
    PROVE  TitleOf(who) \in Titles \cup {NoLine}
BY DEF TitleOf

LEMMA IdleIs ==
    ASSUME NEW a \in Steps
    PROVE  /\ Idle(a) \in Call /\ Idle(a).at = a /\ Idle(a).chapter.paras = << >>
           /\ Idle(a) = [at |-> a, chapter |-> [paras |-> << >>, props |-> {}, pov |-> NoPerson],
                         writes |-> << >>, seen |-> << >>, old |-> << >>, title |-> NoLine]
<1>1. << >> \in Seq(Blocks) /\ << >> \in Seq(Entries)
    OBVIOUS
<1>2. [paras |-> << >>, props |-> {}, pov |-> NoPerson] \in Chapter
    BY <1>1 DEF Chapter
<1> QED BY <1>1, <1>2 DEF Idle, Call

\* With no call under way only the types matter.
LEMMA AtRest ==
    ASSUME Typed', call'.at \in {"idle", "line"}
    PROVE  RebuildInv'
BY DEF RebuildInv, Read, Progress, SettledAfterSave, FrontMatterAgrees, Saved

LEMMA RebuildInit == Init => RebuildInv
<1> SUFFICES ASSUME Init PROVE RebuildInv
    OBVIOUS
<1>1. PICK paras \in Drafts, cast \in [People -> Titles], who \in People \cup {NoPerson} :
        /\ people = cast
        /\ graph = [paras |-> paras, props |-> {}, pov |-> who]
        /\ file = [blocks |-> paras, props |-> {}, pov |-> IF who = NoPerson THEN NoLine ELSE cast[who]]
        /\ category \in Categories
        /\ call = Idle("idle") /\ edits = 0 /\ calls = 0 /\ crashes = 0 /\ clean = TRUE
    BY DEF Init
<1>2. IsChapter(paras) /\ paras \in Seq(Blocks)
    BY DraftsAssumption DEF IsChapter, HasText
<1>3. IsFile(paras)
    <2>1. \A i \in DOMAIN paras : paras[i].id # NoId
        BY <1>2 DEF IsChapter, Distinct
    <2> QED BY <1>2, <2>1 DEF IsFile
<1>4. call \in Call /\ call.at = "idle" /\ "idle" \in Steps
    BY <1>1, IdleIs DEF Steps
<1>5. graph \in Chapter /\ file \in File
    BY <1>1, <1>2 DEF Chapter, File
<1>6. TypeOK
    <2>1. 0 \in 0 .. MaxEdits /\ 0 \in 0 .. MaxCalls /\ 0 \in 0 .. MaxCrashes
        BY BoundsAssumption
    <2>2. people \in [People -> Titles \cup {Gone}]
        BY <1>1
    <2>3. Distinct(graph.paras)
        BY <1>1, <1>2 DEF IsChapter
    <2> QED BY <1>1, <1>4, <1>5, <2>1, <2>2, <2>3 DEF TypeOK, Chapter, File
<1>7. Typed
    BY <1>1, <1>2, <1>3, <1>4, <1>5, <1>6 DEF Typed
<1> QED BY <1>4, <1>7 DEF RebuildInv, Read, Progress, SettledAfterSave, FrontMatterAgrees, Saved

-----------------------------------------------------------------------------
(* The writer's edits.                                                       *)
-----------------------------------------------------------------------------
FileBlocks == {b \in Blocks : b.id = NoId => b.quote = NoQuote}

LEMMA FileIs ==
    ASSUME NEW B
    PROVE  IsFile(B) <=> B \in Seq(FileBlocks)
<1>1. ASSUME IsFile(B) PROVE B \in Seq(FileBlocks)
    <2>1. B \in Seq(Blocks) /\ Len(B) \in Nat /\ DOMAIN B = 1 .. Len(B) /\ \A i \in 1 .. Len(B) : B[i] \in Blocks
        BY <1>1, BlockIs DEF IsFile
    <2>2. \A i \in 1 .. Len(B) : B[i] \in FileBlocks
        BY <1>1, <2>1 DEF IsFile, FileBlocks
    <2> QED BY <2>1, <2>2
<1>2. ASSUME B \in Seq(FileBlocks) PROVE IsFile(B)
    <2>1. Len(B) \in Nat /\ DOMAIN B = 1 .. Len(B) /\ \A i \in 1 .. Len(B) : B[i] \in FileBlocks
        BY <1>2
    <2>2. \A i \in 1 .. Len(B) : B[i] \in Blocks /\ (B[i].id = NoId => B[i].quote = NoQuote)
        BY <2>1 DEF FileBlocks
    <2>3. B \in Seq(Blocks)
        BY <1>2, <2>1, <2>2
    <2> QED BY <2>1, <2>2, <2>3 DEF IsFile
<1> QED BY <1>1, <1>2

LEMMA TextIs ==
    ASSUME NEW t \in Texts
    PROVE  t \in AllTexts
<1> DEFINE A == UNION {ToSet(u) : u \in Texts}
<1>1. t \in Seq(ToSet(t))
    BY TextsAssumption
<1>2. \A x \in ToSet(t) : x \in A
    OBVIOUS
<1> HIDE DEF A
<1>3. \A S : t \in Seq(S) /\ (\A x \in S : x \in A) => t \in Seq(A)
    OBVIOUS
<1>4. t \in Seq(A)
    BY <1>1, <1>2, <1>3
<1> QED BY <1>4 DEF A, AllTexts

\* A file that the writer has edited is a file.
LEMMA EditedIs ==
    ASSUME NEW B, IsFile(B), NEW b \in Edited(B)
    PROVE  IsFile(b)
<1>1. B \in Seq(FileBlocks) /\ Len(B) \in Nat /\ DOMAIN B = 1 .. Len(B) /\ \A i \in 1 .. Len(B) : B[i] \in FileBlocks
    BY FileIs
<1>2. \A x \in FileBlocks : x \in Blocks /\ x = [id |-> x.id, text |-> x.text, quote |-> x.quote]
    BY DEF FileBlocks, Blocks
<1>3. ASSUME NEW i \in 1 .. Len(B), NEW t \in Texts PROVE [B EXCEPT ![i].text = t] \in Seq(FileBlocks)
    <2>1. [B[i] EXCEPT !.text = t] \in FileBlocks
        <3>1. t \in AllTexts
            BY TextIs
        <3>2. B[i] \in Blocks /\ (B[i].id = NoId => B[i].quote = NoQuote)
            BY <1>1 DEF FileBlocks
        <3> DEFINE T == AllTexts
        <3>3. Blocks = [id : Ids \cup {NoId}, text : T, quote : Quotes \cup {NoQuote}]
            BY DEF Blocks, AllTexts
        <3> HIDE DEF T
        <3> QED BY <3>1, <3>2, <3>3 DEF FileBlocks, T
    <2>2. [B EXCEPT ![i].text = t] = [B EXCEPT ![i] = [B[i] EXCEPT !.text = t]]
        BY <1>1
    <2> QED BY <1>1, <2>1, <2>2
<1>4. ASSUME NEW i \in 1 .. Len(B), B[i].id # NoId, NEW q \in Quotes PROVE [B EXCEPT ![i].quote = q] \in Seq(FileBlocks)
    <2>1. [B[i] EXCEPT !.quote = q] \in FileBlocks
        <3>1. B[i] \in Blocks
            BY <1>1 DEF FileBlocks
        <3> DEFINE T == AllTexts
        <3>2. Blocks = [id : Ids \cup {NoId}, text : T, quote : Quotes \cup {NoQuote}]
            BY DEF Blocks, AllTexts
        <3> HIDE DEF T
        <3> QED BY <1>4, <3>1, <3>2 DEF FileBlocks
    <2>2. [B EXCEPT ![i].quote = q] = [B EXCEPT ![i] = [B[i] EXCEPT !.quote = q]]
        BY <1>1
    <2> QED BY <1>1, <2>1, <2>2
<1>5. ASSUME NEW i \in 1 .. Len(B) PROVE RemoveAt(B, i) \in Seq(FileBlocks)
    <2>1. SubSeq(B, 1, i - 1) \in Seq(FileBlocks) /\ SubSeq(B, i + 1, Len(B)) \in Seq(FileBlocks)
        BY <1>1
    <2> QED BY <2>1, JoinIs DEF RemoveAt
<1>6. ASSUME NEW i \in 1 .. Len(B) - 1
      PROVE  ReplaceAt(ReplaceAt(B, i, B[i + 1]), i + 1, B[i]) \in Seq(FileBlocks)
    <2>1. i \in 1 .. Len(B) /\ i + 1 \in 1 .. Len(B) /\ B[i] \in FileBlocks /\ B[i + 1] \in FileBlocks
        BY <1>1
    <2> DEFINE c == ReplaceAt(B, i, B[i + 1])
    <2>2. c \in Seq(FileBlocks) /\ Len(c) = Len(B)
        BY <1>1, <2>1 DEF ReplaceAt
    <2> HIDE DEF c
    <2>3. ReplaceAt(c, i + 1, B[i]) \in Seq(FileBlocks)
        BY <2>1, <2>2 DEF ReplaceAt
    <2> QED BY <2>3 DEF c
<1>7. ASSUME NEW i \in 1 .. Len(B) PROVE InsertAt(B, i, B[i]) \in Seq(FileBlocks)
    <2>1. i \in 1 .. Len(B) + 1 /\ B[i] \in FileBlocks
        BY <1>1
    <2> QED BY <1>1, <2>1, InsertAtIs
<1>8. ASSUME NEW i \in 1 .. Len(B) + 1, NEW x \in [id : {NoId, Foreign}, text : Texts \ {<< >>}, quote : {NoQuote}]
      PROVE  InsertAt(B, i, x) \in Seq(FileBlocks)
    <2>1. x \in FileBlocks
        <3>1. x.id \in Ids \cup {NoId} /\ x.text \in AllTexts /\ x.quote = NoQuote
            BY TextIs, IdsAssumption
        <3> DEFINE T == AllTexts
        <3>2. Blocks = [id : Ids \cup {NoId}, text : T, quote : Quotes \cup {NoQuote}]
            BY DEF Blocks, AllTexts
        <3> HIDE DEF T
        <3> QED BY <3>1, <3>2 DEF FileBlocks, T
    <2> QED BY <1>1, <2>1, InsertAtIs
<1>9. b \in Seq(FileBlocks)
    <2>1. CASE b \in Retyped(B)
        <3>1. PICK i \in DOMAIN B, t \in Texts : b = [B EXCEPT ![i].text = t]
            BY <2>1 DEF Retyped
        <3> QED BY <1>1, <1>3, <3>1
    <2>2. CASE b \in Requoted(B)
        <3>1. PICK i \in DOMAIN B, q \in Quotes : B[i].id # NoId /\ b = [B EXCEPT ![i].quote = q]
            BY <2>2 DEF Requoted
        <3> QED BY <1>1, <1>4, <3>1
    <2>3. CASE b \in Cut(B)
        BY <1>1, <1>5, <2>3 DEF Cut
    <2>4. CASE b \in Swapped(B)
        BY <1>6, <2>4 DEF Swapped
    <2>5. CASE b \in Copied(B)
        BY <1>1, <1>7, <2>5 DEF Copied
    <2>6. CASE b \in Pasted(B)
        <3>1. PICK i \in 1 .. Len(B) + 1, x \in [id : {NoId, Foreign}, text : Texts \ {<< >>}, quote : {NoQuote}] :
                b = InsertAt(B, i, x)
            BY <2>6 DEF Pasted
        <3> QED BY <1>8, <3>1
    <2> QED BY <2>1, <2>2, <2>3, <2>4, <2>5, <2>6 DEF Edited
<1> QED BY <1>9, FileIs

-----------------------------------------------------------------------------
(* The actions, one by one.                                                  *)
-----------------------------------------------------------------------------
LEMMA SetPovInv ==
    ASSUME RebuildInv, NEW who \in People \cup {NoPerson}, SetPov(who)
    PROVE  RebuildInv'
<1>1. Typed /\ TypeOK
    BY DEF RebuildInv, Typed
<1>2. /\ call' = [Idle("pov") EXCEPT !.chapter = [graph EXCEPT !.pov = who], !.title = TitleOf(who)]
      /\ calls < MaxCalls /\ calls' = calls + 1
      /\ UNCHANGED <<graph, file, people, category, edits, crashes, clean>>
    BY DEF SetPov
<1>3. graph \in Chapter /\ [graph EXCEPT !.pov = who] \in Chapter /\ [graph EXCEPT !.pov = who].paras = graph.paras
    BY <1>1 DEF Typed, Chapter
<1>4. TitleOf(who) \in Titles \cup {NoLine}
    BY <1>1, TitleIs DEF TypeOK
<1>5. Idle("pov") \in Call /\ "pov" \in Steps
    BY IdleIs DEF Steps
<1>6. call' \in Call /\ call'.at = "pov" /\ call'.chapter.paras = graph.paras
    <2>1. call' = [[Idle("pov") EXCEPT !.chapter = [graph EXCEPT !.pov = who]] EXCEPT !.title = TitleOf(who)]
        BY <1>2, <1>5 DEF Call
    <2>2. Idle("pov").at = "pov"
        BY <1>5, IdleIs
    <2> DEFINE g == [graph EXCEPT !.pov = who]
               t == TitleOf(who)
    <2> HIDE DEF g, t
    <2> QED BY <1>2, <1>3, <1>4, <1>5, <2>2 DEF Call, g, t
<1>7. calls' \in 0 .. MaxCalls
    BY <1>1, <1>2, BoundsAssumption DEF TypeOK
<1>8. Typed'
    <2>1. TypeOK'
        BY <1>1, <1>2, <1>6, <1>7 DEF TypeOK, Steps
    <2> QED BY <1>1, <1>2, <1>6, <2>1 DEF Typed, IsChapter, IsFile, Distinct, HasText, Blocks
<1> QED BY <1>2, <1>6, <1>8 DEF RebuildInv, Read, Progress, SettledAfterSave, FrontMatterAgrees, Saved

LEMMA PovCommitInv ==
    ASSUME RebuildInv, PovCommit
    PROVE  RebuildInv'
<1>1. Typed /\ TypeOK /\ call.at = "pov" /\ call.chapter.paras = graph.paras
    BY DEF RebuildInv, Typed, Progress, PovCommit
<1>2. /\ graph' = WithChapter(call.chapter) /\ call' = [call EXCEPT !.at = "line"]
      /\ UNCHANGED <<file, people, category, edits, calls, crashes, clean>>
    BY DEF PovCommit
<1>3. IsChapter(graph.paras) /\ graph \in Chapter /\ call \in Call /\ call.chapter \in Chapter
    BY <1>1 DEF Typed, Call
<1>4. graph'.paras = graph.paras
    <2>1. graph'.paras = IF graph.paras = << >> THEN graph.paras
                         ELSE [i \in DOMAIN graph.paras |-> graph.paras[At(graph.paras, graph.paras[i].id)]]
        BY <1>1, <1>2 DEF WithChapter
    <2>2. graph.paras \in Seq(Blocks) /\ DOMAIN graph.paras = 1 .. Len(graph.paras)
        BY <1>3, ChapterIs
    <2>3. \A i \in 1 .. Len(graph.paras) : At(graph.paras, graph.paras[i].id) = i
        BY <1>3, InChapter
    <2>4. [i \in DOMAIN graph.paras |-> graph.paras[At(graph.paras, graph.paras[i].id)]] = graph.paras
        BY <2>2, <2>3
    <2> QED BY <2>1, <2>4
<1>5. graph' \in Chapter
    <2>1. graph' = [paras |-> graph.paras, props |-> call.chapter.props, pov |-> call.chapter.pov]
        BY <1>2, <1>4 DEF WithChapter
    <2> QED BY <1>3, <2>1 DEF Chapter
<1>6. call' \in Call /\ call'.at = "line" /\ "line" \in Steps
    BY <1>2, <1>3 DEF Call, Steps
<1>7. Typed'
    <2>1. TypeOK'
        BY <1>1, <1>2, <1>4, <1>5, <1>6 DEF TypeOK, Chapter
    <2> QED BY <1>1, <1>2, <1>3, <1>4, <1>5, <1>6, <2>1 DEF Typed
<1> QED BY <1>6, <1>7, AtRest

LEMMA PovLineInv ==
    ASSUME RebuildInv, PovLine
    PROVE  RebuildInv'
<1>1. Typed /\ TypeOK
    BY DEF RebuildInv, Typed
<1>2. /\ file' = [file EXCEPT !.pov = call.title] /\ call' = Idle("idle")
      /\ UNCHANGED <<graph, people, category, edits, calls, crashes, clean>>
    BY DEF PovLine
<1>3. file \in File /\ call \in Call /\ call.title \in Titles \cup {NoLine}
    BY <1>1 DEF Typed, Call
<1>4. file' \in File /\ file'.blocks = file.blocks
    BY <1>2, <1>3 DEF File
<1>5. call' \in Call /\ call'.at = "idle" /\ "idle" \in Steps
    BY <1>2, IdleIs DEF Steps
<1>6. Typed'
    <2>1. TypeOK'
        BY <1>1, <1>2, <1>4, <1>5 DEF TypeOK, File
    <2> QED BY <1>1, <1>2, <1>4, <1>5, <2>1 DEF Typed
<1> QED BY <1>5, <1>6, AtRest

LEMMA CrashInv ==
    ASSUME RebuildInv, Crash
    PROVE  RebuildInv'
<1>1. Typed /\ TypeOK
    BY DEF RebuildInv, Typed
<1>2. /\ crashes < MaxCrashes /\ crashes' = crashes + 1 /\ call' = Idle("idle")
      /\ UNCHANGED <<graph, file, people, category, edits, calls, clean>>
    BY DEF Crash
<1>3. call' \in Call /\ call'.at = "idle" /\ "idle" \in Steps
    BY <1>2, IdleIs DEF Steps
<1>4. crashes' \in 0 .. MaxCrashes
    BY <1>1, <1>2, BoundsAssumption DEF TypeOK
<1>5. Typed'
    <2>1. TypeOK'
        BY <1>1, <1>2, <1>3, <1>4 DEF TypeOK
    <2> QED BY <1>1, <1>2, <1>3, <2>1 DEF Typed
<1> QED BY <1>3, <1>5, AtRest

LEMMA EditFileInv ==
    ASSUME RebuildInv, EditFile
    PROVE  RebuildInv'
<1>1. Typed /\ TypeOK /\ IsFile(file.blocks) /\ file \in File /\ call \in Call
    BY DEF RebuildInv, Typed
<1>2. /\ edits < MaxEdits /\ edits' = edits + 1 /\ call' = IF Free THEN Idle("idle") ELSE call
      /\ clean' = FALSE
      /\ UNCHANGED <<graph, people, category, calls, crashes>>
    BY DEF EditFile, Touch
<1>3. file' \in File /\ IsFile(file'.blocks)
    <2>1. CASE \E blocks \in Edited(file.blocks) : file' = [file EXCEPT !.blocks = blocks]
        <3>1. PICK blocks \in Edited(file.blocks) : file' = [file EXCEPT !.blocks = blocks]
            BY <2>1
        <3>2. IsFile(blocks)
            BY <1>1, EditedIs
        <3>3. blocks \in Seq(Blocks)
            BY <3>2 DEF IsFile
        <3>4. file' \in File /\ file'.blocks = blocks
            BY <1>1, <3>1, <3>3 DEF File
        <3> QED BY <3>2, <3>4
    <2>2. CASE \E line \in Titles \cup {NoLine, EmptyLine} : file' = [file EXCEPT !.pov = line]
        <3>1. file' \in File /\ file'.blocks = file.blocks
            BY <1>1, <2>2 DEF File
        <3> QED BY <1>1, <3>1
    <2>3. CASE \E props \in SUBSET Props : file' = [file EXCEPT !.props = props]
        <3>1. file' \in File /\ file'.blocks = file.blocks
            BY <1>1, <2>3 DEF File
        <3> QED BY <1>1, <3>1
    <2> QED BY <2>1, <2>2, <2>3 DEF EditFile
<1>4. call' \in Call
    BY <1>1, <1>2, IdleIs DEF Steps
<1>5. edits' \in 0 .. MaxEdits
    BY <1>1, <1>2, BoundsAssumption DEF TypeOK
<1>6. Typed'
    <2>1. TypeOK'
        BY <1>1, <1>2, <1>3, <1>4, <1>5 DEF TypeOK, File, Call
    <2> QED BY <1>1, <1>2, <1>3, <1>4, <2>1 DEF Typed
<1>7. CASE Free
    <2>1. call'.at = "idle"
        BY <1>2, <1>7, IdleIs DEF Steps
    <2> QED BY <1>6, <2>1, AtRest
<1>8. CASE ~Free
    <2>1. call' = call /\ graph' = graph /\ clean' = FALSE /\ call.at # "done"
        BY <1>2, <1>8 DEF Free
    <2>2. Read' /\ Progress'
        BY <2>1 DEF RebuildInv, Read, Progress
    <2> QED BY <1>6, <2>1, <2>2 DEF RebuildInv, SettledAfterSave, FrontMatterAgrees, Saved
<1> QED BY <1>7, <1>8

LEMMA EditPeopleInv ==
    ASSUME RebuildInv, EditPeople
    PROVE  RebuildInv'
<1>1. Typed /\ TypeOK /\ call \in Call
    BY DEF RebuildInv, Typed
<1>2. /\ edits < MaxEdits /\ edits' = edits + 1 /\ call' = IF Free THEN Idle("idle") ELSE call
      /\ UNCHANGED <<graph, file, category, calls, crashes, clean>>
      /\ \E c \in People, t \in Titles \cup {Gone} : people' = [people EXCEPT ![c] = t]
    BY DEF EditPeople, Touch
<1>3. people' \in [People -> Titles \cup {Gone}]
    BY <1>1, <1>2 DEF TypeOK
<1>4. call' \in Call
    BY <1>1, <1>2, IdleIs DEF Steps
<1>5. edits' \in 0 .. MaxEdits
    BY <1>1, <1>2, BoundsAssumption DEF TypeOK
<1>6. Typed'
    <2>1. TypeOK'
        BY <1>1, <1>2, <1>3, <1>4, <1>5 DEF TypeOK, Call
    <2> QED BY <1>1, <1>2, <1>4, <2>1 DEF Typed
<1>7. CASE Free
    <2>1. call'.at = "idle"
        BY <1>2, <1>7, IdleIs DEF Steps
    <2> QED BY <1>6, <2>1, AtRest
<1>8. CASE ~Free
    <2>1. call' = call /\ graph' = graph /\ file' = file /\ clean' = clean /\ call.at # "done"
        BY <1>2, <1>8 DEF Free
    <2>2. Read' /\ Progress'
        BY <2>1 DEF RebuildInv, Read, Progress
    <2> QED BY <1>6, <2>1, <2>2 DEF RebuildInv, SettledAfterSave, FrontMatterAgrees, Saved
<1> QED BY <1>7, <1>8

LEMMA WriteBackInv ==
    ASSUME RebuildInv, WriteBack
    PROVE  RebuildInv'
<1>1. /\ Typed /\ TypeOK /\ call \in Call /\ call.chapter \in Chapter /\ call.at = "back"
      /\ graph \in Chapter /\ file \in File /\ IsChapter(graph.paras)
      /\ Read /\ Progress
    BY DEF RebuildInv, Typed, WriteBack, Call
<1>2. /\ file' = [blocks |-> Rendered(call.chapter.paras), props |-> PropsWritten, pov |-> TitleOf(call.chapter.pov)]
      /\ call' = [call EXCEPT !.at = "done"]
      /\ UNCHANGED <<graph, people, category, edits, calls, crashes, clean>>
    BY DEF WriteBack
<1>3. /\ IsChapter(call.chapter.paras)
      /\ graph.props = call.chapter.props /\ graph.pov = call.chapter.pov
      /\ call.chapter.paras = << >> \/ graph.paras = call.chapter.paras
      /\ clean => file.props \subseteq call.chapter.props
    BY <1>1 DEF Read, Progress
<1>4. Rendered(call.chapter.paras) = call.chapter.paras
    BY <1>3, Itself DEF Rendered
<1>5. call.chapter.pov \in People \cup {NoPerson} /\ TitleOf(call.chapter.pov) \in Titles \cup {NoLine}
    BY <1>1, TitleIs DEF TypeOK, Chapter
<1>6. IsFile(call.chapter.paras)
    BY <1>3 DEF IsFile, IsChapter, Distinct
<1>7. PropsWritten \subseteq Props /\ (clean => PropsWritten = graph.props)
    BY <1>1, <1>3 DEF PropsWritten, File, Chapter
<1>8. file' \in File /\ file'.blocks = call.chapter.paras /\ file'.props = PropsWritten /\ file'.pov = TitleOf(graph.pov)
    <2>1. call.chapter.paras \in Seq(Blocks)
        BY <1>3 DEF IsChapter
    <2> QED BY <1>2, <1>3, <1>4, <1>5, <1>7, <2>1 DEF File
<1>9. /\ call' \in Call /\ call'.at = "done" /\ "done" \in Steps /\ call'.chapter = call.chapter
      /\ call'.seen = call.seen /\ call'.old = call.old
    BY <1>1, <1>2 DEF Call, Steps
<1>10. Typed'
    <2>1. TypeOK'
        BY <1>1, <1>2, <1>8, <1>9 DEF TypeOK, File
    <2> QED BY <1>1, <1>2, <1>6, <1>8, <1>9, <2>1 DEF Typed
<1>11. Read' /\ Progress'
    BY <1>1, <1>2, <1>3, <1>9 DEF Read, Progress
<1>12. SettledAfterSave'
    BY <1>2, <1>3, <1>8, <1>9, Itself DEF SettledAfterSave
<1>13. FrontMatterAgrees'
    <2> SUFFICES ASSUME Saved' PROVE /\ file'.props = graph'.props
                                     /\ IF graph'.pov = NoPerson THEN file'.pov \in {NoLine, EmptyLine}
                                        ELSE file'.pov = IF people'[graph'.pov] = Gone THEN NoLine ELSE people'[graph'.pov]
        BY DEF FrontMatterAgrees
    <2>1. clean
        BY <1>2 DEF Saved
    <2> QED BY <1>2, <1>7, <1>8, <2>1 DEF TitleOf
<1> QED BY <1>10, <1>11, <1>12, <1>13 DEF RebuildInv

\* What a save of the commit has to leave.
LEMMA PersistKeeps ==
    ASSUME RebuildInv, Persist, graph' \in Chapter, IsChapter(graph'.paras),
           Underway(graph'.paras, call.chapter.paras, Tail(call.writes)),
           \/ \E i \in 1 .. Len(Tail(call.writes)) : Tail(call.writes)[i].kind = "chapter"
           \/ graph'.props = call.chapter.props /\ graph'.pov = call.chapter.pov
    PROVE  RebuildInv'
<1> DEFINE R == Tail(call.writes)
<1>1. /\ Typed /\ TypeOK /\ call \in Call /\ call.at = "persist" /\ Read /\ Progress /\ call.writes \in Seq(Entries)
    BY DEF RebuildInv, Typed, Persist, Call
<1>2. /\ call' = [call EXCEPT !.writes = R, !.at = IF R = << >> THEN "back" ELSE "persist"]
      /\ UNCHANGED <<file, people, category, edits, calls, crashes, clean>>
    BY DEF Persist
<1>3. R \in Seq(Entries)
    BY <1>1, Passing DEF Progress
<1> HIDE DEF R
<1>4. /\ call' \in Call /\ call'.at = (IF R = << >> THEN "back" ELSE "persist") /\ call'.writes = R
      /\ call'.chapter = call.chapter /\ call'.seen = call.seen /\ call'.old = call.old
    BY <1>1, <1>2, <1>3 DEF Call, Steps
<1>5. Typed'
    <2>1. TypeOK'
        BY <1>1, <1>2, <1>4 DEF TypeOK, Call, Chapter, IsChapter
    <2> QED BY <1>1, <1>2, <1>4, <2>1 DEF Typed
<1>6. Read'
    BY <1>1, <1>4 DEF Read
<1>7. Progress'
    <2>1. CASE R # << >>
        BY <1>1, <1>2, <1>4, <2>1 DEF Progress, R
    <2>2. CASE R = << >>
        <3>1. call.chapter.paras = << >> \/ graph'.paras = call.chapter.paras
            BY <1>1, <2>2, Ends DEF Read, R
        <3>2. graph'.props = call.chapter.props /\ graph'.pov = call.chapter.pov
            <4>1. ~\E i \in 1 .. Len(R) : R[i].kind = "chapter"
                BY <2>2
            <4> QED BY <4>1 DEF R
        <3>3. call'.at = "back"
            BY <1>4, <2>2
        <3> QED BY <1>1, <1>2, <1>4, <3>1, <3>2, <3>3 DEF Progress
    <2> QED BY <2>1, <2>2
<1> QED BY <1>4, <1>5, <1>6, <1>7 DEF RebuildInv, SettledAfterSave, FrontMatterAgrees, Saved

LEMMA PersistInv ==
    ASSUME RebuildInv, Persist
    PROVE  RebuildInv'
<1> DEFINE G == graph.paras
           C == call.chapter.paras
           W == call.writes
           h == Head(W)
           k == At(G, h.id)
           r == C[At(C, h.id)]
<1>1. /\ Typed /\ TypeOK /\ call.at = "persist" /\ Read /\ Progress
      /\ graph \in Chapter /\ IsChapter(G) /\ call.chapter \in Chapter /\ W \in Seq(Entries)
    BY DEF RebuildInv, Typed, Persist, Call
<1>2. /\ IsChapter(C) /\ W # << >> /\ Underway(G, C, W)
      /\ \/ \E i \in 1 .. Len(W) : W[i].kind = "chapter"
         \/ graph.props = call.chapter.props /\ graph.pov = call.chapter.pov
    BY <1>1 DEF Read, Progress
<1>3. /\ h \in Entries
      /\ (\E i \in 1 .. Len(W) : W[i].kind = "chapter") =>
           h.kind = "chapter" \/ \E i \in 1 .. Len(Tail(W)) : Tail(W)[i].kind = "chapter"
    BY <1>1, <1>2, Passing
<1>4. h.kind \in {"sentences", "added", "chapter", "changed"}
    BY <1>3 DEF Entries, Writes
<1>5. graph' = CASE h.kind = "sentences" -> WithSentences(h.id)
                 [] h.kind = "added"     -> WithAdded(h.id)
                 [] h.kind = "chapter"   -> WithChapter(call.chapter)
                 [] h.kind = "changed"   -> WithChanged(h.id)
    BY DEF Persist
<1>6. G \in Seq(Blocks) /\ Len(G) \in Nat /\ DOMAIN G = 1 .. Len(G)
    BY <1>1, ChapterIs
<1>7. ASSUME h.kind \in {"sentences", "changed"}
      PROVE  /\ k \in 1 .. Len(G) /\ G[k] \in Blocks /\ G[k].id = h.id /\ G[k].text # << >>
             /\ r \in Blocks /\ r.id = h.id /\ r.text # << >>
    <2>1. h.id \in IdsOf(C) \cap IdsOf(G)
        BY <1>2, <1>7, InBoth
    <2>2. k \in 1 .. Len(G) /\ G[k].id = h.id /\ At(C, h.id) \in 1 .. Len(C) /\ r.id = h.id
        BY <1>1, <1>2, <2>1, InChapter
    <2> QED BY <1>1, <1>2, <2>2, ChapterIs
<1>8. ASSUME NEW b \in Blocks, b.id = h.id, b.text # << >>, h.kind \in {"sentences", "changed"},
             h.kind = "changed" => b = r, graph' = [graph EXCEPT !.paras = [G EXCEPT ![k] = b]]
      PROVE  RebuildInv'
    <2> DEFINE T == [G EXCEPT ![k] = b]
    <2>1. k \in 1 .. Len(G)
        BY <1>7, <1>8
    <2>2. T \in Seq(Blocks) /\ Len(T) = Len(G) /\ T[k] = b /\ \A j \in 1 .. Len(G) : j # k => T[j] = G[j]
        <3> HIDE DEF G, k
        <3> QED BY <1>6, <2>1
    <2>3. graph' \in Chapter /\ graph'.paras = T /\ graph'.props = graph.props /\ graph'.pov = graph.pov
        <3>1. graph' = [graph EXCEPT !.paras = T]
            BY <1>8
        <3> HIDE DEF T
        <3> QED BY <1>1, <2>2, <3>1 DEF Chapter
    <2> HIDE DEF T
    <2>4. IsChapter(T) /\ Underway(T, C, Tail(W))
        BY <1>1, <1>2, <1>8, <2>2, Amended
    <2> QED BY <1>2, <1>3, <1>8, <2>3, <2>4, PersistKeeps
<1>9. CASE h.kind = "sentences"
    <2> DEFINE b == [G[k] EXCEPT !.text = @ \o r.text]
    <2>1. G[k].text \in AllTexts /\ r.text \in AllTexts
        BY <1>7, <1>9 DEF Blocks, AllTexts
    <2>2. G[k].text \o r.text \in AllTexts /\ G[k].text \o r.text # << >>
        <3> DEFINE S == UNION {ToSet(t) : t \in Texts}
                   x == G[k].text
                   y == r.text
        <3>1. x \in Seq(S) /\ y \in Seq(S) /\ x # << >>
            BY <1>7, <1>9, <2>1 DEF AllTexts
        <3> HIDE DEF S, x, y
        <3>2. x \o y \in Seq(S) /\ x \o y # << >>
            BY <3>1
        <3> QED BY <3>2 DEF S, x, y, AllTexts
    <2>3. b \in Blocks /\ b.id = h.id /\ b.text # << >>
        <3> DEFINE T == AllTexts
                   x == G[k]
                   y == G[k].text \o r.text
        <3>1. Blocks = [id : Ids \cup {NoId}, text : T, quote : Quotes \cup {NoQuote}]
            BY DEF Blocks, AllTexts
        <3>2. x \in Blocks /\ x.id = h.id /\ y \in T /\ y # << >> /\ b = [x EXCEPT !.text = y]
            BY <1>7, <1>9, <2>2
        <3> HIDE DEF T, x, y, b
        <3> QED BY <3>1, <3>2
    <2>4. graph' = [graph EXCEPT !.paras = [G EXCEPT ![k] = b]]
        <3>1. graph' = [graph EXCEPT !.paras[k].text = @ \o r.text]
            BY <1>5, <1>9 DEF WithSentences, Node, Rebuild
        <3> QED BY <1>1, <1>6, <1>7, <1>9, <3>1 DEF Chapter
    <2> HIDE DEF b
    <2> QED BY <1>8, <1>9, <2>3, <2>4
<1>10. CASE h.kind = "changed"
    <2>1. graph' = [graph EXCEPT !.paras = [G EXCEPT ![k] = r]]
        <3>1. graph' = [graph EXCEPT !.paras[k] = r]
            BY <1>5, <1>10 DEF WithChanged, Node, Rebuild
        <3> QED BY <1>1, <3>1 DEF Chapter
    <2> QED BY <1>7, <1>8, <1>10, <2>1
<1>11. CASE h.kind = "added"
    <2> DEFINE T == Append(G, r)
    <2>1. IsChapter(T) /\ Underway(T, C, Tail(W))
        BY <1>1, <1>2, <1>11, Appended
    <2>2. graph' = [graph EXCEPT !.paras = T]
        BY <1>1, <1>5, <1>11 DEF WithAdded, Rebuild, Chapter
    <2>3. T \in Seq(Blocks)
        BY <2>1 DEF IsChapter
    <2> HIDE DEF T
    <2>4. graph' \in Chapter /\ graph'.paras = T /\ graph'.props = graph.props /\ graph'.pov = graph.pov
        BY <1>1, <2>2, <2>3 DEF Chapter
    <2> QED BY <1>2, <1>3, <1>11, <2>1, <2>4, PersistKeeps
<1>12. CASE h.kind = "chapter"
    <2> DEFINE T == IF C = << >> THEN G ELSE [i \in DOMAIN C |-> G[At(G, C[i].id)]]
    <2>1. graph' = [paras |-> T, props |-> call.chapter.props, pov |-> call.chapter.pov]
        BY <1>5, <1>12 DEF WithChapter
    <2> HIDE DEF T
    <2>2. T = IF C = << >> THEN G ELSE [i \in DOMAIN C |-> G[At(G, C[i].id)]]
        BY DEF T
    <2>3. IsChapter(T) /\ Underway(T, C, Tail(W))
        BY <1>1, <1>2, <1>12, <2>2, Relisted
    <2>4. T \in Seq(Blocks)
        BY <2>3 DEF IsChapter
    <2>5. /\ graph' \in Chapter /\ graph'.paras = T
          /\ graph'.props = call.chapter.props /\ graph'.pov = call.chapter.pov
        BY <1>1, <2>1, <2>4 DEF Chapter
    <2> QED BY <2>3, <2>5, PersistKeeps
<1> QED BY <1>4, <1>9, <1>10, <1>11, <1>12

LEMMA SaveInv ==
    ASSUME RebuildInv, Save
    PROVE  RebuildInv'
<1> DEFINE B == file.blocks
           P == graph.paras
           n == Len(New(B, P))
           ids == FreshIds(n)
           C == Rebuilt(B, P, ids)
           W == WritesOf(Changed(B, P), ids)
           same == SameText(B, P) /\ ~FrontChanged
           whole == [paras |-> C, props |-> PropsApplied, pov |-> PovApplied]
           local == [Idle("done") EXCEPT !.chapter = whole, !.seen = B, !.old = P]
<1>1. /\ Typed /\ TypeOK /\ graph \in Chapter /\ file \in File /\ IsChapter(P) /\ IsFile(B)
      /\ P \in Seq(Blocks) /\ B \in Seq(Blocks)
    BY DEF RebuildInv, Typed, IsChapter, IsFile
<1>2. /\ Available(n) /\ calls < MaxCalls /\ calls' = calls + 1 /\ clean' = TRUE
      /\ call' = IF same THEN local ELSE [local EXCEPT !.at = "persist", !.writes = W]
      /\ UNCHANGED <<graph, file, people, category, edits, crashes>>
    BY DEF Save
<1>3. Drawn(ids, B, P)
    <2>1. n \in Nat
        BY <1>1, NewIs
    <2>2. \A id \in Unused : id \notin IdsOf(P)
        BY DEF Unused
    <2> HIDE DEF n, P
    <2>3. ids \in Seq(Ids) /\ Len(ids) = n /\ \A k \in 1 .. n : ids[k] \notin IdsOf(P) /\ \A l \in 1 .. n : ids[l] = ids[k] => l = k
        BY <1>2, <2>1, <2>2, FreshIs
    <2> QED BY <2>3 DEF Drawn, n, P
<1>4. IsChapter(C) /\ C \in Seq(Blocks) /\ IdList(Kept(C, IdsOf(P))) = IdList(Kept(P, IdsOf(B)))
    BY <1>1, <1>3, RebuiltKeeps DEF IsChapter
<1>5. Ordinary(B, P) => Words(C) = Words(Spoken(B))
    BY <1>1, <1>3, RebuiltReads
<1>6. Underway(P, C, W) /\ W # << >> /\ (\E i \in 1 .. Len(W) : W[i].kind = "chapter") /\ W \in Seq(Entries)
    BY <1>1, <1>3, Starts DEF Underway
<1>7. SameText(B, P) => C = P
    BY <1>1, SameRebuilt
<1> HIDE DEF n, ids, C, W
<1>8. PropsApplied \in SUBSET Props /\ file.props \subseteq PropsApplied
    BY <1>1 DEF PropsApplied, Chapter, File
<1>9. PovApplied \in People \cup {NoPerson}
    BY <1>1 DEF PovApplied, Matches, Chapter
<1>10. whole \in Chapter
    BY <1>4, <1>8, <1>9 DEF Chapter
<1>11. /\ local \in Call /\ local.at = "done" /\ local.chapter = whole /\ local.seen = B /\ local.old = P
       /\ local.writes = << >>
    <2>1. /\ Idle("done") \in Call /\ Idle("done").at = "done" /\ Idle("done").writes = << >>
        BY IdleIs DEF Steps, Idle
    <2> HIDE DEF whole, B, P
    <2> QED BY <1>1, <1>10, <2>1 DEF Call, B, P
<1>12. /\ call' \in Call /\ call'.chapter = whole /\ call'.seen = B /\ call'.old = P
       /\ same => call'.at = "done"
       /\ ~same => call'.at = "persist" /\ call'.writes = W
    <2> HIDE DEF local, whole, B, P, same
    <2>1. CASE same
        BY <1>2, <1>11, <2>1
    <2>2. CASE ~same
        <3>1. call' = [local EXCEPT !.at = "persist", !.writes = W]
            BY <1>2, <2>2
        <3> QED BY <1>6, <1>11, <2>2, <3>1 DEF Call, Steps
    <2> QED BY <2>1, <2>2
<1>13. call'.chapter.paras = C /\ call'.chapter.props = PropsApplied /\ call'.chapter.pov = PovApplied
    BY <1>12
<1>14. calls' \in 0 .. MaxCalls
    BY <1>1, <1>2, BoundsAssumption DEF TypeOK
<1>15. graph' = graph /\ file' = file /\ people' = people /\ clean' = TRUE
    BY <1>2
<1>16. Typed'
    <2>1. TypeOK'
        BY <1>1, <1>2, <1>12, <1>14 DEF TypeOK, Call
    <2> QED BY <1>1, <1>2, <1>12, <2>1 DEF Typed
<1>17. Read'
    BY <1>4, <1>5, <1>12, <1>13 DEF Read
<1>18. CASE ~same
    <2>1. Progress'
        BY <1>6, <1>8, <1>12, <1>13, <1>15, <1>18 DEF Progress
    <2> QED BY <1>12, <1>16, <1>17, <1>18, <2>1 DEF RebuildInv, SettledAfterSave, FrontMatterAgrees, Saved
<1>19. CASE same
    <2>1. Progress'
        BY <1>7, <1>12, <1>13, <1>15, <1>19 DEF Progress
    <2>2. SettledAfterSave'
        BY <1>15, <1>19 DEF SettledAfterSave
    <2>3. /\ file.props = graph.props /\ PovApplied = graph.pov
          /\ ~(file.pov \in Titles /\ Matches = {}) /\ ~(graph.pov # NoPerson /\ people[graph.pov] = Gone)
        BY <1>19 DEF FrontChanged, Warned, PropsChanged
    <2>4. CASE file.pov \in NoPov
        <3>1. graph.pov = NoPerson
            BY <2>3, <2>4 DEF PovApplied
        <3> QED BY <1>15, <1>16, <1>17, <2>1, <2>2, <2>3, <2>4, <3>1 DEF RebuildInv, FrontMatterAgrees, NoPov
    <2>5. CASE file.pov \notin NoPov
        <3>1. file.pov \in Titles /\ Matches # {}
            BY <1>1, <2>3, <2>5 DEF File, NoPov
        <3>2. PovApplied \in Matches
            BY <2>5, <3>1 DEF PovApplied
        <3>3. graph.pov \in People /\ people[graph.pov] = file.pov
            BY <2>3, <3>2 DEF Matches
        <3>4. graph.pov # NoPerson /\ people[graph.pov] # Gone
            BY <2>3, <3>3, TitlesAssumption
        <3> QED BY <1>15, <1>16, <1>17, <2>1, <2>2, <2>3, <3>3, <3>4 DEF RebuildInv, FrontMatterAgrees
    <2> QED BY <2>4, <2>5
<1> QED BY <1>18, <1>19

LEMMA StutterInv ==
    ASSUME RebuildInv, UNCHANGED vars
    PROVE  RebuildInv'
<1>1. /\ graph' = graph /\ file' = file /\ people' = people /\ category' = category /\ call' = call
      /\ edits' = edits /\ calls' = calls /\ crashes' = crashes /\ clean' = clean
    BY DEF vars
<1>2. Typed'
    BY <1>1 DEF RebuildInv, Typed, TypeOK
<1>3. Read' /\ Progress'
    BY <1>1 DEF RebuildInv, Read, Progress
<1>4. SettledAfterSave' /\ FrontMatterAgrees'
    BY <1>1 DEF RebuildInv, SettledAfterSave, FrontMatterAgrees, Saved
<1> QED BY <1>2, <1>3, <1>4 DEF RebuildInv

\* The invariant of the save holds throughout.
THEOREM RebuildInvariant == Spec => []RebuildInv
<1>1. ASSUME RebuildInv, [Next]_vars PROVE RebuildInv'
    <2>1. CASE Save
        BY <1>1, <2>1, SaveInv
    <2>2. CASE Persist
        BY <1>1, <2>2, PersistInv
    <2>3. CASE WriteBack
        BY <1>1, <2>3, WriteBackInv
    <2>4. ASSUME NEW who \in People \cup {NoPerson}, SetPov(who) PROVE RebuildInv'
        BY <1>1, <2>4, SetPovInv
    <2>5. CASE PovCommit
        BY <1>1, <2>5, PovCommitInv
    <2>6. CASE PovLine
        BY <1>1, <2>6, PovLineInv
    <2>7. CASE EditFile
        BY <1>1, <2>7, EditFileInv
    <2>8. CASE EditPeople
        BY <1>1, <2>8, EditPeopleInv
    <2>9. CASE Crash
        BY <1>1, <2>9, CrashInv
    <2>10. CASE UNCHANGED vars
        BY <1>1, <2>10, StutterInv
    <2> QED BY <1>1, <2>1, <2>2, <2>3, <2>4, <2>5, <2>6, <2>7, <2>8, <2>9, <2>10 DEF Next
<1> QED BY RebuildInit, <1>1, PTL DEF Spec

LEMMA SavedParas ==
    ASSUME RebuildInv, Saved
    PROVE  call.chapter.paras = << >> \/ graph.paras = call.chapter.paras
BY DEF RebuildInv, Progress, Saved

\* Whatever the file said, and whatever an earlier save that died left in the
\* graph: when a save is through and its file was ordinary, the graph says
\* the words of the file, in its order, and each paragraph whose span is
\* still there has kept its id and its place among the others.
THEOREM WordsAreKept == Spec => []WordsKept
<1>1. RebuildInv => WordsKept
    <2> SUFFICES ASSUME RebuildInv PROVE WordsKept
        OBVIOUS
    <2>1. TypeOK
        BY DEF RebuildInv, Typed
    <2>2. ASSUME Saved, Ordinary(call.seen, call.old), Spoken(call.seen) # << >>
          PROVE  Words(graph.paras) = Words(Spoken(call.seen))
        <3>1. Words(call.chapter.paras) = Words(Spoken(call.seen))
            BY <2>2 DEF RebuildInv, Read, Saved
        <3>2. call.chapter.paras # << >>
            <4>1. DOMAIN Words(Spoken(call.seen)) = DOMAIN Spoken(call.seen)
                BY DEF Words
            <4>2. call.seen \in Seq(Blocks)
                BY DEF RebuildInv, Typed, Call
            <4>3. Spoken(call.seen) \in Seq(Blocks) /\ DOMAIN Spoken(call.seen) # {}
                BY <2>2, <4>2, SpokenIs
            <4>4. DOMAIN Words(<< >>) = {}
                BY DEF Words
            <4> QED BY <3>1, <4>1, <4>3, <4>4
        <3> QED BY <2>2, <3>1, <3>2, SavedParas
    <2>3. ASSUME Saved, call.chapter.paras # << >>
          PROVE  IdList(Kept(graph.paras, IdsOf(call.old))) = IdList(Kept(call.old, IdsOf(call.seen)))
        <3>1. graph.paras = call.chapter.paras
            BY <2>3, SavedParas
        <3> QED BY <2>3, <3>1 DEF RebuildInv, Read, Saved
    <2> QED BY <2>1, <2>2, <2>3 DEF WordsKept
<1> QED BY <1>1, RebuildInvariant, PTL

\* When a save is through, the next one finds in the file nothing that the
\* graph does not say.
THEOREM SavesSettle == Spec => []SettledAfterSave
<1>1. RebuildInv => SettledAfterSave
    BY DEF RebuildInv
<1> QED BY <1>1, RebuildInvariant, PTL

\* When a save is through, the front matter of the file names the properties
\* of the graph and the title that its point-of-view character has.
THEOREM FrontMatterFollows == Spec => []FrontMatterAgrees
<1>1. RebuildInv => FrontMatterAgrees
    BY DEF RebuildInv
<1> QED BY <1>1, RebuildInvariant, PTL
=============================================================================
