------------------------- MODULE UnitOfWorkProofs -------------------------
(***************************************************************************)
(* Theorems about the shared unit of work, for any threads, models and     *)
(* work: its variables keep their types; success leaves no unit of work    *)
(* open; and a request that overlapped no other one has been persisted     *)
(* when it is answered with success, whatever state the ones before it     *)
(* left the shared lists in.  As long as requests come one at a time,      *)
(* nothing registered is forgotten.                                        *)
(***************************************************************************)
EXTENDS UnitOfWork, TLAPS

Early == {"idle", "check", "create", "fetch"}

\* The places of a thread from which the list k is still to be saved.
StillToSave(k) ==
    {"register", "flush_deleted", "validate", "save_new"}
      \cup (IF k = "new" THEN {} ELSE {"save_changed"})
      \cup (IF k = "deleted" THEN {"save_deleted"} ELSE {})

\* Entry i of list k is not behind the loop of thread t, if that saves list k.
Ahead(t, k, i) == pc[t] \in Saving /\ ListOf(pc[t]) = k => i >= pos[t]

\* Thread t will still save the model m: it is listed ahead of its loops.
Owes(t, m) ==
    LET list == tracked[uow[t]][Kind[m]] IN
    /\ pc[t] \in StillToSave(Kind[m])
    /\ \E i \in 1 .. Len(list) : list[i] = m /\ Ahead(t, Kind[m], i)

Alone(t) == t \notin overlapped /\ Active(t)

AnsweredDone == \A t \in Threads : result[t] # "none" => pc[t] = "done"

Solitude == \A t, u \in Threads : Alone(t) /\ Active(u) => u = t

Started ==
    \A t \in Threads :
      /\ pc[t] \in Early => registered[t] = 0
      /\ pc[t] \in Early \cup {"register"} => pos[t] = 1

Called ==
    \A t \in Threads :
      /\ pc[t] \in Stages => uow[t] # NoUow
      /\ pc[t] \in Stages \cup {"on_commit"} => registered[t] = Len(Work[t])

Owed ==
    \A t \in Threads : Alone(t) =>
      \A n \in 1 .. registered[t] : Work[t][n] \in db \/ Owes(t, Work[t][n])

Control == AnsweredDone /\ Solitude /\ Started /\ Called

IInv ==
    /\ TypeOK
    /\ Control
    /\ OpenOnlyWhilePending
    /\ Owed
    /\ AloneAckedPersisted

(***************************************************************************)
(* What a loop looks at: the list exists and its elements are models.      *)
(***************************************************************************)
LEMMA LoopFacts ==
    ASSUME TypeOK, Called, NEW t \in Threads, pc[t] \in Stages
    PROVE  /\ uow[t] \in Threads
           /\ ListOf(pc[t]) \in Lists
           /\ Seen(t) \in Seq(Models)
           /\ After(pc[t]) \in Stages \cup {"on_commit"}
<1>1. uow[t] \in Threads
  BY DEF TypeOK, Called
<1>2. ListOf(pc[t]) \in Lists
  BY DEF Stages, ListOf, Lists
<1>3. After(pc[t]) \in Stages \cup {"on_commit"}
  BY DEF Stages, After
<1> QED
  BY <1>1, <1>2, <1>3 DEF Seen, TypeOK

LEMMA ItemFacts ==
    ASSUME TypeOK, Called, NEW t \in Threads, AtItem(t)
    PROVE  Item(t) \in Models
<1>1. pc[t] \in Stages /\ pos[t] \in 1 .. Len(Seen(t))
  BY DEF AtItem, Looping, TypeOK
<1> QED
  BY <1>1, LoopFacts DEF Item

(***************************************************************************)
(* Appending to, or emptying, one list keeps the type of all of them.      *)
(***************************************************************************)
LEMMA TrackedType ==
    ASSUME NEW f \in [Threads -> [Lists -> Seq(Models)]], NEW u \in Threads,
           NEW l \in Lists, NEW s \in Seq(Models)
    PROVE  [f EXCEPT ![u][l] = s] \in [Threads -> [Lists -> Seq(Models)]]
  OBVIOUS

(***************************************************************************)
(* A request registers a model of its own, of a known state.               *)
(***************************************************************************)
LEMMA NextModel ==
    ASSUME TypeOK, NEW t \in Threads, registered[t] < Len(Work[t])
    PROVE  /\ Work[t][registered[t] + 1] \in Models
           /\ Kind[Work[t][registered[t] + 1]] \in Lists
<1>1. Work[t] \in Seq(Models) /\ registered[t] \in Nat
  BY WorkAssumption DEF TypeOK
<1>2. registered[t] + 1 \in 1 .. Len(Work[t])
  BY <1>1
<1>3. Work[t][registered[t] + 1] \in Models
  BY <1>1, <1>2
<1> QED
  BY <1>3, KindAssumption DEF Lists

LEMMA StepType ==
    ASSUME TypeOK, Called, NEW t \in Threads, Begin(t) \/ Step(t)
    PROVE  TypeOK'
<1>1. CASE Begin(t)
  BY <1>1 DEF TypeOK, Begin, Goto, Places
<1>2. CASE CheckCurrent(t)
  BY <1>2 DEF TypeOK, CheckCurrent, Goto, Places
<1>3. CASE CreateCurrent(t)
  BY <1>3 DEF TypeOK, CreateCurrent, Goto, Places
<1>4. CASE FetchCurrent(t)
  BY <1>4 DEF TypeOK, FetchCurrent, Goto, Places
<1>5. CASE RegisterOnNone(t)
  BY <1>5 DEF TypeOK, RegisterOnNone, Fail, Goto, Places
<1>6. CASE Register(t)
  <2> DEFINE m == Work[t][registered[t] + 1]
  <2>1. m \in Models /\ Kind[m] \in Lists
    BY <1>6, NextModel DEF Register
  <2>2. uow[t] \in Threads
    BY <1>6 DEF Register, TypeOK
  <2>3. tracked' = [tracked EXCEPT ![uow[t]][Kind[m]] = Append(tracked[uow[t]][Kind[m]], m)]
    BY <1>6 DEF Register
  <2>4. Append(tracked[uow[t]][Kind[m]], m) \in Seq(Models)
    BY <2>1, <2>2 DEF TypeOK
  <2>5. tracked' \in [Threads -> [Lists -> Seq(Models)]]
    BY <2>1, <2>2, <2>3, <2>4, TrackedType DEF TypeOK
  <2>6. /\ registered' \in [Threads -> Nat]
        /\ \A u \in Threads : registered'[u] <= Len(Work[u])
    <3>1. /\ registered' = [registered EXCEPT ![t] = registered[t] + 1]
          /\ registered[t] < Len(Work[t])
      BY <1>6 DEF Register
    <3>2. /\ registered \in [Threads -> Nat]
          /\ \A u \in Threads : registered[u] <= Len(Work[u])
      BY DEF TypeOK
    <3>3. \A u \in Threads : Len(Work[u]) \in Nat
      BY WorkAssumption
    <3> HIDE DEF m
    <3> QED
      BY <3>1, <3>2, <3>3
  <2> QED
    BY <1>6, <2>5, <2>6 DEF TypeOK, Register
<1>7. CASE Call(t)
  BY <1>7 DEF TypeOK, Call, Goto, Places, Stages, FirstStage
<1>9. CASE Validate(t)
  BY <1>9 DEF TypeOK, Validate, Advance
<1>10. CASE Save(t)
  BY <1>10, ItemFacts DEF TypeOK, Save, Advance
<1>11. CASE Raise(t)
  BY <1>11, ItemFacts DEF TypeOK, Raise, Fail, Goto, Places
<1>12. CASE EndLoop(t)
  <2>1. pc[t] \in Stages
    BY <1>12 DEF EndLoop, Looping
  <2>2. /\ uow[t] \in Threads /\ "deleted" \in Lists /\ << >> \in Seq(Models)
        /\ tracked \in [Threads -> [Lists -> Seq(Models)]]
    BY <2>1, LoopFacts DEF TypeOK, Lists
  <2>3. [tracked EXCEPT ![uow[t]]["deleted"] = << >>] \in [Threads -> [Lists -> Seq(Models)]]
    BY <2>2, TrackedType
  <2>4. tracked' \in [Threads -> [Lists -> Seq(Models)]]
    BY <1>12, <2>2, <2>3 DEF EndLoop
  <2>5. pc' \in [Threads -> Places]
    BY <1>12, <2>1, LoopFacts DEF TypeOK, EndLoop, Goto, Places
  <2>6. pos' \in [Threads -> Nat \ {0}]
    BY <1>12 DEF TypeOK, EndLoop, Restart
  <2> QED
    BY <1>12, <2>4, <2>5, <2>6 DEF TypeOK, EndLoop
<1>13. CASE ClearList(t)
  <2>1. pc[t] \in Stages
    BY <1>13 DEF ClearList, Clearing, Stages
  <2>2. tracked' \in [Threads -> [Lists -> Seq(Models)]]
    BY <1>13, <2>1, LoopFacts, TrackedType DEF TypeOK, ClearList
  <2> QED
    BY <1>13, <2>1, <2>2, LoopFacts DEF TypeOK, ClearList, Goto, Places
<1>14. CASE OnCommitted(t)
  BY <1>14 DEF TypeOK, OnCommitted, Goto, Places
<1> QED
  BY <1>1, <1>2, <1>3, <1>4, <1>5, <1>6, <1>7, <1>9, <1>10, <1>11, <1>12,
     <1>13, <1>14 DEF Step

(***************************************************************************)
(* How a step moves threads: only its own thread, which was active unless  *)
(* the request arrives; and an answer is given on the way to "done".       *)
(***************************************************************************)
LEMMA StepMoves ==
    ASSUME TypeOK, Called, NEW t \in Threads, Step(t)
    PROVE  /\ Active(t)
           /\ overlapped' = overlapped
           /\ \A u \in Threads \ {t} : pc'[u] = pc[u] /\ result'[u] = result[u]
           /\ result'[t] = result[t] \/ pc'[t] = "done"
           /\ pc'[t] \notin {"idle", "check"}
<1> USE DEF TypeOK
<1>1. CASE CheckCurrent(t)
  BY <1>1 DEF CheckCurrent, Goto, Active
<1>2. CASE CreateCurrent(t)
  BY <1>2 DEF CreateCurrent, Goto, Active
<1>3. CASE FetchCurrent(t)
  BY <1>3 DEF FetchCurrent, Goto, Active
<1>4. CASE RegisterOnNone(t)
  BY <1>4 DEF RegisterOnNone, Fail, Goto, Active
<1>5. CASE Register(t)
  BY <1>5 DEF Register, Active
<1>6. CASE Call(t)
  BY <1>6 DEF Call, Goto, Active, FirstStage
<1>7. CASE Validate(t) \/ Save(t)
  BY <1>7 DEF Validate, Save, Saving, Active
<1>8. CASE Raise(t)
  BY <1>8 DEF Raise, Fail, Goto, Saving, Active
<1>9. CASE EndLoop(t)
  <2>1. pc[t] \in Stages
    BY <1>9 DEF EndLoop, Looping
  <2> QED
    BY <1>9, <2>1, LoopFacts DEF EndLoop, Goto, Active, Stages
<1>10. CASE ClearList(t)
  <2>1. pc[t] \in Stages
    BY <1>10 DEF ClearList, Clearing, Stages
  <2> QED
    BY <1>10, <2>1, LoopFacts DEF ClearList, Goto, Active, Stages
<1>11. CASE OnCommitted(t)
  BY <1>11 DEF OnCommitted, Goto, Active
<1> QED
  BY <1>1, <1>2, <1>3, <1>4, <1>5, <1>6, <1>7, <1>8, <1>9, <1>10, <1>11 DEF Step

(***************************************************************************)
(* A thread that is alone stays the only active one: whoever arrives then  *)
(* puts both on record.                                                    *)
(***************************************************************************)
LEMMA AloneKept ==
    ASSUME TypeOK, Control, NEW t \in Threads, Step(t), NEW a \in Threads, Alone(a)'
    PROVE  a = t /\ Alone(t)
<1>1. Active(t) /\ overlapped' = overlapped
  BY StepMoves DEF Control
<1>2. Active(a)
  BY StepMoves DEF Control, Alone, Active
<1>3. Alone(a)
  BY <1>1, <1>2 DEF Alone
<1> QED
  BY <1>1, <1>3 DEF Control, Solitude

LEMMA AloneArrival ==
    ASSUME TypeOK, Control, NEW t \in Threads, Begin(t), NEW a \in Threads, Alone(a)'
    PROVE  a = t /\ \A u \in Threads : ~Active(u)
<1>1. a \notin overlapped' /\ Active(a)'
  BY DEF Alone
<1>2. ~Active(a)
  BY <1>1 DEF Begin
<1>3. a = t
  BY <1>1, <1>2 DEF Begin, Goto, Active, TypeOK
<1> QED
  BY <1>1, <1>3 DEF Begin

LEMMA StepSolitude ==
    ASSUME TypeOK, Control, NEW t \in Threads, Begin(t) \/ Step(t)
    PROVE  Solitude'
<1> SUFFICES ASSUME NEW a \in Threads, NEW u \in Threads, Alone(a)', Active(u)'
             PROVE  u = a
  BY DEF Solitude
<1>1. CASE Begin(t)
  <2>1. a = t /\ ~Active(u)
    BY <1>1, AloneArrival
  <2> QED
    BY <1>1, <2>1 DEF Begin, Goto, Active, TypeOK
<1>2. CASE Step(t)
  <2>1. a = t /\ Alone(t)
    BY <1>2, AloneKept
  <2>2. u # t => Active(u)
    BY <1>2, StepMoves DEF Control, Active
  <2> QED
    BY <2>1, <2>2 DEF Control, Solitude
<1> QED
  BY <1>1, <1>2

LEMMA StepAnswered ==
    ASSUME TypeOK, Control, NEW t \in Threads, Begin(t) \/ Step(t)
    PROVE  AnsweredDone'
<1>1. CASE Begin(t)
  BY <1>1 DEF Begin, Goto, Control, AnsweredDone, TypeOK
<1>2. CASE Step(t)
  <2>1. result[t] = "none"
    BY <1>2, StepMoves DEF Control, AnsweredDone, Active, TypeOK
  <2> QED
    BY <1>2, <2>1, StepMoves DEF Control, AnsweredDone
<1> QED
  BY <1>1, <1>2

LEMMA StepStarted ==
    ASSUME TypeOK, Control, NEW t \in Threads, Begin(t) \/ Step(t)
    PROVE  Started' /\ Called'
<1> USE DEF TypeOK, Control, Started, Called, Early
<1>1. CASE Begin(t)
  BY <1>1 DEF Begin, Goto, Stages
<1>2. CASE CheckCurrent(t)
  BY <1>2 DEF CheckCurrent, Goto, Stages
<1>3. CASE CreateCurrent(t)
  BY <1>3 DEF CreateCurrent, Goto, Stages
<1>4. CASE FetchCurrent(t)
  BY <1>4 DEF FetchCurrent, Goto, Stages
<1>5. CASE RegisterOnNone(t) \/ Raise(t) \/ OnCommitted(t)
  BY <1>5 DEF RegisterOnNone, Raise, OnCommitted, Fail, Goto, Stages
<1>6. CASE Register(t)
  BY <1>6 DEF Register, Stages
<1>7. CASE Call(t)
  BY <1>7 DEF Call, Goto, FirstStage, Stages
<1>8. CASE Validate(t) \/ Save(t)
  BY <1>8 DEF Validate, Save, Advance, Saving, Stages
<1>9. CASE EndLoop(t) \/ ClearList(t)
  <2>1. pc[t] \in Stages
    BY <1>9 DEF EndLoop, ClearList, Looping, Clearing, Stages
  <2>2. After(pc[t]) \in Stages \cup {"on_commit"}
    BY <2>1, LoopFacts
  <2>3. pc' = [pc EXCEPT ![t] = After(pc[t])] /\ uow' = uow /\ registered' = registered
    BY <1>9 DEF EndLoop, ClearList, Goto
  <2>4. \A u \in Threads \ {t} : pos'[u] = pos[u] /\ pc'[u] = pc[u]
    BY <1>9, <2>3 DEF EndLoop, ClearList, Restart
  <2>5. pc'[t] \in Stages \cup {"on_commit"} /\ uow[t] # NoUow /\ registered[t] = Len(Work[t])
    BY <2>1, <2>2, <2>3
  <2>6. pc'[t] \notin Early \cup {"register"}
    BY <2>5 DEF Stages
  <2> QED
    BY <2>3, <2>4, <2>5, <2>6
<1> QED
  BY <1>1, <1>2, <1>3, <1>4, <1>5, <1>6, <1>7, <1>8, <1>9 DEF Step

(***************************************************************************)
(* The current unit of work appears only under an active thread, which     *)
(* leaves by forgetting it or with an error.                               *)
(***************************************************************************)
LEMMA StepOpen ==
    ASSUME TypeOK, Control, OpenOnlyWhilePending, NEW t \in Threads, Begin(t) \/ Step(t)
    PROVE  OpenOnlyWhilePending'
<1> SUFFICES ASSUME current' # NoUow
             PROVE  \E u \in Threads : Active(u)' \/ result'[u] = "error"
  BY DEF OpenOnlyWhilePending
<1>1. CASE Begin(t)
  BY <1>1 DEF Begin, Goto, Active, TypeOK
<1>2. CASE Step(t)
  <2>1. CASE Active(t)'
    BY <2>1
  <2>2. CASE ~Active(t)'
    <3>1. pc'[t] = "done"
      BY <1>2, <2>2, StepMoves DEF Control, Active
    <3>2. RegisterOnNone(t) \/ Raise(t) \/ OnCommitted(t)
      <4>1. ~(CheckCurrent(t) \/ CreateCurrent(t) \/ FetchCurrent(t))
        BY <3>1 DEF CheckCurrent, CreateCurrent, FetchCurrent, Goto, TypeOK
      <4>2. ~(Register(t) \/ Call(t))
        BY <3>1 DEF Register, Call, FirstStage, Goto, TypeOK
      <4>3. ~(Validate(t) \/ Save(t))
        BY <3>1 DEF Validate, Save, Saving
      <4>4. ASSUME EndLoop(t) \/ ClearList(t) PROVE FALSE
        <5>1. pc[t] \in Stages /\ pc'[t] = After(pc[t])
          BY <4>4 DEF EndLoop, ClearList, Looping, Clearing, Stages, Goto, TypeOK
        <5> QED
          BY <3>1, <5>1, LoopFacts DEF Control, Stages
      <4> QED
        BY <1>2, <4>1, <4>2, <4>3, <4>4 DEF Step
    <3> QED
      BY <3>2 DEF RegisterOnNone, Raise, OnCommitted, Fail, TypeOK
  <2> QED
    BY <2>1, <2>2
<1> QED
  BY <1>1, <1>2

(***************************************************************************)
(* A thread that registers, or moves between the loops, keeps what it owes *)
(* ahead of it; a save moves the entry behind it into the database.        *)
(***************************************************************************)
LEMMA RegisterOwed ==
    ASSUME TypeOK, NEW t \in Threads, Register(t),
           \A n \in 1 .. registered[t] : Work[t][n] \in db \/ Owes(t, Work[t][n])
    PROVE  \A n \in 1 .. registered'[t] : Work[t][n] \in db' \/ Owes(t, Work[t][n])'
<1> DEFINE x == Work[t][registered[t] + 1]
           old == tracked[uow[t]][Kind[x]]
<1>1. /\ pc[t] = "register" /\ pc' = pc /\ uow' = uow /\ db' = db
      /\ tracked' = [tracked EXCEPT ![uow[t]][Kind[x]] = Append(old, x)]
      /\ registered'[t] = registered[t] + 1
      /\ registered[t] \in Nat
  BY DEF Register, TypeOK
<1>2. x \in Models /\ Kind[x] \in Lists /\ uow[t] \in Threads
  BY NextModel DEF Register, TypeOK
<1>3. old \in Seq(Models) /\ tracked'[uow[t]][Kind[x]] = Append(old, x)
  BY <1>1, <1>2 DEF TypeOK
<1>4. \A k \in Lists \ {Kind[x]} : tracked'[uow[t]][k] = tracked[uow[t]][k]
  BY <1>1, <1>2 DEF TypeOK
<1>5. \A k, i : Ahead(t, k, i)' /\ pc'[t] \in StillToSave(k)
  BY <1>1 DEF Ahead, Saving, StillToSave
<1> HIDE DEF x, old
<1> SUFFICES ASSUME NEW n \in 1 .. registered'[t]
             PROVE  Work[t][n] \in db' \/ Owes(t, Work[t][n])'
  OBVIOUS
<1>6. CASE n = registered[t] + 1
  <2>1. Work[t][n] = x
    BY <1>6 DEF x
  <2>2. Len(old) + 1 \in 1 .. Len(Append(old, x)) /\ Append(old, x)[Len(old) + 1] = x
    BY <1>2, <1>3
  <2> QED
    BY <1>1, <1>3, <1>5, <2>1, <2>2 DEF Owes
<1>7. CASE n # registered[t] + 1
  <2> DEFINE m == Work[t][n]
  <2>1. n \in 1 .. registered[t]
    BY <1>1, <1>7
  <2>2. CASE m \in db
    BY <2>2, <1>1
  <2>3. CASE Owes(t, m)
    <3>1. PICK i \in 1 .. Len(tracked[uow[t]][Kind[m]]) : tracked[uow[t]][Kind[m]][i] = m
      BY <2>3 DEF Owes
    <3>2. CASE Kind[m] = Kind[x]
      <4>1. i \in 1 .. Len(Append(old, x)) /\ Append(old, x)[i] = m
        BY <1>2, <1>3, <3>1, <3>2 DEF old
      <4> QED
        BY <1>1, <1>3, <1>5, <3>2, <4>1 DEF Owes
    <3>3. CASE Kind[m] # Kind[x]
      <4>1. Kind[m] \in Lists
        <5>1. n \in 1 .. Len(Work[t]) /\ Work[t] \in Seq(Models)
          <6>1. Work[t] \in Seq(Models) /\ Len(Work[t]) \in Nat
            BY WorkAssumption
          <6>2. registered[t] < Len(Work[t])
            BY DEF Register
          <6> QED
            BY <1>1, <2>1, <6>1, <6>2
        <5>2. m \in Models
          BY <5>1
        <5> QED
          BY <5>2, KindAssumption DEF Lists
      <4>2. tracked'[uow[t]][Kind[m]] = tracked[uow[t]][Kind[m]]
        BY <1>4, <3>3, <4>1
      <4> QED
        BY <1>1, <1>5, <3>1, <4>2 DEF Owes
    <3> QED
      BY <3>2, <3>3
  <2> QED
    BY <2>1, <2>2, <2>3
<1> QED
  BY <1>6, <1>7

LEMMA SaveOwed ==
    ASSUME TypeOK, Called, NEW t \in Threads, Save(t), NEW m, Owes(t, m)
    PROVE  m \in db' \/ Owes(t, m)'
<1>1. /\ pc' = pc /\ uow' = uow /\ tracked' = tracked
      /\ db' = db \cup {Item(t)} /\ pos'[t] = pos[t] + 1 /\ pos[t] \in Nat
      /\ pc[t] \in Saving
  BY DEF Save, Advance, TypeOK
<1>2. PICK i \in 1 .. Len(tracked[uow[t]][Kind[m]]) :
        tracked[uow[t]][Kind[m]][i] = m /\ Ahead(t, Kind[m], i)
  BY DEF Owes
<1>3. CASE ListOf(pc[t]) = Kind[m] /\ i = pos[t]
  BY <1>1, <1>2, <1>3 DEF Item, Seen
<1>4. CASE ~(ListOf(pc[t]) = Kind[m] /\ i = pos[t])
  <2>1. i \in Nat
    OBVIOUS
  <2>2. Ahead(t, Kind[m], i)'
    BY <1>1, <1>2, <1>4, <2>1 DEF Ahead
  <2> QED
    BY <1>1, <1>2, <2>2 DEF Owes
<1> QED
  BY <1>3, <1>4

(***************************************************************************)
(* At the end of a loop that saves a list nothing of that list is ahead.   *)
(***************************************************************************)
LEMMA EndLoopOwed ==
    ASSUME TypeOK, Called, NEW t \in Threads, EndLoop(t), NEW m, Kind[m] \in Lists, Owes(t, m)
    PROVE  Owes(t, m)'
<1> DEFINE k == Kind[m]
<1>1. /\ pc[t] \in Stages \ Clearing /\ pos[t] > Len(Seen(t))
      /\ pc'[t] = After(pc[t]) /\ pos'[t] = 1 /\ uow' = uow
  BY DEF EndLoop, Looping, Goto, Restart, TypeOK
<1>2. uow[t] \in Threads /\ Seen(t) \in Seq(Models) /\ pos[t] \in Nat
  BY <1>1, LoopFacts DEF TypeOK
<1>3. PICK i \in 1 .. Len(tracked[uow[t]][k]) : tracked[uow[t]][k][i] = m /\ Ahead(t, k, i)
  BY DEF Owes
<1>4. ~(pc[t] \in Saving /\ ListOf(pc[t]) = k)
  <2> SUFFICES ASSUME pc[t] \in Saving, ListOf(pc[t]) = k PROVE FALSE
    OBVIOUS
  <2>1. i >= pos[t] /\ i <= Len(Seen(t)) /\ Len(Seen(t)) \in Nat /\ i \in Nat
    BY <1>2, <1>3 DEF Ahead, Seen
  <2> QED
    BY <1>1, <1>2, <2>1
<1>5. pc[t] \in StillToSave(k)
  BY DEF Owes
<1>6. pc'[t] \in StillToSave(k)
  BY <1>1, <1>4, <1>5 DEF StillToSave, Stages, Clearing, Saving, ListOf, After, Lists
<1>7. tracked'[uow[t]][k] = tracked[uow[t]][k]
  <2>1. CASE pc[t] = "flush_deleted"
    <3>1. k # "deleted"
      BY <1>4, <2>1 DEF Saving, ListOf
    <3>2. tracked' = [tracked EXCEPT ![uow[t]]["deleted"] = << >>]
      BY <2>1 DEF EndLoop
    <3> QED
      BY <1>2, <3>1, <3>2 DEF TypeOK
  <2>2. CASE pc[t] # "flush_deleted"
    BY <2>2 DEF EndLoop
  <2> QED
    BY <2>1, <2>2
<1>8. Ahead(t, k, i)'
  BY <1>1 DEF Ahead
<1> QED
  BY <1>1, <1>3, <1>6, <1>7, <1>8 DEF Owes

LEMMA StepOwed ==
    ASSUME TypeOK, Control, Owed, NEW t \in Threads, Begin(t) \/ Step(t)
    PROVE  Owed'
<1> USE DEF Control
<1> SUFFICES ASSUME NEW a \in Threads, Alone(a)'
             PROVE  \A n \in 1 .. registered'[a] : Work[a][n] \in db' \/ Owes(a, Work[a][n])'
  BY DEF Owed
<1>1. CASE Begin(t)
  <2>1. a = t /\ registered'[t] = 0
    BY <1>1, AloneArrival DEF Begin, Started, Early
  <2> QED
    BY <2>1
<1>2. CASE Step(t)
  <2>1. a = t /\ Alone(t)
    BY <1>2, AloneKept
  <2>2. \A n \in 1 .. registered[t] : Work[t][n] \in db \/ Owes(t, Work[t][n])
    BY <2>1 DEF Owed
  <2>3. \A n \in 1 .. registered[t] : Kind[Work[t][n]] \in Lists
    <3>1. Work[t] \in Seq(Models) /\ registered[t] \in Nat /\ registered[t] <= Len(Work[t])
      BY WorkAssumption DEF TypeOK
    <3>2. \A n \in 1 .. Len(Work[t]) : Work[t][n] \in Models
      BY <3>1
    <3>3. \A n \in 1 .. registered[t] : Work[t][n] \in Models
      <4>1. \A n \in 1 .. registered[t] : n \in 1 .. Len(Work[t])
        BY <3>1
      <4> QED
        BY <3>2, <4>1
    <3>4. \A m \in Models : Kind[m] \in Lists
      BY KindAssumption DEF Lists
    <3> HIDE <1>2, <2>1, <2>2
    <3> QED
      BY <3>3, <3>4
  <2>4. Active(t)'
    BY <2>1 DEF Alone
  <2>5. CASE CheckCurrent(t) \/ CreateCurrent(t) \/ FetchCurrent(t)
    <3>1. registered'[t] = 0
      BY <2>5 DEF CheckCurrent, CreateCurrent, FetchCurrent, Started, Early
    <3> QED
      BY <2>1, <3>1
  <2>6. CASE Register(t)
    BY <2>1, <2>2, <2>6, RegisterOwed
  <2>7. CASE Call(t)
    <3>1. /\ pc'[t] \in {"validate", "flush_deleted"}
          /\ pos'[t] = 1 /\ registered' = registered
          /\ tracked' = tracked /\ uow' = uow /\ db' = db
      BY <2>7 DEF Call, Goto, FirstStage, Started, TypeOK
    <3>2. \A k, i : i \in Nat \ {0} => Ahead(t, k, i)'
      BY <3>1 DEF Ahead
    <3>3. \A k : pc'[t] \in StillToSave(k)
      BY <3>1 DEF StillToSave
    <3>4. \A m : Owes(t, m) => Owes(t, m)'
      BY <3>1, <3>2, <3>3 DEF Owes
    <3> QED
      BY <2>1, <2>2, <3>1, <3>4
  <2>8. CASE Validate(t)
    <3>1. /\ pc[t] \notin Saving
          /\ pc' = pc /\ registered' = registered
          /\ tracked' = tracked /\ uow' = uow /\ db' = db
      BY <2>8 DEF Validate, Saving
    <3>2. \A m : Owes(t, m) => Owes(t, m)'
      BY <3>1 DEF Owes, Ahead
    <3> QED
      BY <2>1, <2>2, <3>1, <3>2
  <2>9. CASE Save(t)
    <3>1. registered' = registered /\ db \subseteq db'
      BY <2>9 DEF Save
    <3> QED
      BY <2>1, <2>2, <2>9, <3>1, SaveOwed
  <2>10. CASE RegisterOnNone(t) \/ Raise(t) \/ OnCommitted(t)
    BY <2>4, <2>10 DEF RegisterOnNone, Raise, OnCommitted, Fail, Goto, Active, TypeOK
  <2>11. CASE EndLoop(t)
    <3>1. registered' = registered /\ db' = db
      BY <2>11 DEF EndLoop
    <3> QED
      BY <2>1, <2>2, <2>3, <2>11, <3>1, EndLoopOwed
  <2>12. CASE ClearList(t)
    <3>1. registered' = registered /\ db' = db /\ pc[t] \in Clearing
      BY <2>12 DEF ClearList
    <3>2. \A m : ~Owes(t, m)
      BY <3>1 DEF Owes, StillToSave, Clearing
    <3> QED
      BY <2>1, <2>2, <3>1, <3>2
  <2> QED
    BY <1>2, <2>5, <2>6, <2>7, <2>8, <2>9, <2>10, <2>11, <2>12 DEF Step
<1> QED
  BY <1>1, <1>2

(***************************************************************************)
(* A request that is alone and reaches on_commit owes nothing any more.    *)
(***************************************************************************)
LEMMA StepAcked ==
    ASSUME TypeOK, Control, Owed, AloneAckedPersisted,
           NEW t \in Threads, Begin(t) \/ Step(t)
    PROVE  AloneAckedPersisted'
<1> SUFFICES ASSUME NEW a \in Threads, a \notin overlapped', result'[a] = "ok"
             PROVE  WorkOf(a) \subseteq db'
  BY DEF AloneAckedPersisted, WorkOf
<1>1. overlapped \subseteq overlapped'
  BY StepMoves DEF Begin, Control
<1>2. db \subseteq db'
  BY DEF Begin, Step, CheckCurrent, CreateCurrent, FetchCurrent, RegisterOnNone, Register,
     Call, Validate, Save, Raise, Fail, EndLoop, ClearList, OnCommitted
<1>3. CASE result[a] = "ok"
  BY <1>1, <1>2, <1>3 DEF AloneAckedPersisted
<1>4. CASE result[a] # "ok"
  <2>1. OnCommitted(t) /\ a = t
    BY <1>4 DEF TypeOK, Begin, Step, CheckCurrent, CreateCurrent, FetchCurrent,
       RegisterOnNone, Register, Call, Validate, Save, Raise, Fail, EndLoop,
       ClearList, OnCommitted
  <2>2. Alone(t) /\ registered[t] = Len(Work[t]) /\ pc[t] = "on_commit" /\ db' = db
    BY <1>1, <2>1 DEF OnCommitted, Alone, Active, Control, Called
  <2>3. \A m : ~Owes(t, m)
    BY <2>2 DEF Owes, StillToSave
  <2> QED
    BY <2>1, <2>2, <2>3 DEF Owed, WorkOf
<1> QED
  BY <1>3, <1>4

LEMMA InitIInv == Init => IInv
<1> SUFFICES ASSUME Init PROVE IInv
  OBVIOUS
<1> USE DEF Init
<1>1. TypeOK
  BY DirtyAssumption, WorkAssumption DEF TypeOK, Empty, Lists, Places
<1>2. Control
  BY DEF Control, AnsweredDone, Solitude, Alone, Active, Started, Called, Stages
<1>3. OpenOnlyWhilePending /\ Owed /\ AloneAckedPersisted
  BY DEF OpenOnlyWhilePending, Owed, Alone, Active, AloneAckedPersisted
<1> QED
  BY <1>1, <1>2, <1>3 DEF IInv

LEMMA StepIInv == IInv /\ [Next]_vars => IInv'
<1> SUFFICES ASSUME IInv, [Next]_vars PROVE IInv'
  OBVIOUS
<1>1. CASE UNCHANGED vars
  BY <1>1 DEF vars, IInv, TypeOK, Control, AnsweredDone, Solitude, Alone, Active, Started,
     Called, OpenOnlyWhilePending, Owed, Owes, Ahead, AloneAckedPersisted, WorkOf
<1>2. CASE Next
  <2>1. PICK t \in Threads : Begin(t) \/ Step(t)
    BY <1>2 DEF Next
  <2>2. Control'
    BY <2>1, StepSolitude, StepAnswered, StepStarted DEF IInv, Control
  <2>3. TypeOK'
    BY <2>1, StepType DEF IInv, Control
  <2> QED
    BY <2>1, <2>2, <2>3, StepOpen, StepOwed, StepAcked DEF IInv
<1> QED
  BY <1>1, <1>2

THEOREM Invariance == Spec => []IInv
<1> QED
  BY InitIInv, StepIInv, PTL DEF Spec

(***************************************************************************)
(* Every variable keeps its type (UnitOfWork and UnitOfWorkFactory, for    *)
(* any number of request threads).                                         *)
(***************************************************************************)
THEOREM TypeCorrect == Spec => []TypeOK
<1>1. IInv => TypeOK
  BY DEF IInv
<1> QED
  BY <1>1, Invariance, PTL

(***************************************************************************)
(* Success never leaves a unit of work open (UnitOfWorkFactory._clear).    *)
(***************************************************************************)
THEOREM SuccessCloses == Spec => []OpenOnlyWhilePending
<1>1. IInv => OpenOnlyWhilePending
  BY DEF IInv
<1> QED
  BY <1>1, Invariance, PTL

(***************************************************************************)
(* A request that overlapped no other one and is answered with success     *)
(* has been persisted, whatever the requests before it left in the lists   *)
(* (commit, flush_pending).                                                *)
(***************************************************************************)
THEOREM AlonePersisted == Spec => []AloneAckedPersisted
<1>1. IInv => AloneAckedPersisted
  BY DEF IInv
<1> QED
  BY <1>1, Invariance, PTL

-----------------------------------------------------------------------------
(***************************************************************************)
(* When requests come one at a time the unit of work forgets nothing: a    *)
(* model that some request registered is in the database or still tracked  *)
(* by the current unit of work, however often a save, a validation or a    *)
(* flush failed on the way.                                                *)
(***************************************************************************)

\* The lists that the save loops have finished at the place s.
Passed(s) ==
    CASE s = "save_changed" -> {"new"}
      [] s = "save_deleted" -> {"new", "changed"}
      [] s \in Clearing     -> Lists
      [] OTHER              -> {}

\* Entry i of list l is behind the loop in which thread t saves that list.
BehindLoop(t, l, i) == pc[t] \in Saving /\ ListOf(pc[t]) = l /\ i < pos[t]

\* What the save loops have passed is in the database.
SavedBehind ==
    \A t \in Threads : pc[t] \in Stages =>
      \A l \in Lists : \A i \in 1 .. Len(tracked[uow[t]][l]) :
        l \in Passed(pc[t]) \/ BehindLoop(t, l, i) => tracked[uow[t]][l][i] \in db

\* The thread that is served works on the current unit of work.
OnCurrent ==
    \A t \in Threads :
      /\ pc[t] = "create" => current = NoUow
      /\ pc[t] = "fetch" => current # NoUow
      /\ pc[t] \in {"register"} \cup Stages => uow[t] = current /\ current # NoUow

\* Nothing is owed to anybody when the unit of work is about to be dropped.
Settled == \A t \in Threads : pc[t] = "on_commit" => Registered \subseteq db

OneAtATime == \A t, u \in Threads : Active(t) /\ Active(u) => t = u

\* A registered model is in the database or in the current lists.
AllKept == \A m \in Registered \ db : current # NoUow /\ m \in Tracked(current)

\* The inductive invariant of the serial use of the unit of work.
SInv ==
    /\ TypeOK
    /\ Control
    /\ OneAtATime
    /\ OnCurrent
    /\ SavedBehind
    /\ Settled
    /\ AllKept

(***************************************************************************)
(* Nobody else is served while a thread makes a step.                      *)
(***************************************************************************)
LEMMA OnlyStepper ==
    ASSUME TypeOK, Control, OneAtATime, overlapped' = {}, NEW t \in Threads, Begin(t) \/ Step(t)
    PROVE  \A u \in Threads \ {t} : ~Active(u) /\ pc'[u] = pc[u]
<1>1. CASE Begin(t)
  BY <1>1 DEF Begin, Goto, TypeOK
<1>2. CASE Step(t)
  BY <1>2, StepMoves DEF OneAtATime, Control
<1> QED
  BY <1>1, <1>2

LEMMA StepOneAtATime ==
    ASSUME TypeOK, Control, OneAtATime, overlapped' = {}, NEW t \in Threads, Begin(t) \/ Step(t)
    PROVE  OneAtATime'
<1>1. \A u \in Threads \ {t} : ~Active(u)'
  BY OnlyStepper DEF Active
<1> QED
  BY <1>1 DEF OneAtATime

(***************************************************************************)
(* Alone, a thread fetches what it created or found, and keeps it.         *)
(***************************************************************************)
LEMMA StepOnCurrent ==
    ASSUME TypeOK, Control, OneAtATime, OnCurrent, overlapped' = {},
           NEW t \in Threads, Begin(t) \/ Step(t)
    PROVE  OnCurrent'
<1>1. \A u \in Threads \ {t} : pc'[u] \notin {"create", "fetch", "register"} \cup Stages
  BY OnlyStepper DEF Active, Stages
<1> SUFFICES /\ pc'[t] = "create" => current' = NoUow
             /\ pc'[t] = "fetch" => current' # NoUow
             /\ pc'[t] \in {"register"} \cup Stages => uow'[t] = current' /\ current' # NoUow
  BY <1>1 DEF OnCurrent
<1> USE DEF TypeOK, OnCurrent
<1>2. CASE Begin(t)
  BY <1>2 DEF Begin, Goto, Stages
<1>3. CASE CheckCurrent(t)
  BY <1>3 DEF CheckCurrent, Goto, Stages
<1>4. CASE CreateCurrent(t)
  BY <1>4, NoUowAssumption DEF CreateCurrent, Goto, Stages
<1>5. CASE FetchCurrent(t)
  BY <1>5 DEF FetchCurrent, Goto, Stages
<1>6. CASE RegisterOnNone(t) \/ Raise(t) \/ OnCommitted(t)
  BY <1>6 DEF RegisterOnNone, Raise, OnCommitted, Fail, Goto, Stages
<1>7. CASE Register(t)
  BY <1>7 DEF Register
<1>8. CASE Call(t)
  BY <1>8 DEF Call, Goto, FirstStage, Stages
<1>9. CASE Validate(t) \/ Save(t)
  BY <1>9 DEF Validate, Save, Saving, Stages
<1>10. CASE EndLoop(t) \/ ClearList(t)
  <2>1. pc[t] \in Stages /\ uow' = uow /\ current' = current /\ pc'[t] = After(pc[t])
    BY <1>10 DEF EndLoop, ClearList, Looping, Clearing, Stages, Goto
  <2>2. pc'[t] \notin {"create", "fetch"}
    BY <2>1, LoopFacts DEF Control, Stages
  <2> QED
    BY <2>1, <2>2
<1> QED
  BY <1>2, <1>3, <1>4, <1>5, <1>6, <1>7, <1>8, <1>9, <1>10 DEF Step

(***************************************************************************)
(* At the end of a loop the list it saved is in the database.              *)
(***************************************************************************)
LEMMA LoopSaved ==
    ASSUME TypeOK, Control, SavedBehind, NEW t \in Threads, EndLoop(t), NEW l \in Lists,
           l \in Passed(pc[t]) \/ (pc[t] \in Saving /\ ListOf(pc[t]) = l)
    PROVE  \A i \in 1 .. Len(tracked[uow[t]][l]) : tracked[uow[t]][l][i] \in db
<1> SUFFICES ASSUME NEW i \in 1 .. Len(tracked[uow[t]][l])
             PROVE  tracked[uow[t]][l][i] \in db
  OBVIOUS
<1>1. pc[t] \in Stages /\ pos[t] > Len(Seen(t)) /\ pos[t] \in Nat
  BY DEF EndLoop, Looping, TypeOK
<1>2. CASE l \in Passed(pc[t])
  BY <1>1, <1>2 DEF SavedBehind
<1>3. CASE pc[t] \in Saving /\ ListOf(pc[t]) = l
  <2>1. Seen(t) = tracked[uow[t]][l] /\ Len(Seen(t)) \in Nat
    BY <1>1, <1>3, LoopFacts DEF Seen, Control
  <2>2. BehindLoop(t, l, i)
    BY <1>1, <1>3, <2>1 DEF BehindLoop
  <2> QED
    BY <1>1, <2>2 DEF SavedBehind
<1> QED
  BY <1>2, <1>3

LEMMA StepSavedBehind ==
    ASSUME TypeOK, Control, OneAtATime, SavedBehind, overlapped' = {},
           NEW t \in Threads, Begin(t) \/ Step(t)
    PROVE  SavedBehind'
<1> USE DEF Control
<1>1. \A u \in Threads \ {t} : pc'[u] \notin Stages
  BY OnlyStepper DEF Active, Stages
<1> SUFFICES ASSUME pc'[t] \in Stages, NEW l \in Lists,
                    NEW i \in 1 .. Len(tracked'[uow'[t]][l]),
                    l \in Passed(pc'[t]) \/ BehindLoop(t, l, i)'
             PROVE  tracked'[uow'[t]][l][i] \in db'
  BY <1>1 DEF SavedBehind
<1>2. ~(\/ Begin(t) \/ CheckCurrent(t) \/ CreateCurrent(t) \/ FetchCurrent(t)
        \/ RegisterOnNone(t) \/ Register(t) \/ Raise(t) \/ OnCommitted(t))
  BY DEF Begin, CheckCurrent, CreateCurrent, FetchCurrent, RegisterOnNone, Register, Raise,
     OnCommitted, Fail, Goto, Stages, TypeOK
<1>3. CASE Call(t)
  <2>1. pc'[t] \in {"validate", "flush_deleted"} /\ pos'[t] = 1
    BY <1>3 DEF Call, Goto, FirstStage, TypeOK, Started
  <2>2. Passed(pc'[t]) = {}
    BY <2>1 DEF Passed, Clearing
  <2>3. ~BehindLoop(t, l, i)'
    BY <2>1 DEF BehindLoop
  <2> QED
    BY <2>2, <2>3
<1>4. CASE Validate(t)
  <2>1. /\ pc' = pc /\ tracked' = tracked /\ uow' = uow /\ db' = db
        /\ pc[t] \in {"validate"}
    BY <1>4 DEF Validate
  <2>2. Passed(pc'[t]) = {} /\ ~BehindLoop(t, l, i)'
    BY <2>1 DEF Passed, BehindLoop, Saving, Clearing
  <2> QED
    BY <2>2
<1>5. CASE Save(t)
  <2>1. /\ pc' = pc /\ tracked' = tracked /\ uow' = uow /\ db' = db \cup {Item(t)}
        /\ pos'[t] = pos[t] + 1 /\ pos[t] \in Nat
    BY <1>5 DEF Save, Advance, TypeOK
  <2>2. CASE l \in Passed(pc[t]) \/ BehindLoop(t, l, i)
    BY <2>1, <2>2 DEF SavedBehind
  <2>3. CASE ~(l \in Passed(pc[t]) \/ BehindLoop(t, l, i))
    <3>1. i = pos[t] /\ ListOf(pc[t]) = l
      BY <2>1, <2>3 DEF BehindLoop
    <3> QED
      BY <2>1, <3>1 DEF Item, Seen
  <2> QED
    BY <2>2, <2>3
<1>6. CASE EndLoop(t)
  <2>1. /\ pc[t] \in Stages \ Clearing /\ pc'[t] = After(pc[t])
        /\ pos'[t] = 1 /\ uow' = uow /\ db' = db
    BY <1>6 DEF EndLoop, Looping, Goto, Restart, TypeOK
  <2>2. ~BehindLoop(t, l, i)'
    BY <2>1 DEF BehindLoop
  <2>3. l \in Passed(After(pc[t]))
    BY <2>1, <2>2
  <2>4. pc[t] \in {"save_new", "save_changed", "save_deleted"}
    BY <2>1, <2>3 DEF Passed, After, Stages, Clearing
  <2>5. l \in Passed(pc[t]) \/ (pc[t] \in Saving /\ ListOf(pc[t]) = l)
    BY <2>3, <2>4 DEF Passed, After, Saving, ListOf, Clearing, Lists
  <2>6. tracked' = tracked
    BY <1>6, <2>4 DEF EndLoop
  <2> QED
    BY <1>6, <2>1, <2>5, <2>6, LoopSaved
<1>7. CASE ClearList(t)
  <2>1. /\ pc[t] \in Clearing \cap Stages /\ uow' = uow /\ db' = db
        /\ tracked' = [tracked EXCEPT ![uow[t]][ListOf(pc[t])] = << >>]
    BY <1>7 DEF ClearList, Clearing, Stages
  <2>2. uow[t] \in Threads /\ ListOf(pc[t]) \in Lists
    BY <2>1, LoopFacts
  <2>3. l # ListOf(pc[t])
    BY <2>1, <2>2 DEF TypeOK
  <2>4. tracked'[uow'[t]][l] = tracked[uow[t]][l]
    BY <2>1, <2>2, <2>3 DEF TypeOK
  <2>5. l \in Passed(pc[t])
    BY <2>1 DEF Passed, Clearing
  <2> QED
    BY <2>1, <2>4, <2>5 DEF SavedBehind
<1> QED
  BY <1>2, <1>3, <1>4, <1>5, <1>6, <1>7 DEF Step

(***************************************************************************)
(* While the lists are cleared all they ever held is in the database.      *)
(***************************************************************************)
LEMMA ClearingSettled ==
    ASSUME SInv, NEW t \in Threads, pc[t] \in Clearing
    PROVE  Registered \subseteq db
<1>1. pc[t] \in Stages /\ current = uow[t]
  BY DEF Clearing, Stages, SInv, OnCurrent
<1>2. \A l \in Lists : \A i \in 1 .. Len(tracked[uow[t]][l]) : tracked[uow[t]][l][i] \in db
  BY <1>1 DEF SInv, SavedBehind, Passed, Clearing
<1>3. Tracked(current) \subseteq db
  BY <1>1, <1>2 DEF Tracked
<1> QED
  BY <1>3 DEF SInv, AllKept

LEMMA StepSettled ==
    ASSUME SInv, overlapped' = {}, NEW t \in Threads, Begin(t) \/ Step(t)
    PROVE  Settled'
<1> USE DEF SInv
<1>1. \A u \in Threads \ {t} : pc'[u] # "on_commit"
  BY OnlyStepper DEF Active
<1> SUFFICES ASSUME pc'[t] = "on_commit" PROVE Registered' \subseteq db'
  BY <1>1 DEF Settled
<1>2. pc[t] # "on_commit"
  BY DEF TypeOK, Begin, Step, CheckCurrent, CreateCurrent, FetchCurrent, RegisterOnNone,
     Register, Call, Validate, Save, Raise, Fail, EndLoop, Looping, Stages,
     ClearList, OnCommitted, Goto, Saving, Clearing
<1>3. ClearList(t)
  <2>1. ~(\/ Begin(t) \/ CheckCurrent(t) \/ CreateCurrent(t) \/ FetchCurrent(t)
          \/ RegisterOnNone(t) \/ Register(t) \/ Call(t) \/ Raise(t) \/ OnCommitted(t))
    BY <1>2 DEF TypeOK, Begin, CheckCurrent, CreateCurrent, FetchCurrent, RegisterOnNone,
       Register, Call, FirstStage, Raise, Fail, OnCommitted, Goto
  <2>2. ~(Validate(t) \/ Save(t))
    BY <1>2 DEF Validate, Save
  <2>3. ~EndLoop(t)
    BY DEF EndLoop, Looping, Goto, After, Stages, Clearing, TypeOK
  <2> QED
    BY <2>1, <2>2, <2>3 DEF Step
<1>4. Registered \subseteq db
  BY <1>3, ClearingSettled DEF ClearList
<1> QED
  BY <1>3, <1>4 DEF ClearList, Registered

(***************************************************************************)
(* Only a registration adds to what was registered, and it adds one model  *)
(* that it appends to the current lists.                                   *)
(***************************************************************************)
LEMMA RegisterTracks ==
    ASSUME SInv, NEW t \in Threads, Register(t)
    PROVE  AllKept'
<1>0. PICK x \in Models, k \in Lists, u \in Threads :
        x = Work[t][registered[t] + 1] /\ k = Kind[x] /\ u = uow[t]
  BY NextModel DEF Register, SInv, TypeOK
<1>1. u = current /\ current # NoUow
  BY <1>0 DEF Register, SInv, OnCurrent
<1>2. /\ tracked' = [tracked EXCEPT ![u][k] = Append(tracked[u][k], x)]
      /\ registered' = [registered EXCEPT ![t] = registered[t] + 1]
      /\ registered[t] \in Nat
      /\ current' = current /\ db' = db
  BY <1>0 DEF Register, SInv, TypeOK
<1>3. tracked \in [Threads -> [Lists -> Seq(Models)]]
  BY DEF SInv, TypeOK
<1>4. /\ tracked[u][k] \in Seq(Models)
      /\ tracked'[u][k] = Append(tracked[u][k], x)
      /\ \A l \in Lists \ {k} : tracked'[u][l] = tracked[u][l]
  BY <1>2, <1>3
<1>5. x \in Tracked(u)'
  <2>1. Len(tracked[u][k]) + 1 \in 1 .. Len(tracked'[u][k])
        /\ tracked'[u][k][Len(tracked[u][k]) + 1] = x
    BY <1>4
  <2> QED
    BY <2>1 DEF Tracked
<1>6. Tracked(u) \subseteq Tracked(u)'
  <2> SUFFICES ASSUME NEW m \in Tracked(u) PROVE m \in Tracked(u)'
    OBVIOUS
  <2>0. PICK l \in Lists : \E i \in 1 .. Len(tracked[u][l]) : m = tracked[u][l][i]
    BY DEF Tracked
  <2>1. PICK i \in 1 .. Len(tracked[u][l]) : m = tracked[u][l][i]
    BY <2>0
  <2>2. i \in 1 .. Len(tracked'[u][l]) /\ tracked'[u][l][i] = tracked[u][l][i]
    BY <1>4
  <2> QED
    BY <2>1, <2>2 DEF Tracked
<1>7. Registered' \subseteq Registered \cup {x}
  <2> SUFFICES ASSUME NEW v \in Threads, NEW i \in 1 .. registered'[v]
               PROVE  Work[v][i] \in Registered \cup {x}
    BY DEF Registered
  <2>1. i \in 1 .. registered[v] \/ (v = t /\ i = registered[t] + 1)
    <3>1. registered \in [Threads -> Nat] /\ registered[t] \in Nat /\ registered[v] \in Nat
      BY DEF SInv, TypeOK
    <3>2. registered' = [registered EXCEPT ![t] = registered[t] + 1]
      BY <1>2
    <3>3. registered'[v] = IF v = t THEN registered[t] + 1 ELSE registered[v]
      BY <3>1, <3>2
    <3> QED
      BY <3>1, <3>3
  <2> QED
    BY <1>0, <2>1 DEF Registered
<1> QED
  BY <1>1, <1>2, <1>5, <1>6, <1>7 DEF SInv, AllKept

(***************************************************************************)
(* flush_pending empties _deleted when every model in it is deleted.       *)
(***************************************************************************)
LEMMA FlushTracks ==
    ASSUME SInv, NEW t \in Threads, EndLoop(t)
    PROVE  AllKept'
<1>1. /\ registered' = registered /\ current' = current /\ db' = db
      /\ uow[t] = current /\ uow[t] \in Threads /\ pc[t] \in Stages
  BY LoopFacts DEF EndLoop, Looping, SInv, OnCurrent, Control
<1> SUFFICES ASSUME NEW m \in Registered \ db PROVE m \in Tracked(current)'
  BY <1>1 DEF SInv, AllKept, Registered
<1>2. PICK l \in Lists : \E i \in 1 .. Len(tracked[current][l]) : tracked[current][l][i] = m
  BY DEF SInv, AllKept, Tracked
<1>3. tracked'[current][l] = tracked[current][l]
  <2>1. CASE pc[t] = "flush_deleted"
    <3>1. l # "deleted"
      <4> SUFFICES ASSUME l = "deleted" PROVE FALSE
        OBVIOUS
      <4>1. pc[t] \in Saving /\ ListOf(pc[t]) = l
        BY <2>1 DEF Saving, ListOf
      <4> QED
        BY <1>1, <1>2, <4>1, LoopSaved DEF SInv
    <3>2. tracked' = [tracked EXCEPT ![uow[t]]["deleted"] = << >>]
      BY <2>1 DEF EndLoop
    <3> QED
      BY <1>1, <3>1, <3>2 DEF SInv, TypeOK
  <2>2. CASE pc[t] # "flush_deleted"
    BY <2>2 DEF EndLoop
  <2> QED
    BY <2>1, <2>2
<1> QED
  BY <1>1, <1>2, <1>3 DEF Tracked

LEMMA StepNothingForgotten ==
    ASSUME SInv, overlapped' = {}, NEW t \in Threads, Begin(t) \/ Step(t)
    PROVE  AllKept'
<1>1. CASE /\ tracked' = tracked /\ registered' = registered /\ current' = current
           /\ db \subseteq db'
  BY <1>1 DEF SInv, AllKept, Registered, Tracked
<1>2. CASE Register(t)
  BY <1>2, RegisterTracks
<1>3. CASE EndLoop(t)
  BY <1>3, FlushTracks
<1>4. CASE CreateCurrent(t)
  <2>1. Registered \subseteq db
    BY <1>4 DEF CreateCurrent, SInv, OnCurrent, AllKept
  <2> QED
    BY <1>4, <2>1 DEF CreateCurrent, AllKept, Registered
<1>5. CASE ClearList(t)
  <2>1. Registered \subseteq db
    BY <1>5, ClearingSettled DEF ClearList
  <2> QED
    BY <1>5, <2>1 DEF ClearList, AllKept, Registered
<1>6. CASE OnCommitted(t)
  <2>1. Registered \subseteq db
    BY <1>6 DEF OnCommitted, SInv, Settled
  <2> QED
    BY <1>6, <2>1 DEF OnCommitted, AllKept, Registered
<1> QED
  BY <1>1, <1>2, <1>3, <1>4, <1>5, <1>6 DEF Begin, Step, CheckCurrent, FetchCurrent,
     RegisterOnNone, Call, Validate, Save, Raise, Fail

LEMMA InitSInv == Init => SInv
<1> SUFFICES ASSUME Init PROVE SInv
  OBVIOUS
<1>1. TypeOK /\ Control
  BY InitIInv DEF IInv
<1> QED
  BY <1>1 DEF Init, SInv, OneAtATime, Active, OnCurrent, SavedBehind, Settled,
     AllKept, Registered, Stages

LEMMA StepSInv ==
    ASSUME SInv, [Next]_vars, overlapped' = {}
    PROVE  SInv'
<1>1. CASE UNCHANGED vars
  <2> USE <1>1 DEF vars, SInv
  <2>1. TypeOK'
    BY DEF TypeOK
  <2>2. Control'
    BY DEF Control, AnsweredDone, Solitude, Alone, Active, Started, Called
  <2>3. OneAtATime' /\ OnCurrent' /\ SavedBehind'
    BY DEF OneAtATime, Active, OnCurrent, SavedBehind, BehindLoop
  <2>4. Settled' /\ AllKept'
    BY DEF Settled, AllKept, Registered, Tracked
  <2> QED
    BY <2>1, <2>2, <2>3, <2>4
<1>2. CASE Next
  <2>1. PICK t \in Threads : Begin(t) \/ Step(t)
    BY <1>2 DEF Next
  <2>2. TypeOK' /\ Control'
    BY <2>1, StepType, StepSolitude, StepAnswered, StepStarted DEF SInv, Control
  <2>3. OneAtATime' /\ OnCurrent' /\ SavedBehind'
    BY <2>1, StepOneAtATime, StepOnCurrent, StepSavedBehind DEF SInv
  <2>4. Settled' /\ AllKept'
    BY <2>1, StepSettled, StepNothingForgotten
  <2> QED
    BY <2>2, <2>3, <2>4 DEF SInv
<1> QED
  BY <1>1, <1>2

\* What has overlapped stays on record.
LEMMA OverlapsStay == IInv /\ [Next]_vars => overlapped \subseteq overlapped'
<1> SUFFICES ASSUME IInv, [Next]_vars PROVE overlapped \subseteq overlapped'
  OBVIOUS
<1>1. CASE UNCHANGED vars
  BY <1>1 DEF vars
<1>2. ASSUME NEW t \in Threads, Begin(t) PROVE overlapped \subseteq overlapped'
  BY <1>2 DEF Begin
<1>3. ASSUME NEW t \in Threads, Step(t) PROVE overlapped \subseteq overlapped'
  BY <1>3, StepMoves DEF IInv, Control
<1> QED
  BY <1>1, <1>2, <1>3 DEF Next

(***************************************************************************)
(* As long as requests came one at a time, whatever saves, validations or  *)
(* flushes failed: a registered model that is not in the database is       *)
(* tracked by the unit of work the next request is given (commit clears    *)
(* its lists only on success, and the factory forgets it only then).       *)
(***************************************************************************)
THEOREM SerialForgetsNothing == Spec => []NothingForgotten
<1> DEFINE Apart == overlapped = {} => SInv
<1>1. Init => Apart
  BY InitSInv
<1>2. IInv /\ Apart /\ [Next]_vars => Apart'
  BY OverlapsStay, StepSInv
<1>3. Apart => NothingForgotten
  BY DEF SInv, AllKept, NothingForgotten
<1> HIDE DEF Apart
<1> QED
  BY <1>1, <1>2, <1>3, Invariance, PTL DEF Spec
=============================================================================
