----------------------------- MODULE UnitOfWork -----------------------------
(***************************************************************************)
(* The unit of work through which every service writes the graph           *)
(* (infrastructure/neo4j/unit_of_work.py, unit_of_work_factory.py,         *)
(* base.py).  A service call gets the current unit of work from the one    *)
(* factory of the process, registers its models and commits (or flushes).  *)
(* The factory hands the same object to every caller until a commit of it  *)
(* succeeds, and nothing locks it: the calls of two request threads        *)
(* interleave at every step below.  repo.save is one auto-committed query  *)
(* on the serialized session, so one save is one action.  Every wiring     *)
(* passes no reconstructor (composition.py, cli/import_document.py), so    *)
(* the loops of flush_pending that would rebuild dirty models do not run.  *)
(*                                                                         *)
(* A request is a thread with the model objects it registers; the objects  *)
(* of two requests are distinct, even when they stand for one node of the  *)
(* graph.                                                                  *)
(***************************************************************************)
EXTENDS Naturals, Sequences

CONSTANTS
    Threads,        \* request threads, each serving one request
    Models,         \* the model objects of all requests
    Work,           \* for each thread, the sequence of models it registers
    Kind,           \* the DataState of each model: "new", "changed" or "deleted"
    Dirty,          \* the models whose text was set and not tokenized (set_text)
    Refusable,      \* the models the database may refuse (a uniqueness constraint)
    Flushes,        \* the threads that end in flush_pending, the others in commit
    NoUow

ASSUME WorkAssumption      == Work \in [Threads -> Seq(Models)]
ASSUME KindAssumption      == Kind \in [Models -> {"new", "changed", "deleted"}]
ASSUME DirtyAssumption     == Dirty \subseteq Models
ASSUME NoUowAssumption     == NoUow \notin Threads

(***************************************************************************)
(* A unit of work is named after the thread that created it: a thread      *)
(* creates at most one.                                                    *)
(***************************************************************************)
VARIABLES
    current,   \* UnitOfWorkFactory._current
    tracked,   \* for each unit of work, its lists _new, _changed and _deleted
    db,        \* the models whose save the database has applied
    pc,        \* the place of each thread in its service call
    uow,       \* the unit of work get_unit_of_work returned
    registered,\* how many models of its request a thread has registered
    pos,       \* the position of the thread's loop in the list it iterates
    result,    \* the answer to each request
    overlapped \* history: the threads served while another one was

vars == <<current, tracked, db, pc, uow, registered, pos, result, overlapped>>

Lists == {"new", "changed", "deleted"}
Empty == [l \in Lists |-> << >>]

(***************************************************************************)
(* The loops of flush_pending and commit, in the order of the code, the    *)
(* list each runs over and the stage that follows it.                      *)
(***************************************************************************)
Stages == {"flush_deleted", "validate", "save_new", "save_changed", "save_deleted",
           "clear_new", "clear_changed", "clear_deleted"}

\* Mutant of ListOf: the second save loop runs over _new again.
ListOfNewTwice(s) ==
    CASE s \in {"save_new", "save_changed", "clear_new"} -> "new"
      [] s = "clear_changed" -> "changed"
      [] OTHER -> "deleted"

ListOf(s) ==
    CASE s \in {"save_new", "clear_new"} -> "new"
      [] s \in {"save_changed", "clear_changed"} -> "changed"
      [] s \in {"flush_deleted", "validate", "save_deleted", "clear_deleted"} -> "deleted"

After(s) ==
    CASE s = "flush_deleted"   -> "validate"
      [] s = "validate"        -> "save_new"
      [] s = "save_new"        -> "save_changed"
      [] s = "save_changed"    -> "save_deleted"
      [] s = "save_deleted"    -> "clear_new"
      [] s = "clear_new"       -> "clear_changed"
      [] s = "clear_changed"   -> "clear_deleted"
      [] s = "clear_deleted"   -> "on_commit"

Saving     == {"flush_deleted", "save_new", "save_changed", "save_deleted"}
Clearing   == {"clear_new", "clear_changed", "clear_deleted"}

Places == {"idle", "check", "create", "fetch", "register", "on_commit", "done"} \cup Stages

\* The first loop of the call that ends the request.
FirstStage(t) == IF t \in Flushes THEN "flush_deleted" ELSE "validate"

TypeOK ==
    /\ current \in Threads \cup {NoUow}
    /\ tracked \in [Threads -> [Lists -> Seq(Models)]]
    /\ db \subseteq Models
    /\ pc \in [Threads -> Places]
    /\ uow \in [Threads -> Threads \cup {NoUow}]
    /\ registered \in [Threads -> Nat]
    /\ \A t \in Threads : registered[t] <= Len(Work[t])
    /\ pos \in [Threads -> Nat \ {0}]
    /\ result \in [Threads -> {"none", "ok", "error"}]
    /\ overlapped \subseteq Threads

Init ==
    /\ current = NoUow
    /\ tracked = [t \in Threads |-> Empty]
    /\ db = {}
    /\ pc = [t \in Threads |-> "idle"]
    /\ uow = [t \in Threads |-> NoUow]
    /\ registered = [t \in Threads |-> 0]
    /\ pos = [t \in Threads |-> 1]
    /\ result = [t \in Threads |-> "none"]
    /\ overlapped = {}

Goto(t, place) == pc' = [pc EXCEPT ![t] = place]
Active(t) == pc[t] \notin {"idle", "done"}

\* A request arrives at its service.
Begin(t) ==
    /\ pc[t] = "idle"
    /\ Goto(t, "check")
    /\ overlapped' = overlapped \cup {u \in Threads : Active(u)}
                      \cup IF \E u \in Threads : Active(u) THEN {t} ELSE {}
    /\ UNCHANGED <<current, tracked, db, uow, registered, pos, result>>

(***************************************************************************)
(* get_unit_of_work: `if self._current is None`, then the assignment, then *)
(* the read that returns; each reads or writes the shared attribute.       *)
(***************************************************************************)
CheckCurrent(t) ==
    /\ pc[t] = "check"
    /\ Goto(t, IF current = NoUow THEN "create" ELSE "fetch")
    /\ UNCHANGED <<current, tracked, db, uow, registered, pos, result, overlapped>>

CreateCurrent(t) ==
    /\ pc[t] = "create"
    /\ current' = t
    /\ Goto(t, "fetch")
    /\ UNCHANGED <<tracked, db, uow, registered, pos, result, overlapped>>

FetchCurrent(t) ==
    /\ pc[t] = "fetch"
    /\ uow' = [uow EXCEPT ![t] = current]
    /\ Goto(t, "register")
    /\ UNCHANGED <<current, tracked, db, registered, pos, result, overlapped>>

\* Mutant of Fail: the factory forgets its unit of work on failure too.
FailForgets(t) ==
    /\ Goto(t, "done")
    /\ result' = [result EXCEPT ![t] = "error"]
    /\ current' = NoUow
    /\ UNCHANGED <<tracked, db, uow, registered, pos, overlapped>>

\* The request is answered with an error; the lists stay as they are.
Fail(t) ==
    /\ Goto(t, "done")
    /\ result' = [result EXCEPT ![t] = "error"]
    /\ UNCHANGED <<current, tracked, db, uow, registered, pos, overlapped>>

\* Mutant of RegisterOnNone: wait for a unit of work that somebody creates.
RegisterOnNoneWaits(t) ==
    /\ pc[t] = "register"
    /\ uow[t] = NoUow
    /\ uow' = [uow EXCEPT ![t] = current]
    /\ UNCHANGED <<current, tracked, db, pc, registered, pos, result, overlapped>>

\* A commit of another thread made get_unit_of_work return None.
RegisterOnNone(t) ==
    /\ pc[t] = "register"
    /\ uow[t] = NoUow
    /\ Fail(t)

\* register: append the model to the list of its state.
Register(t) ==
    /\ pc[t] = "register"
    /\ uow[t] # NoUow
    /\ registered[t] < Len(Work[t])
    /\ LET m == Work[t][registered[t] + 1] IN
         tracked' = [tracked EXCEPT ![uow[t]][Kind[m]] = Append(@, m)]
    /\ registered' = [registered EXCEPT ![t] = @ + 1]
    /\ UNCHANGED <<current, db, pc, uow, pos, result, overlapped>>

\* Everything is registered: commit() or flush_pending() is called.
Call(t) ==
    /\ pc[t] = "register"
    /\ uow[t] # NoUow
    /\ registered[t] = Len(Work[t])
    /\ Goto(t, FirstStage(t))
    /\ UNCHANGED <<current, tracked, db, uow, registered, pos, result, overlapped>>

(***************************************************************************)
(* The loops iterate the live lists by position, as Python does: an entry  *)
(* another thread appends behind the position is visited, and a list       *)
(* another thread clears ends the loop.                                    *)
(***************************************************************************)
Looping(t) == pc[t] \in Stages \ Clearing
Seen(t)    == tracked[uow[t]][ListOf(pc[t])]
AtItem(t)  == Looping(t) /\ pos[t] <= Len(Seen(t))
Item(t)    == Seen(t)[pos[t]]
Advance(t) == pos' = [pos EXCEPT ![t] = @ + 1]

\* commit's pre-validation of a model to delete; its state is still DELETED.
Validate(t) ==
    /\ pc[t] = "validate" /\ AtItem(t)
    /\ Item(t) \notin Dirty
    /\ Advance(t)
    /\ UNCHANGED <<current, tracked, db, pc, uow, registered, result, overlapped>>

\* BaseRepository.save: one query of its own.
Save(t) ==
    /\ pc[t] \in Saving /\ AtItem(t)
    /\ Item(t) \notin Dirty
    /\ db' = db \cup {Item(t)}
    /\ Advance(t)
    /\ UNCHANGED <<current, tracked, pc, uow, registered, result, overlapped>>

\* save, or the validation, raises: the model is dirty or the database refuses it.
Raise(t) ==
    /\ pc[t] \in Saving \cup {"validate"} /\ AtItem(t)
    /\ \/ Item(t) \in Dirty
       \/ Item(t) \in Refusable /\ pc[t] \in Saving
    /\ Fail(t)

\* Mutant of Restart: the next loop starts one before the first element.
RestartAtZero(t) == pos' = [pos EXCEPT ![t] = 0]

\* Every loop starts at the first element of its list.
Restart(t) == pos' = [pos EXCEPT ![t] = 1]

\* The end of a loop; flush_pending then empties _deleted.
EndLoop(t) ==
    /\ Looping(t) /\ pos[t] > Len(Seen(t))
    /\ tracked' = IF pc[t] = "flush_deleted"
                  THEN [tracked EXCEPT ![uow[t]]["deleted"] = << >>]
                  ELSE tracked
    /\ Goto(t, After(pc[t]))
    /\ Restart(t)
    /\ UNCHANGED <<current, db, uow, registered, result, overlapped>>

\* _clear: one list after the other.
ClearList(t) ==
    /\ pc[t] \in Clearing
    /\ tracked' = [tracked EXCEPT ![uow[t]][ListOf(pc[t])] = << >>]
    /\ Goto(t, After(pc[t]))
    /\ UNCHANGED <<current, db, uow, registered, pos, result, overlapped>>

\* Mutant of OnCommitted: no on_commit callback was passed.
OnCommittedKeeps(t) ==
    /\ pc[t] = "on_commit"
    /\ result' = [result EXCEPT ![t] = "ok"]
    /\ Goto(t, "done")
    /\ UNCHANGED <<current, tracked, db, uow, registered, pos, overlapped>>

\* on_commit: the factory forgets its current unit of work, whichever it is.
OnCommitted(t) ==
    /\ pc[t] = "on_commit"
    /\ current' = NoUow
    /\ result' = [result EXCEPT ![t] = "ok"]
    /\ Goto(t, "done")
    /\ UNCHANGED <<tracked, db, uow, registered, pos, overlapped>>

Step(t) ==
    \/ CheckCurrent(t) \/ CreateCurrent(t) \/ FetchCurrent(t)
    \/ RegisterOnNone(t) \/ Register(t) \/ Call(t)
    \/ Validate(t) \/ Save(t) \/ Raise(t)
    \/ EndLoop(t) \/ ClearList(t) \/ OnCommitted(t)

Next == \E t \in Threads : Begin(t) \/ Step(t)

Spec == Init /\ [][Next]_vars

\* A request that has arrived is served on: its thread is scheduled.
FairSpec == Spec /\ \A t \in Threads : WF_vars(Step(t))
-----------------------------------------------------------------------------
Tracked(u) == UNION {{tracked[u][l][i] : i \in 1 .. Len(tracked[u][l])} : l \in Lists}
WorkOf(t)  == {Work[t][i] : i \in 1 .. Len(Work[t])}
Registered == UNION {{Work[t][i] : i \in 1 .. registered[t]} : t \in Threads}

(***************************************************************************)
(* A request answered with success has been persisted, every model of it   *)
(* (commit: "validate all entries, then persist. Clears lists only on      *)
(* success", unit_of_work.py).                                             *)
(***************************************************************************)
AckedPersisted == \A t \in Threads : result[t] = "ok" => WorkOf(t) \subseteq db

(***************************************************************************)
(* Whatever overlapping requests did to the unit of work they shared, a    *)
(* later request that overlapped none and is answered with success has     *)
(* been persisted.                                                         *)
(***************************************************************************)
AloneAckedPersisted ==
    \A t \in Threads \ overlapped : result[t] = "ok" => WorkOf(t) \subseteq db

(***************************************************************************)
(* What a failed commit did not persist stays tracked by the unit of work  *)
(* the next request is given, so that it is committed next time            *)
(* (infrastructure/neo4j/README.md, the paragraph on a CommitJob that      *)
(* exited early): it is in the database or in the current lists, as long   *)
(* as requests came one at a time.                                         *)
(***************************************************************************)
NothingForgotten ==
    overlapped = {} => \A m \in Registered \ db : current # NoUow /\ m \in Tracked(current)

(***************************************************************************)
(* A unit of work is current only while a request is served, or because    *)
(* one failed: success never leaves one behind for a stranger.             *)
(***************************************************************************)
OpenOnlyWhilePending ==
    current # NoUow => \E t \in Threads : Active(t) \/ result[t] = "error"

(***************************************************************************)
(* Every request that arrived is answered, whatever other threads do to    *)
(* the lists it iterates.                                                  *)
(***************************************************************************)
EveryRequestAnswered == \A t \in Threads : Active(t) ~> pc[t] = "done"
=============================================================================
