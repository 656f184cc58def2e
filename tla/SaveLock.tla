------------------------------ MODULE SaveLock ------------------------------
(***************************************************************************)
(* The registry of per-chapter save locks of ChapterService                *)
(* (services/crud_services.py): _save_lock hands a thread the lock object  *)
(* of a chapter, creating it on first use and counting the users, and      *)
(* _save_release drops the entry when the last user is gone.  A lock       *)
(* object that nobody refers to any more is garbage, so a later save of    *)
(* the same chapter gets another object: that two threads in one chapter   *)
(* nevertheless see one object is what the reference count is for.         *)
(*                                                                         *)
(* Every access of the two dictionaries is under _save_registry_guard, so  *)
(* each of the two critical sections is one action.                        *)
(***************************************************************************)
EXTENDS Naturals, FiniteSets

CONSTANTS
    Threads,   \* request threads
    Chapters,  \* chapter ids
    Locks,     \* threading.Lock objects; one is fresh while nothing refers to it
    NoLock, NoThread, NoChapter

ASSUME NoLockAssumption    == NoLock \notin Locks
ASSUME NobodyAssumption    == NoThread \notin Threads
ASSUME NoChapterAssumption == NoChapter \notin Chapters
ASSUME ThreadsAssumption   == IsFiniteSet(Threads)

VARIABLES
    saveLocks,  \* _save_locks: the registered lock object of each chapter
    saveUsers,  \* _save_users: holders and waiters; an absent key counts 0
    held,       \* for each lock object, the thread that holds it
    pc,         \* where each thread is in _save_scope
    chapter,    \* the chapter_id argument of each thread's scope
    lock        \* the local `lock` of each thread's scope

lockVars == <<saveLocks, saveUsers, held, pc, chapter, lock>>

\* A thread's place in _save_scope: outside, blocked in `with lock`, in the
\* body, past the `with`, about to run the `finally`.
Places == {"outside", "waiting", "body", "finally"}

LockTypeOK ==
    /\ saveLocks \in [Chapters -> Locks \cup {NoLock}]
    /\ saveUsers \in [Chapters -> Nat]
    /\ held \in [Locks -> Threads \cup {NoThread}]
    /\ pc \in [Threads -> Places]
    /\ chapter \in [Threads -> Chapters \cup {NoChapter}]
    /\ lock \in [Threads -> Locks \cup {NoLock}]

LockInit ==
    /\ saveLocks = [c \in Chapters |-> NoLock]
    /\ saveUsers = [c \in Chapters |-> 0]
    /\ held = [l \in Locks |-> NoThread]
    /\ pc = [t \in Threads |-> "outside"]
    /\ chapter = [t \in Threads |-> NoChapter]
    /\ lock = [t \in Threads |-> NoLock]

\* A lock object that neither the registry nor any thread refers to.
Fresh(l) ==
    /\ \A c \in Chapters : saveLocks[c] # l
    /\ \A t \in Threads : lock[t] # l

\* Mutant of LockFor: an unregistered chapter is given any lock, in use or not.
LockForShared(c, l) == saveLocks[c] = NoLock \/ l = saveLocks[c]

\* The object _save_lock returns: the registered one, or a new one.
LockFor(c, l) == IF saveLocks[c] = NoLock THEN Fresh(l) ELSE l = saveLocks[c]

\* _save_lock: take or create the chapter's lock and count this thread.
Register(t, c) ==
    /\ pc[t] = "outside"
    /\ \E l \in Locks :
         /\ LockFor(c, l)
         /\ saveLocks' = [saveLocks EXCEPT ![c] = l]
         /\ lock' = [lock EXCEPT ![t] = l]
    /\ saveUsers' = [saveUsers EXCEPT ![c] = @ + 1]
    /\ chapter' = [chapter EXCEPT ![t] = c]
    /\ pc' = [pc EXCEPT ![t] = "waiting"]
    /\ UNCHANGED held

\* `with lock:` succeeds.
Acquire(t) ==
    /\ pc[t] = "waiting"
    /\ held[lock[t]] = NoThread
    /\ held' = [held EXCEPT ![lock[t]] = t]
    /\ pc' = [pc EXCEPT ![t] = "body"]
    /\ UNCHANGED <<saveLocks, saveUsers, chapter, lock>>

\* The `with lock` block ends, normally or by an exception of the save.
Unlock(t) ==
    /\ pc[t] = "body"
    /\ held' = [held EXCEPT ![lock[t]] = NoThread]
    /\ pc' = [pc EXCEPT ![t] = "finally"]
    /\ UNCHANGED <<saveLocks, saveUsers, chapter, lock>>

\* Mutants of Evicts: off by one, never, and the comparison turned round.
EvictsEarly(c)   == saveUsers[c] <= 2
EvictsNever(c)   == saveUsers[c] < 0
EvictsInUse(c)   == saveUsers[c] > 1

\* `users - 1 <= 0`: the thread that leaves was the last user of the chapter.
Evicts(c) == saveUsers[c] <= 1

\* _save_release: uncount this thread, dropping the entry of an idle chapter.
Release(t) ==
    LET c == chapter[t] IN
    /\ pc[t] = "finally"
    /\ saveUsers' = [saveUsers EXCEPT ![c] = IF Evicts(c) THEN 0 ELSE @ - 1]
    /\ saveLocks' = [saveLocks EXCEPT ![c] = IF Evicts(c) THEN NoLock ELSE @]
    /\ chapter' = [chapter EXCEPT ![t] = NoChapter]
    /\ lock' = [lock EXCEPT ![t] = NoLock]
    /\ pc' = [pc EXCEPT ![t] = "outside"]
    /\ UNCHANGED held

LockNext ==
    \E t \in Threads :
      \/ \E c \in Chapters : Register(t, c)
      \/ Acquire(t)
      \/ Unlock(t)
      \/ Release(t)

LockSpec == LockInit /\ [][LockNext]_lockVars

(***************************************************************************)
(* Fairness: a thread that can take the lock, that is in the body or that  *)
(* is in the `finally` goes on, because the operating system schedules it; *)
(* nothing makes a request arrive.  threading.Lock is not a queue, so a    *)
(* thread whose lock is only now and then free has no promise (no SF).     *)
(***************************************************************************)
Fairness ==
    \A t \in Threads : WF_lockVars(Acquire(t)) /\ WF_lockVars(Unlock(t)) /\ WF_lockVars(Release(t))

FairLockSpec == LockSpec /\ Fairness
-----------------------------------------------------------------------------
\* The threads between _save_lock and _save_release of chapter c.
Users(c) == {t \in Threads : chapter[t] = c}

(***************************************************************************)
(* Saves of one chapter serialize: two threads are never in the body of    *)
(* _save_scope for the same chapter (crud_services.py, _save_scope).       *)
(***************************************************************************)
MutualExclusion ==
    \A t, u \in Threads :
      pc[t] = "body" /\ pc[u] = "body" /\ chapter[t] = chapter[u] => t = u

(***************************************************************************)
(* Distinct chapters proceed concurrently: a thread that finds its lock    *)
(* taken waits for a thread of its own chapter, never for another one      *)
(* that was handed the same object.                                        *)
(***************************************************************************)
BlockedByOwnChapter ==
    \A t, u \in Threads :
      pc[t] = "waiting" /\ pc[u] = "body" /\ lock[t] = lock[u]
        => chapter[t] = chapter[u]

(***************************************************************************)
(* The registry holds an entry exactly for the chapters in use and counts  *)
(* their holders and waiters exactly: it neither grows over a server's     *)
(* lifetime nor forgets a lock somebody still waits for (_save_release).   *)
(***************************************************************************)
RegistryExact ==
    \A c \in Chapters :
      /\ saveUsers[c] = Cardinality(Users(c))
      /\ saveLocks[c] = NoLock <=> Users(c) = {}

(***************************************************************************)
(* A chapter somebody waits for is not blocked for ever: some thread gets  *)
(* into it (which one is up to threading.Lock).                            *)
(***************************************************************************)
SomebodyEnters ==
    \A c \in Chapters :
      (\E t \in Users(c) : pc[t] = "waiting") ~> (\E t \in Users(c) : pc[t] = "body")

(***************************************************************************)
(* The refinement: the owner of a chapter is the thread in its body.       *)
(***************************************************************************)
InBody(c) == {t \in Threads : pc[t] = "body" /\ chapter[t] = c}

ownerOf ==
    [c \in Chapters |-> IF InBody(c) = {} THEN NoThread ELSE CHOOSE t \in InBody(c) : TRUE]

Mutex == INSTANCE ChapterMutex WITH owner <- ownerOf

(***************************************************************************)
(* The registry implements the mutual exclusion ChapterMutex promises.     *)
(***************************************************************************)
MutexRefined == Mutex!MutexSpec
=============================================================================
