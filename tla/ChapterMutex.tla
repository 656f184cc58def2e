---------------------------- MODULE ChapterMutex ----------------------------
(***************************************************************************)
(* What the per-chapter save lock promises the services that use it: at    *)
(* any time a chapter is being saved or reconciled by at most one request  *)
(* thread, and a request thread is inside at most one chapter.  The        *)
(* registry of lock objects that keeps this promise is module SaveLock,    *)
(* which is checked and proved to implement this one; module ChapterFiles  *)
(* takes its lock from here.                                               *)
(***************************************************************************)
CONSTANTS
    Threads,   \* request threads of the server
    Chapters,  \* chapter ids
    NoThread   \* the lock of a chapter nobody is saving

VARIABLE owner   \* the thread inside each chapter's save scope

MutexTypeOK == owner \in [Chapters -> Threads \cup {NoThread}]

MutexInit == owner = [c \in Chapters |-> NoThread]

\* The body of `with self._save_scope(chapter_id)` is entered.
Enter(t, c) ==
    /\ owner[c] = NoThread
    /\ \A d \in Chapters : owner[d] # t
    /\ owner' = [owner EXCEPT ![c] = t]

\* The body is left, by falling off its end or by an exception.
Leave(t, c) ==
    /\ owner[c] = t
    /\ owner' = [owner EXCEPT ![c] = NoThread]

MutexNext == \E t \in Threads, c \in Chapters : Enter(t, c) \/ Leave(t, c)

MutexSpec == MutexInit /\ [][MutexNext]_owner
=============================================================================
