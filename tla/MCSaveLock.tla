----------------------------- MODULE MCSaveLock -----------------------------
(***************************************************************************)
(* Three request threads over two chapters, with as many lock objects as   *)
(* threads (a thread refers to one object, so one is always fresh).        *)
(* Three threads are the fewest in which a chapter has a holder, a waiter  *)
(* and a newcomer, which is where a premature eviction would show.         *)
(***************************************************************************)
EXTENDS SaveLock
=============================================================================
