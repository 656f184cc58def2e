---------------------------- MODULE MCUnitOfWork ----------------------------
(***************************************************************************)
(* Instances of the unit of work: "save" stands for markdown_import's      *)
(* _persist (a changed chapter and a new paragraph of it), "drop" for      *)
(* ChapterService.delete, and "text" for SentenceService.create, which     *)
(* registers one dirty model and flushes.                                  *)
(***************************************************************************)
EXTENDS UnitOfWork

CONSTANTS save, drop, text                          \* request threads
CONSTANTS chapter, paragraph, gone, sentence        \* their model objects

MCModels == {chapter, paragraph, gone, sentence}

MCKind ==
    [m \in MCModels |-> CASE m = chapter -> "changed"
                          [] m = gone    -> "deleted"
                          [] OTHER       -> "new"]

MCWork ==
    [t \in {save, drop, text} |-> CASE t = save -> <<chapter, paragraph>>
                                    [] t = drop -> <<gone>>
                                    [] t = text -> <<sentence>>]

\* The instance with the two threads that only commit.
TwoWork == [t \in {save, drop} |-> MCWork[t]]
=============================================================================
