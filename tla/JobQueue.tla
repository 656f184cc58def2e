------------------------------ MODULE JobQueue ------------------------------
(***************************************************************************)
(* The job queue of a session and the edits that go through it             *)
(* (services/semantics: job_queue.py, the jobs, async_reconstructor.py;    *)
(* services/crud_services.py, the asynchronous half of ParagraphService    *)
(* and SentenceService; infrastructure/neo4j/idle_flush_listener.py).      *)
(*                                                                         *)
(* A request loads or creates a model object, sets its content, queues a   *)
(* DeleteJob, a ReconstructJob and a CommitJob and answers.  One worker    *)
(* thread runs the jobs and, whenever the queue stays empty, lets the      *)
(* listener flush the unit of work.  enqueue registers a job under the     *)
(* lock and puts its id in the queue after it.                             *)
(*                                                                         *)
(* Requests of one node follow each other, those of two nodes overlap.     *)
(* A commit of the unit of work is one step here: what two threads can do  *)
(* to each other inside it is UnitOfWork.tla's.  The sentences are not in  *)
(* the paragraphs of the instance.  A job takes less than the 300 seconds  *)
(* shutdown waits for it, and no code of src/ calls cancel_job.            *)
(***************************************************************************)
EXTENDS Integers, FiniteSets, SequencesExt

CONSTANTS
    Sentences, Paragraphs,
    Texts,           \* what a node may say
    Scripts,         \* the sequences of edits a run considers
    Reconstructor,   \* whether the factory of the units of work has one
    MaxTrouble,      \* bound on timeouts, refused queries and shutdowns
    Gone, Blank,     \* no node; a node without tokens or sentences
    NoJob

Nodes  == Sentences \cup Paragraphs
Edits  == UNION {DOMAIN s : s \in Scripts}
Kinds  == <<"delete", "reconstruct", "commit">>
Jobs   == Edits \X Range(Kinds)

ASSUME ScriptsAssumption ==
    \A s \in Scripts : s \in Seq([op : {"create", "update", "delete"}, node : Nodes,
                                  text : Texts \cup {Blank}, parented : BOOLEAN])
\* A create makes a node of its own (uuid4).
ASSUME FreshAssumption ==
    \A s \in Scripts : \A e \in DOMAIN s : \A f \in 1 .. e - 1 :
        s[e].op = "create" => s[f].node # s[e].node
ASSUME BoundAssumption == MaxTrouble \in Nat /\ Reconstructor \in BOOLEAN
ASSUME NobodyAssumption == NoJob \notin Jobs /\ Gone \notin Texts \cup {Blank}

VARIABLES
    script,      \* the edits of this run
    step,        \* where the request of an edit is: 0, then two steps for each job, then 7
    object,      \* its model object
    status,      \* Job.status
    jobs,        \* JobQueue._jobs
    recon,       \* JobQueue._reconstruct_jobs, by node
    queue,       \* JobQueue._queue
    pending,     \* JobQueue._pending_count
    completed,   \* JobQueue._completed_event
    control,     \* the caller of start and shutdown: "off", "on", "set" or "taken"
    worker,      \* the worker thread
    uow,         \* the lists of the current unit of work
    db,          \* the graph
    trouble,     \* timeouts, refused queries and shutdowns so far
    last,        \* history: the last edit of a node that had something to write
    overtaken,   \* history: the nodes whose last edit a delete or a shutdown met half-way
    leftover     \* history: whether a shutdown left ids in the queue

vars == <<script, step, object, status, jobs, recon, queue, pending, completed, control,
          worker, uow, db, trouble, last, overtaken, leftover>>

Queued    == <<status, jobs, recon, queue, pending, completed>>
History   == <<last, overtaken, leftover>>
Lists     == {"new", "changed", "deleted"}
NoWork    == [l \in Lists |-> << >>]
NoObject  == [state |-> "_", dirty |-> FALSE, words |-> Blank]
Asleep    == [pc |-> "absent", job |-> NoJob]
Looping   == [pc |-> "loop", job |-> NoJob]
Node(e)   == script[e].node
Tracked   == Range(uow.new) \cup Range(uow.changed) \cup Range(uow.deleted)
Target(e) == IF script[e].op = "delete" THEN Gone ELSE script[e].text

Init ==
    /\ script \in Scripts
    /\ step      = [e \in Edits |-> 0]
    /\ object    = [e \in Edits |-> NoObject]
    /\ status    = [j \in Jobs |-> "queued"]
    /\ jobs      = {}
    /\ recon     = [n \in Nodes |-> NoJob]
    /\ queue     = << >>
    /\ pending   = 0
    /\ completed = FALSE
    /\ control   = "off"
    /\ worker    = Asleep
    /\ uow       = NoWork
    /\ db        = [n \in Nodes |-> IF \E e \in DOMAIN script : script[e].op = "create" /\ Node(e) = n
                                      THEN Gone ELSE Blank]
    /\ trouble   = 0
    /\ last      = [n \in Nodes |-> 0]
    /\ overtaken = {}
    /\ leftover  = FALSE

Trouble == /\ trouble < MaxTrouble
           /\ trouble' = trouble + 1

---------------------------------------------------------------------------
(* The graph. *)

\* The write of a node: through its parent, which matches nothing when the request did not
\* name it, and with an UNWIND that ends the query when the node has become empty.
Merged(d, e, words) ==
    IF ~script[e].parented THEN d
    ELSE IF words = Blank THEN IF d[Node(e)] = Gone THEN [d EXCEPT ![Node(e)] = Blank] ELSE d
    ELSE [d EXCEPT ![Node(e)] = words]

Removed(d, e) == [d EXCEPT ![Node(e)] = Gone]

\* repo.save, which dispatches on the state of the model.
Saved(d, e, o) ==
    IF o.state \in {"new", "changed"} THEN Merged(d, e, o.words)
    ELSE IF o.state = "deleted" THEN Removed(d, e) ELSE d

\* The graph after the first n saves of a commit.
Written(order, os, n) ==
    LET after[i \in 0 .. n] == IF i = 0 THEN db ELSE Saved(after[i - 1], order[i], os[order[i]])
    IN  after[n]

\* The first n saves of a commit go through.  The next one raises, because its model is dirty
\* or because the database refuses it, unless there is none.
Persist(order, os, n) ==
    /\ \A i \in 1 .. n : ~os[order[i]].dirty
    /\ db' = Written(order, os, n)
    /\ IF n < Len(order) /\ ~os[order[n + 1]].dirty THEN Trouble ELSE UNCHANGED trouble

Register(u, e, state) ==
    IF state \in Lists THEN [u EXCEPT ![state] = Append(@, e)] ELSE u

Commit(u) ==
    LET order == u.new \o u.changed \o u.deleted
    IN \E n \in 0 .. Len(order) :
         /\ Persist(order, object', n)
         /\ uow' = IF n = Len(order) THEN NoWork ELSE u

---------------------------------------------------------------------------
(* The requests. *)

Turn(e, op, kind) ==
    /\ e \in DOMAIN script
    /\ step[e] = 0
    /\ script[e].op = op
    /\ Node(e) \in kind
    /\ \A f \in 1 .. e - 1 : Node(f) = Node(e) => step[f] = 7

\* DockbModel.on_changed and set_text.
OnChanged(state) == IF state \in {"sync", "deleted"} THEN "changed"
                    ELSE IF state = "_" THEN "new" ELSE state
SetText(o) == [state |-> OnChanged(o.state), dirty |-> TRUE, words |-> o.words]

\* What a sentence is loaded as; its text is that of its tokens.
Loaded(e) == [state |-> "sync", dirty |-> FALSE, words |-> db[Node(e)]]

\* The request holds its model and goes on to the queue.
Opened(e, o) ==
    /\ object' = [object EXCEPT ![e] = o]
    /\ step' = [step EXCEPT ![e] = 1]
    /\ last' = IF script[e].parented /\ script[e].text # Blank
                 THEN [last EXCEPT ![Node(e)] = e] ELSE last
    /\ UNCHANGED <<script, Queued, control, worker, uow, db, trouble, overtaken, leftover>>

CreateParagraph(e) ==
    /\ Turn(e, "create", Paragraphs)
    /\ Opened(e, [state |-> "new", dirty |-> FALSE, words |-> script[e].text])

CreateSentence(e) ==
    /\ Turn(e, "create", Sentences)
    /\ Opened(e, SetText(NoObject))

UpdateParagraph(e) ==
    /\ Turn(e, "update", Paragraphs)
    /\ db[Node(e)] # Gone
    /\ Opened(e, [state |-> "changed", dirty |-> FALSE, words |-> script[e].text])

UpdateSentence(e) ==
    /\ Turn(e, "update", Sentences)
    /\ db[Node(e)] # Gone
    /\ Opened(e, SetText(Loaded(e)))

\* 404: the node is not in the graph, or not yet, when its create is still in the queue.
Refuse(e) ==
    /\ \E op \in {"update", "delete"} : Turn(e, op, Nodes)
    /\ db[Node(e)] = Gone
    /\ step' = [step EXCEPT ![e] = 7]
    /\ UNCHANGED <<script, object, Queued, control, worker, uow, db, trouble, History>>

\* The CommitJob of an edit has yet to register its model.
Ahead(e) == \/ step[e] \in 1 .. 6
            \/ <<e, "commit">> \in Range(queue)
            \/ worker = [pc |-> "run", job |-> <<e, "commit">>]

\* A delete goes past the queue.
Delete(e) ==
    /\ Turn(e, "delete", Nodes)
    /\ db[Node(e)] # Gone
    /\ object' = [object EXCEPT ![e].state = "deleted"]
    /\ Commit(Register(uow, e, "deleted"))
    /\ step' = [step EXCEPT ![e] = 7]
    /\ last' = [last EXCEPT ![Node(e)] = e]
    /\ overtaken' = IF \/ uow' # NoWork
                       \/ \E f \in 1 .. e - 1 : Node(f) = Node(e) /\ Ahead(f)
                      THEN overtaken \cup {Node(e)} ELSE overtaken
    /\ UNCHANGED <<script, Queued, control, worker, leftover>>

---------------------------------------------------------------------------
(* JobQueue, as its callers see it. *)

KindAt(n) == Kinds[(n + 1) \div 2]

\* Job.cancel: a job that is over keeps its status.
Cancelled(st, j) == IF st[j] \in {"queued", "running"} THEN [st EXCEPT ![j] = "cancelled"] ELSE st

Replaced(n) == IF recon[n] = NoJob THEN status ELSE Cancelled(status, recon[n])

Counted(j) == pending + 1

\* The section of enqueue under the lock; the old ReconstructJob of the model is replaced.
Enqueue(e) ==
    /\ step[e] \in {1, 3, 5}
    /\ LET j == <<e, KindAt(step[e])>>
       IN /\ jobs' = jobs \cup {j}
          /\ pending' = Counted(j)
          /\ IF j[2] = "reconstruct"
               THEN /\ status' = Replaced(Node(e))
                    /\ recon' = [recon EXCEPT ![Node(e)] = j]
               ELSE UNCHANGED <<status, recon>>
    /\ completed' = FALSE
    /\ step' = [step EXCEPT ![e] = @ + 1]
    /\ UNCHANGED <<script, object, queue, control, worker, uow, db, trouble, History>>

\* The rest of enqueue; after the third job the request is answered.
Put(e) ==
    /\ step[e] \in {2, 4, 6}
    /\ queue' = Append(queue, <<e, KindAt(step[e])>>)
    /\ step' = [step EXCEPT ![e] = @ + 1]
    /\ UNCHANGED <<script, object, status, jobs, recon, pending, completed, control, worker,
                   uow, db, trouble, History>>

Start ==
    /\ control = "off"
    /\ control' = "on"
    /\ completed' = FALSE
    /\ worker' = Looping
    /\ UNCHANGED <<script, step, object, status, jobs, recon, queue, pending, uow, db, trouble, History>>

\* shutdown: the event, the thread under the lock, the wait for it, the reset.
SetShutdown ==
    /\ control = "on"
    /\ Trouble
    /\ control' = "set"
    /\ UNCHANGED <<script, step, object, Queued, worker, uow, db, History>>

TakeThread ==
    /\ control = "set"
    /\ control' = "taken"
    /\ UNCHANGED <<script, step, object, Queued, worker, uow, db, trouble, History>>

\* The queue itself is not emptied: its ids are unknown to whoever starts the worker again.
ResetQueue ==
    /\ control = "taken"
    /\ worker.pc \in {"absent", "dead"}
    /\ control' = "off"
    /\ jobs' = {}
    /\ recon' = [n \in Nodes |-> NoJob]
    /\ completed' = FALSE
    /\ pending' = 0
    /\ overtaken' = overtaken \cup {Node(j[1]) : j \in {i \in jobs : i[2] = "commit"}}
    /\ leftover' = (leftover \/ queue # << >> \/ \E e \in Edits : step[e] \in {2, 4, 6})
    /\ UNCHANGED <<script, step, object, status, queue, worker, uow, db, trouble, last>>

---------------------------------------------------------------------------
(* The worker. *)

ShuttingDown == control \in {"set", "taken"}

Exit ==
    /\ worker.pc = "loop"
    /\ ShuttingDown
    /\ worker' = Asleep
    /\ UNCHANGED <<script, step, object, Queued, control, uow, db, trouble, History>>

Counting == pending - 1

\* The next id: a job that is unknown or cancelled is passed over, and stays in _jobs.
Take ==
    /\ worker.pc = "loop"
    /\ ~ShuttingDown
    /\ queue # << >>
    /\ queue' = Tail(queue)
    /\ IF Head(queue) \in jobs /\ status[Head(queue)] # "cancelled"
         THEN /\ status' = [status EXCEPT ![Head(queue)] = "running"]
              /\ worker' = [pc |-> "run", job |-> Head(queue)]
              /\ UNCHANGED pending
         ELSE /\ pending' = Counting
              /\ UNCHANGED <<status, worker>>
    /\ UNCHANGED <<script, step, object, jobs, recon, completed, control, uow, db, trouble, History>>

\* Mutant of Complete: an empty queue is taken for the end of all jobs.
CompleteWhenEmpty == TRUE
Complete == completed \/ pending = 0

\* The queue stayed empty for a second.
Empty ==
    /\ worker.pc = "loop"
    /\ ~ShuttingDown
    /\ queue = << >>
    /\ completed' = Complete
    /\ worker' = [Looping EXCEPT !.pc = "idle"]
    /\ UNCHANGED <<script, step, object, status, jobs, recon, queue, pending, control, uow, db,
                   trouble, History>>

Tokenized(e, o) == [state |-> o.state, dirty |-> FALSE, words |-> script[e].text]

Rebuilt(os) ==
    [e \in Edits |-> IF Reconstructor /\ e \in Range(uow.new) \cup Range(uow.changed) /\ os[e].dirty
                       THEN Tokenized(e, os[e]) ELSE os[e]]

\* Mutant of Flushing: the flush carries out the deletions and drops the rest.
FlushingDeleted == uow.deleted
Flushing == uow.deleted \o uow.new \o uow.changed

\* on_idle, flush_pending: dirty models are reconstructed, deletions go first, the rest is
\* committed.  Nothing catches what it raises: the worker is gone, and start sees its thread.
Flush ==
    /\ worker.pc = "idle"
    /\ object' = Rebuilt(object)
    /\ LET order == Flushing
       IN \E n \in 0 .. Len(order) :
            /\ Persist(order, object', n)
            /\ uow' = IF n = Len(order) THEN NoWork
                      ELSE IF n < Len(uow.deleted) THEN uow ELSE [uow EXCEPT !["deleted"] = << >>]
            /\ worker' = [Looping EXCEPT !.pc = IF n = Len(order) THEN "loop" ELSE "dead"]
    /\ UNCHANGED <<script, step, Queued, control, History>>

\* Every job of the worker runs for five seconds at most, if it can be interrupted at all.
Timeout ==
    /\ worker.pc = "run"
    /\ status[worker.job] = "running"
    /\ Trouble
    /\ status' = Cancelled(status, worker.job)
    /\ UNCHANGED <<script, step, object, jobs, recon, queue, pending, completed, control, worker,
                   uow, db, History>>

Ran(j, outcome) ==
    /\ worker = [pc |-> "run", job |-> j]
    /\ worker' = [worker EXCEPT !.pc = "settle"]
    /\ status' = [status EXCEPT ![j] = IF outcome = "done" /\ @ = "cancelled" THEN @ ELSE outcome]
    /\ UNCHANGED <<script, step, jobs, recon, queue, pending, completed, control, History>>

RunDelete(e) ==
    /\ Ran(<<e, "delete">>, "done")
    /\ object' = IF object[e].dirty THEN [object EXCEPT ![e].words = Blank] ELSE object
    /\ UNCHANGED <<uow, db, trouble>>

\* A cancellation may come before there is a tokenizer, or after its last token.
RunReconstruct(e) ==
    /\ \/ /\ Ran(<<e, "reconstruct">>, "done")
          /\ object' = IF object[e].dirty THEN [object EXCEPT ![e] = Tokenized(e, @)] ELSE object
       \/ /\ object[e].dirty
          /\ status[<<e, "reconstruct">>] = "cancelled"
          /\ Ran(<<e, "reconstruct">>, "cancelled")
          /\ UNCHANGED object
    /\ UNCHANGED <<uow, db, trouble>>

\* Mutant of Tracking: a model that is still dirty is not registered.
TrackingClean(e) == IF object[e].dirty THEN uow ELSE Register(uow, e, object[e].state)
Tracking(e) == Register(uow, e, object[e].state)

\* The models of a job whose commit fails stay in the unit of work.
RunCommit(e) ==
    /\ UNCHANGED object
    /\ IF object[e].dirty
         THEN /\ uow' = Tracking(e)
              /\ UNCHANGED <<db, trouble>>
              /\ Ran(<<e, "commit">>, "done")
         ELSE /\ Commit(Tracking(e))
              /\ Ran(<<e, "commit">>, IF uow' = NoWork THEN "done" ELSE "failed")

\* Mutant of Forgotten: the entry of the model goes whichever job it is of.
ForgottenAnyway(j) == [recon EXCEPT ![Node(j[1])] = NoJob]
Forgotten(j) == IF recon[Node(j[1])] = j THEN [recon EXCEPT ![Node(j[1])] = NoJob] ELSE recon

Settle ==
    /\ worker.pc = "settle"
    /\ pending' = pending - 1
    /\ jobs' = jobs \ {worker.job}
    /\ recon' = IF worker.job \in jobs /\ worker.job[2] = "reconstruct"
                  THEN Forgotten(worker.job) ELSE recon
    /\ worker' = Looping
    /\ UNCHANGED <<script, step, object, status, queue, completed, control, uow, db, trouble, History>>

Work == \/ Exit \/ Take \/ Empty \/ Flush \/ Settle
        \/ \E e \in Edits : RunDelete(e) \/ RunReconstruct(e) \/ RunCommit(e)

Serve(e) == Enqueue(e) \/ Put(e)

Next ==
    \/ \E e \in Edits : \/ CreateParagraph(e) \/ CreateSentence(e) \/ UpdateParagraph(e)
                        \/ UpdateSentence(e) \/ Refuse(e) \/ Delete(e) \/ Serve(e)
    \/ Start \/ SetShutdown \/ TakeThread \/ ResetQueue
    \/ Timeout
    \/ Work

Spec == /\ Init /\ [][Next]_vars
        /\ WF_vars(Work)
        /\ \A e \in Edits : WF_vars(Serve(e))

---------------------------------------------------------------------------
(* Properties. *)

TypeOK ==
    /\ step \in [Edits -> 0 .. 7]
    /\ object \in [Edits -> [state : {"_", "new", "changed", "deleted"}, dirty : BOOLEAN,
                             words : Texts \cup {Blank}]]
    /\ status \in [Jobs -> {"queued", "running", "done", "cancelled", "failed"}]
    /\ jobs \subseteq Jobs
    /\ recon \in [Nodes -> Jobs \cup {NoJob}]
    /\ queue \in Seq(Jobs)
    /\ pending \in Int
    /\ leftover \/ pending >= 0
    /\ completed \in BOOLEAN
    /\ control \in {"off", "on", "set", "taken"}
    /\ worker.pc \in {"absent", "loop", "idle", "run", "settle", "dead"}
    /\ worker.job \in Jobs \cup {NoJob}
    /\ uow \in [Lists -> Seq(Edits)]
    /\ db \in [Nodes -> Texts \cup {Gone, Blank}]
    /\ trouble \in 0 .. MaxTrouble

\* An acknowledged edit is in the graph, or in a job or the unit of work that will still write
\* it: a ReconstructJob that its successor or the timer cancels, a commit that meets a dirty
\* model or a refusal, lose nothing.  Not so for one that a delete or a shutdown overtakes.
NoEditIsForgotten ==
    \A n \in Nodes \ overtaken :
        last[n] # 0 /\ db[n] # Target(last[n]) => Ahead(last[n]) \/ last[n] \in Tracked

\* JobQueue.join: completed is set only when no job waits or runs, whatever has been registered
\* and not yet put in the queue.  A restart over a queue that was not empty spoils the count,
\* which may fall below zero then and only then (TypeOK).
JoinMeansDone ==
    /\ TypeOK
    /\ completed /\ ~leftover => \A j \in jobs : status[j] \notin {"queued", "running"}

\* enqueue: of the ReconstructJobs of one node at most one is still to be carried out.
OneLiveReconstruct ==
    \A n \in Nodes :
        Cardinality({j \in jobs : /\ j[2] = "reconstruct" /\ Node(j[1]) = n
                                  /\ status[j] \in {"queued", "running"}}) <= 1

Halted == control # "on" \/ worker.pc = "dead"

\* While the worker lives, what is acknowledged reaches the graph: the idle flush makes up for
\* the commits that failed (on_idle).  And join returns: the count comes back to zero whether
\* jobs were run or cancelled.
EveryEditIsSaved ==
    /\ \A n \in Nodes :
         TRUE ~> (last[n] = 0 \/ n \in overtaken \/ Halted \/ db[n] = Target(last[n]))
    /\ (~completed) ~> (completed \/ Halted \/ leftover)
=============================================================================
