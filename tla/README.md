# A TLA+ model of dockb

dockb keeps a manuscript in two homes: a Neo4j knowledge graph (document,
chapters, paragraphs, sentences, tokens) and a tree of markdown files, one
directory per account and document, one file per chapter. The editor sends
whole chapter texts to a Python server; request threads share one process, one
serialized graph session and one unit-of-work factory. Beside
the server an operator works on the same graph and the same trees from the
command line. This directory models the parts where threads, processes, files
and queries meet, checks them with TLC, and proves with TLAPS what the lock, the
unit of work, the chapter's text and order, the documents and their imports, the
job queue, the mentions and the accounts promise.

Paths below are relative to `src/src/dockb/` unless they start with `src/`.

## Inventory

| part | state | operations | what is hard | what makes it correct | module |
|---|---|---|---|---|---|
| Save locks (`services/crud_services.py`, `_save_scope`) | `_save_locks`, `_save_users`, the lock objects | `_save_lock`, `with lock`, `_save_release` | a lock object dropped while somebody waits for it | saves of one chapter serialize, others do not wait, the registry does not grow | `SaveLock`, `ChapterMutex` |
| Unit of work (`infrastructure/neo4j/unit_of_work*.py`, `base.py`) | `_current`, `_new`, `_changed`, `_deleted`, dirty flags | `get_unit_of_work`, `register`, `commit`, `flush_pending`, `_on_committed` | one unit of work for all threads and no lock; a save that fails half way | what is answered is persisted; what is not persisted is not forgotten | `UnitOfWork` |
| Chapter text (`services/crud_services.py`, `services/markdown_import.py`, `infrastructure/document_store/store.py`) | Chapter and Paragraph nodes, the chapter's file | `save_document`, `open_document`, `update`, `move`, `delete` | loads before the lock, calls that take none, two homes written one after the other, crashes | graph and file agree, the last save wins, answers are current | `ChapterFiles` |
| Change detection, rebuild, front matter (`infrastructure/changes/`, `services/markdown_import.py`, `services/chapter_front_matter.py`) | the file's blocks, the chapter's paragraphs, `pov`, properties | `detect_changes`, `apply_chapter_file`, `set_pov`, write-back | identity and order of new, blanked, moved and copied blocks; characters renamed meanwhile | the graph reads like the file; a second save changes nothing | `ChapterRebuild` |
| Chapter order (`services/crud_services.py`, `services/chapter_renumber.py`, `store.py`) | `PART_OF.index`, titles, file names, git index | `create`, `update`, `move`, `delete`, `renumber` | list and write are two queries; two-pass file moves with a rollback; git's index lock | indexes apart, a chapter where it was asked, one file per chapter | `ChapterOrder` |
| Documents, assignment, import (`services/assignment_service.py`, `services/markdown_import.py`, `cli/`) | Document nodes, owners, the trees of all accounts | open, create, update, delete, upload; `assign`, import of a directory | two processes, three homes, no journal | each chapter in one document, no stray tree, no lost file, a whole import | `Documents`, `DirectoryWalk` |
| Job queue, asynchronous commit (`services/semantics/`) | queue, job table, count, events, worker, model objects | `enqueue`, `start`, `shutdown`, `join`, the worker and its jobs | superseded and timed-out jobs, failing commits, restarts over a queue that is not empty | no acknowledged edit is forgotten; `join` returns when all is done | `JobQueue` |
| Mentions (`services/mentions.py`, `repositories/mentions_repository.py`, `cli/mentions.py`) | verdicts and stamps in the graph | evaluate in two tiers, rollup, search, sweep, reset | a model call between read and stamp; evaluations that meet | verdicts are those of the names; nothing is stamped unjudged | `Mentions` |
| Accounts and sessions (`services/auth_service.py`, `infrastructure/accounts/`, `session/`, `oauth/`, `mcp/`) | accounts, links, sessions, throttle counts, pending logins, tokens | sign-in, requests, changes, the admin's commands, mint, verify | two processes' clocks; check and act in separate calls | a credential change ends the sessions before it and no other; backoff; identities keep their account | `Accounts` |
| Document cache (`services/semantics/doc_cache.py`) | cached documents, one lock | get, evict | `evict` takes its own lock twice | - | not modelled |
| History (`services/history_service.py`) | snapshots nobody writes | restore | - | - | not modelled |
| Notifications (`services/session_context.py`) | a list nobody fills | copy and clear | - | - | not modelled |
| Editor front end (`src/frontend/src/renderer/`) | current chapter, dirty text, quit state | save, switch, quit, restore | answers that arrive after a switch | no edit lost on leaving | not modelled |

How they interact: a controller resolves the session (`Accounts`) and calls one
service method per request; a service reads through a repository (a query each),
writes through the unit of work (a query per model) and through the document
store (files, then a git commit). Nothing calls back except the unit of work's
`on_commit` and the queue's `on_idle`. Each query takes the session's lock for
its own length only (`serialized_session.py`), so a query is the atom of
everything about the graph, and a method of the account store, one SQLite
transaction, is the atom of everything about accounts.

## Modules

| module | models | state and actions |
|---|---|---|
| `ChapterMutex` | what a save lock promises | `owner` of each chapter; `Enter`, `Leave` |
| `SaveLock` | the registry of reference-counted locks | the two dictionaries, the holder of every lock object and each thread's locals; `Register` is `_save_lock`, `Acquire`/`Unlock` the `with`, `Release` is `_save_release`. Each dictionary access is under `_save_registry_guard`, hence one action. A garbage lock object may be created again: `Fresh` |
| `UnitOfWork` | the shared unit of work | `current` is `_current`, `tracked` the three lists of each unit of work, `db` the saves applied; `CheckCurrent`, `CreateCurrent`, `FetchCurrent` are the three accesses of `get_unit_of_work`; one action per model registered, validated, rebuilt or saved, and per list cleared. `pos` is the position of Python's live list iterator |
| `ChapterFiles` | one chapter in graph and file, several threads | `graph`, `files`, and a record of locals per request; one action per query, per file move, per git commit and per half of a `write_text` (truncate, write); `tracked` is the files git knows. The lock is `ChapterMutex`, which `SaveLock` implements |
| `ChapterRebuild` | the text of one chapter, one call at a time | the file as a sequence of blocks with ids and a front matter, the graph's paragraphs; a save is read, load, one action per query of the commit, write-back; the file and the characters may change between any two |
| `ChapterOrder` | the chapters of one document | each chapter's title, act, category and index, the files with git's view of them, the models a failed commit leaves registered (`held`); one action per query, commit and git command; `Mv`, `Aside`, `Finish`, `Undo` are the two passes of `renumber_chapters` and its rollback; `gone` is the history of what ends a promise |
| `Documents` | all documents of all accounts | graph and trees, and a record of locals for the server and for the command line; one action per query, commit, file or directory operation and per git commit of a tree; `tracked` is the directories git knows a file of |
| `DirectoryWalk` | which files an import reads, and in which order | pure operators: numerals of acts, chapter numbers, the order and where the walk raises. Where Python's sort meets ties or the file system's order decides, `Walks` is the set of outcomes |
| `JobQueue` | queue, worker, jobs and the edits that use them | the two halves of `enqueue`, the three of `shutdown`, the worker from one id to the next, the three kinds of job, the timer as a `Timeout` of a running job, the idle flush |
| `Mentions` | one chapter's verdicts | texts, cast, verdicts with their stamp, rollup; one action per query of an evaluation, and `Ask` for the model, which says yes, says no or fails, for each character |
| `Accounts` | who may use the server | account rows, links, sessions, throttle, pending logins, tokens, a clock; one action per store call of a sign-in, request or command |
| `ChapterSaveProofs` (of `SaveLock` and `ChapterRebuild`), `UnitOfWorkProofs`, `ChapterFilesProofs`, `JobQueueProofs`, `AccountsProofs`, `MentionsProofs`, `ChapterOrderProofs`, `DocumentsProofs` | theorems | see Proofs |
| `MC...` | instances for TLC | |

The seams between the modules. `ChapterFiles` uses the mutex that `SaveLock` is
shown to implement. Everywhere but in `UnitOfWork` a commit is the sequence of
its saves, or one step, for one request; what sharing a unit of work between
threads does to it is `UnitOfWork`'s subject. A text is the set of its
paragraphs in `ChapterFiles`, which is about who writes when, a sequence of
paragraphs with ids and sentences in `ChapterRebuild`, which is about what is
written, and one value in `ChapterOrder` and `Documents`, which only move it.

Abstractions that matter. A paragraph in the graph of `ChapterFiles` is full,
or a stub that a chapter write re-created from a list naming a paragraph
somebody deleted. A file that is truncated and not yet written is `Blank`: it
has no front matter, so the import takes it for a new chapter, whose title the
database refuses; the refused model stays in the unit of work (`poisoned`) and
every commit fails until a restart. In `Documents` the server and the command
line each do one thing at a time, removing a directory tree is one step, an
editor draws a fresh id for a document, and the flags that override the import's
write-back default are left out; so are the saves and opens of its chapters,
which would commit a directory that git does not track yet. In `JobQueue` no job
outlives the 300 seconds that `shutdown` waits for it, and nothing in the
repository calls `cancel_job`. In `Accounts` names are normalized already, a
password and its hash are one number, refresh tokens are left out, and an e-mail
address that somebody else has is one of the reasons for which the write of a
provider's profile may be refused. No wiring has a reconstructor, so
`UnitOfWork` has no rebuilding of texts in `flush_pending`. `_auto_promote` of
the unit of work is left out: no caller changes the state of a model it has
registered as deleted.

## Runs

Twelve runs, of which ten pass (TLC, two workers, seconds to three minutes each)
and two, the last of the table, must be violated:

| run | instance | shows |
|---|---|---|
| `SaveLock` | 3 threads, 2 chapters, 3 lock objects | saves of one chapter serialize (`MutualExclusion`), a thread waits for its own chapter only (`BlockedByOwnChapter`), the registry is exact (`RegistryExact`), the registry implements `ChapterMutex` (`MutexRefined`), somebody waiting means somebody enters (`SomebodyEnters`) |
| `UnitOfWork` | 3 requests interleaved, one of each kind of list; saves that may be refused, a text nothing tokenizes | while requests come one at a time an unsaved model is in the lists the next one is given (`NothingForgotten`); a unit of work left open means a request pending or failed (`OpenOnlyWhilePending`); a request that overlapped none is persisted when it succeeds, whatever the ones before it did (`AloneAckedPersisted`); every request is answered |
| `ChapterSerial` | 5 requests or hand edits one at a time (save, open, rename, move, delete), 2 crashes between any two steps, a file that git may not track at first | one file, where the chapter belongs, unless git refused its rename (`OneFile`); answers are the current text, never half a write (`AnswersCurrentText`); the next open or save absorbs what a crash or a hand edit left (`Reconciled`) |
| `ChapterRace` | 2 threads, 3 requests: one saves, opens or moves, the other saves, opens, renames or deletes | graph and file end with one text, the last acknowledged or one that raced with it (`LastSaveWins`); no failure leaves the lock taken (`EveryRequestAnswered`) |
| `ChapterRebuild` | files of up to 4 blocks over 2 paragraphs, 2 calls, 2 edits, 1 crash | the graph has the file's words, in order, and known paragraphs keep id and place (`WordsKept`); a second save finds nothing to do (`SettledAfterSave`); the front matter names what the graph holds (`FrontMatterAgrees`) |
| `ChapterOrder` | 2 documents of 3 chapters with a gap, a character and titles that change places; 2 clients, up to 3 calls, 2 git failures | `DistinctIndexes`, `PlacedWhereAsked`, `FilesAgree` after renumbering through each other, and what a rollback leaves at its end (`RollbackRestores`): every file is back or at its new title, or hidden where another chapter of the renumber has its old title |
| `Documents` | 3 libraries, 2 accounts, 3 calls of two processes, 1 crash | no import takes another document's chapter (`OneDocumentEach`), no stray directory where calls did not meet, crash or leave work behind and git refused no rename (`NoStrayTrees`), no text's last file lost but by a delete or beside another call (`FilesKept`), a good import that was alone is whole and in order (`ImportIsWhole`) |
| `JobQueue` | 4 scripts of up to 3 edits of a sentence and a paragraph, one trouble: a timeout, a refusal or a shutdown | an acknowledged edit is in the graph or on its way (`NoEditIsForgotten`) and gets there (`EveryEditIsSaved`, which also has `join` return), `JoinMeansDone`, one live reconstruction per model (`OneLiveReconstruct`) |
| `Mentions` | 2 characters who share a name, 2 paragraphs, 2 evaluations, 1 edit, a kill | verdicts are those of text and names at the stamp (`VerdictsFollowTheNames`), the rollup is a view of them (`RollupIsView`), a stamp means judged (`CheckedIsJudged`) |
| `Accounts` | 7 scripts of 3 clients over 2 names, a clock of 3 ticks, a restart | `SessionsEndByChange`, `BackoffHolds` against parallel guesses, an identity keeps its account unless it is renamed in the middle of a sign-in (`LinkKept`), `TokenReadsItsAccount` |
| `UowLostWrite` | 2 requests interleaved | must be violated: `AckedPersisted`. Two commits share the unit of work; one clears what the other registered behind its loops; both answer success |
| `DocumentsRename` | 2 calls, no crash | must be violated: `RenameMoves`. A document is created and given a new title: git refuses to move a directory in which it tracks nothing, and the graph has the new title already |

The type invariant of a module is a property of its own where the run's list
names `TypeOK` or `LockTypeOK`, and otherwise the first conjunct of one of its invariants.

Why the bounds are enough. Three threads are the fewest with a holder, a waiter
and a newcomer, where a premature eviction shows. The three requests of
`UnitOfWork` cover each list and both ways a request ends; every race over
shared state there is between two threads, the third comes after. Two titles and
two acts give a place to go and a place to come back to; two paragraphs give
texts that share one and lack one; a crash leaves only graph and files, so a
second one already starts from every state a first one leaves. A file may be
tracked by git or not at the start. Five requests let
a delete that failed behind its file's removal be followed by a save in another
place and an open of the first. Four blocks let
two new ones stand together at either end of, or between, two known ones. Three
chapters let a renumber pass one title on to the next while a third is in the
way; titles that change places let a finished file stand where another one has to
go back to. Two git failures let the rollback fail as well. `Documents` starts from the
libraries a user can have - from before accounts, never opened, not imported -
and three calls are an action, its interruption and the retry. Two evaluations
and one edit reach every state in which a verdict is older than what it is
about. The scripts of `Accounts` and `JobQueue` each bring together the calls
that can disturb one another; one timeout, refusal or shutdown leaves every state
that a later attempt has to make up for.

## Where code and words disagree

Two disagreements are runs of their own. The others are states the models reach
and the properties name as exceptions; each is a hazard in `PROJECT.json`, or is
listed here because the model leaves the input out.

*Runs of their own.*
- `UowLostWrite`: one unit of work serves every thread, and the end of one commit
  clears what another thread has registered; both answer success, although the
  docstring says "Strict: validate all entries, then persist" (`unit_of_work.py:51`).
- `DocumentsRename`: the new title of a document is committed to the graph, then
  `git mv` is asked to move the directory (`store.py:337`), which it refuses where
  git tracks nothing in it: after a `create`, or where an import filled the
  directory, until something in it is committed. Graph and tree are parted without
  any race, although "a rename never leaves a stale title-keyed tree behind"
  (`infrastructure/document_store/README.md:144`).

*The unit of work*. Every wiring passes `reconstructor=None` (`composition.py:218`,
`cli/import_document.py:120`) and the sentence service gets no session context
(`composition.py:237`), so nothing tokenizes a text that was set; its save fails,
and so does every later commit, although "Tokenisation happens asynchronously via
the job queue when a session context is available, or synchronously via UoW commit
otherwise" (`crud_services.py:915`). The request is one of the run `UnitOfWork`,
where it always fails.

*One chapter* (`ChapterFiles`, where the history variable `parted` ends the
promises).
- As with documents, git refuses to move the file of a renamed chapter that it
  does not track (`store.py:364`): one that was imported and not opened or saved
  since, or written just before a crash. The graph has the new title, and an open
  under it writes a second file.
- `move` changes the act in the graph and leaves the file in the old act's
  directory (`crud_services.py:609`); a chapter saved and moved back meets the
  old file, and open answers the older text, although "there is never
  stale-client state to reconcile" (`src/README_markdown_redesign.md:74`).
- A save that loaded the title before a rename writes the old title's file, and
  the renamed file keeps the old text: `update`, `move` and `delete` take no
  save lock, although "saves to one chapter serialize under a lock keyed by
  chapter id (last-write-wins within the queue)" (`:142`). In the same way a
  save or an update overtaken by a delete brings the chapter back, as stubs and
  without an index.
- A crash between `write_text`'s truncation and its write leaves a file without
  front matter. The next open takes it for a new chapter of the same title,
  fails, and poisons the unit of work, although open "absorbs any hand edit"
  (`crud_services.py:470`).
- `UNWIND` of an empty list yields no row (`chapter_repository.py:50`, the same
  in `sentence_repository.py:49` and `paragraph_repository.py:31`): an emptied
  chapter, paragraph or sentence keeps its old content in the graph, although
  "the editor is blocked until the knowledge graph is current" (`:72`).

*The text* (`ChapterRebuild`). Known paragraphs that change places in the file
are not detected and keep the graph's order. Of two blocks with one id the last
wins, a blanked one keeps its paragraph, so the canonical text differs from what
was typed. A hand edit between the read and the write-back is overwritten. An
import that only overrides act or category has an empty diff and changes
nothing. A manuscript chapter whose front matter drops all properties gets them
back from the graph. `set_pov` takes no save lock.

*The order* (`ChapterOrder`). A move that listed the chapters before a create
leaves two with one index; a failed renumber has changed the titles in the graph
and not the files; a create in the window between a retitle and the file's move
writes over another chapter's file. The temporary names of a renumber are its
position in the list and the old file name (`store.py:409`), so two renumbers of
one document at once can use the same one; `RollbackRestores` ends where another
call has moved a file in the middle of a renumber. Without any other call a
rollback does not bring every file back either: where one file of the renumber is
at its new title, and that is the old title of another one which is still aside,
the latter stays under its temporary name (`store.py:417`), and nothing tells
the writer so.

*Documents*. A document's update deletes the chapters created since it loaded
the list, and gives a document assigned meanwhile back to the old owner
(`document_repository.py:30`). A crash between the title in the graph and the
directory's rename leaves a directory that a later create of that title takes
over. A crash while a tree is materialized leaves one that lacks chapters, which
no later open completes. `delete` removes the tree first, then the graph. A
retry of an assignment that died is refused because its own copy is there,
against `assignment_service.py:19-23`; an owned document that was never opened
takes an unowned document's flat tree, which is matched by its title
(`assignment_service.py:158`). An assignment beside a delete in the destination
may remove the only copy. Beside a rename or
another assignment, a copy, a removal, a materialization or a write-back writes
over or takes away what the other has put there. An update whose commit failed
stays in the unit of work; the next commit of anybody saves its title, and no
directory is renamed (`unit_of_work.py:66`). An import that died before it wrote
the ids back is refused by the title constraint when it is run again, against the docstring of
`apply_chapter_file`; new chapters get index 0 until the final reorder, so what
a cut-short import leaves is in reverse order; the reorder leaves ties with
chapters it does not list.

*Job queue*. An update without parent relations sends an empty id and silently
writes nothing (`crud_services.py:824`, `:954`). Deleting a sentence or a
paragraph leaves its children behind, against `sentence_repository.py:56`. The
worker that dies in `on_idle` leaves `is_running` true and `start` without
effect (`job_queue.py:126`). `shutdown` leaves the ids in the queue, so a
restart counts below zero (`:95`). Jobs cancelled in the queue never leave the
job table. A delete overtakes a queued edit, whose commit merges the node again.
Nothing acknowledged and not committed survives a crash. `composition.wire`
gives the services neither the queue nor the reconstructor: `JobQueue` is about
the queue as its classes are written, with `Reconstructor` for both ways to
build its factory. Its run has the one under which a refused text can still be
saved, its theorems are of both.

*Mentions*. A stamp that replaces several verdicts writes each new one as many
times. A paragraph with no verdict at all is never stamped, so it is evaluated
again and again (`mentions_repository.py:176`). A stamp of another job that read
earlier can undo a later one; saves never mark a paragraph stale. `name_set`
knows no first name with surname for a character with middle names.

*Accounts*. Two first sign-ins of one identity that both find no link, with a
rename at the provider between their profiles and no e-mail address to clash, make
two accounts, and the upsert moves the link to the second (`accounts/store.py:261`),
although "one provider account is one `users` row"
(`infrastructure/accounts/README.md:87`); `LinkKept` excepts such an identity.
`resolve_session` drops whatever session the name has by then, a
newer one too (`auth_service.py:209`). A stamp is taken before its transaction,
so a sign-in between the two outlives the change (`accounts/store.py:405`). A
session is found by a name that may change at the provider. `begin_login` raises
`KeyError` when another call has dropped an expired state that it is about to drop
(`oauth/pending_login.py:48`).

## Fairness

Weak fairness of each thread's own next step: the operating system schedules a
thread that can run. Nothing makes a request arrive, an edit, a timeout or a
crash happen. A thread waiting for a `threading.Lock` that is only now and then
free has no promise (no strong fairness): `SomebodyEnters` therefore promises
that somebody gets in, and `EveryRequestAnswered` of `ChapterFiles` holds
because requests are bounded. `JobQueue` has weak fairness of the worker and of
each request in its two halves of `enqueue`, none of a start, a shutdown or a
refusal: a worker that has died or was never started is the named exception of
`EveryEditIsSaved`. Deadlock is checked in `SaveLock`; the other runs stop when
every request is answered and every script has been made.

## Proofs

TLAPS checks every step of the eight proof modules. The assumptions on constants
are those the modules name: sentinels are none of the values they stand beside,
sets and functions are of the kind their use needs, bounds are natural numbers.
`TLC` evaluates each of them for its instance. No theorem bounds the number of
threads, requests, crashes, edits or retries.

**The registry of save locks** (`ChapterSaveProofs`), for every finite set of
threads and any chapters and lock objects, from the assumptions that `NoThread`,
`NoChapter` and `NoLock` are none of them. `MutualExclusion` is not inductive:
that two threads do not hold one lock says nothing when a newcomer is given a
different lock object for the same chapter. The invariant `LockInv` therefore
relates all the parts: whoever is in the scope of a chapter refers to the object
the registry holds for it (`SameObject`), a lock is held by the thread in the
body it guards (`HolderInBody`), no object serves two chapters
(`OneChapterPerLock`), and the counts are the numbers of users, zero exactly
when there is no entry (`RegistryExact`). The decisive step is `Release`: the
entry goes when the count says nobody is left, and the count is right. From
`LockInv` follow `MutualExclusion`, `BlockedByOwnChapter` and `RegistryExact`; and
`Refines` shows that every step of the registry is a step of `ChapterMutex` or
a stutter, which is what lets `ChapterFiles` use the mutex.

**The shared unit of work, any interleaving** (`UnitOfWorkProofs`), for any
threads, models, work, kinds and refusals. The assumptions are the types of the
constants and `NoUow` being none of the threads; neither the number of
threads nor the length of a list is bounded. `SuccessCloses` needs only that an
answered thread is done. `AlonePersisted` needs the invariant `Owed`: each model
a thread that is alone has registered is in the database, or the thread still
`Owes` it, that is, it is listed at an entry its save loop has not passed, in a
list that some later loop saves. Registering appends such an entry, a save turns
the entry at `pos` into a row of the database, and the end of a save loop leaves
no entry ahead; `Solitude` says that nobody else can touch the lists meanwhile.

**The unit of work, requests one at a time** (`UnitOfWorkProofs`).
`SerialForgetsNothing` (`NothingForgotten`) is about every model ever registered, by
requests that failed long ago too, so it needs to know what the loops have passed
(`SavedBehind`), that a thread works on the current unit of work (`OnCurrent`)
and that nothing is unsaved when `on_commit` forgets it (`Settled`). While the
lists are cleared all that was ever registered is in the database. This invariant
(`SInv`) holds as long as no two requests have overlapped, which the history
records and never takes back (`OverlapsStay`); afterwards it is false, which
`UowLostWrite` shows.

**The graph and the file of a chapter** (`ChapterFilesProofs`). `Basic` holds of any
interleaving with crashes and hand edits: the types, which steps an operation
can be at, that whoever is in the save scope owns the chapter, and that saves in
flight are on record with each other; `Tracks` is the type of what git tracks.
`Together` adds, until a crash, a move, a rename that git refuses or a call
without the lock parts chapter and file, that every request past its load
works where the chapter is and that a rename, move or delete is alone; so a file
is at the chapter's place or at the one a rename is about to move it from, and
`OneHome` follows for any interleaving. `OneFile` alone is not inductive: it says
nothing while a request is under way, and what the next step writes depends on
the path that request took at its load.
- `TheLastSaveWins` (`LastSaveWins`) is for any threads in any interleaving,
  where only requests write and no saved text is empty. The hypotheses are what
  the code leaves open: a hand edit differs from the graph until the next open
  takes it, a crash leaves half of a write, and the query for an empty text
  deletes nothing. The invariant says of each request what it has in hand
  (`Held`: its file is what it wrote, what it saw is what it is saving, the
  paragraphs not in the graph are those still to do) and of a save that has
  written the chapter that what is in the graph is its text or that of a save
  that overlapped it (`Acked`).
- `ServedAloneIsReconciled` (`Reconciled`) and `AnswersAreCurrent`
  (`AnswersCurrentText`) are for requests one at a time, through crashes, edits,
  failed commits, renames and moves. `Serial` is needed because the answer is
  read from the file after the lock is released. The first needs that no stub is
  ever in the graph and what each step of a save has brought over; the second
  that every file holds a text a reader may expect or half of a write
  (`Readable`), and that without any file the graph does (`Restorable`).

  The attempt to prove the second one showed where it was false beyond the three
  or four requests first checked: a delete removes the file, then its commit
  fails over a model that a half-written file left in the unit of work
  (`crud_services.py:703`). The chapter stays without a file, and the next open
  writes and answers what the graph has, which may be older than what was
  acknowledged. The history variable now counts the graph's text among those to
  expect from there on, the theorem holds, and `ChapterSerial` takes the five
  requests that reach it.

**The text of a chapter** (`ChapterSaveProofs`), for any texts, people and titles,
any natural numbers as ids and any bounds. The assumption beyond types is
`DraftsAssumption`: a chapter the model starts from has distinct ids and no blank
paragraph, as one that came out of a file has. Everything a rebuild does is a
composition of parts of sequences, which are folds: which place an element of a
part has (`NthOf`, `Counted`) and that parts keep the order (`PartIs`) is proved
once, by inductions over the length derived from the well-foundedness of `<`.
- `RebuiltKeeps`: for every file and chapter, the rebuilt paragraphs have distinct
  ids, and those the chapter and the file both have stand in the chapter's order.
- `RebuiltReads`: for an ordinary file they read like the file. New paragraphs are
  inserted one after the other, each before the next known one; `Reads` maps each
  paragraph to the block it stands for, in rising order, and holds after each
  insertion because the place looked for is the one the map asks for.
- `WordsAreKept` (`WordsKept`), `SavesSettle` (`SettledAfterSave`) and
  `FrontMatterFollows` (`FrontMatterAgrees`) rest on `RebuildInv`. A commit writes
  a model at a time, so between load and write-back the graph is neither the old
  chapter nor the rebuilt one. `Underway` says what it is while some writes are to
  come: a rebuilt paragraph is in the graph or is to be added, is as rebuilt or is
  to be changed, and the ids are in order once the chapter is written. New
  paragraphs come before the chapter, whose query otherwise would find nothing to
  link, and sentences before the change that clears their paragraph. With nothing
  to come the graph is what was rebuilt, and building it again changes nothing
  (`SameRebuilt`). An emptied chapter is the exception the first two name: the
  query for an empty list deletes nothing (`chapter_repository.py:50`).

**The job queue** (`JobQueueProofs`), for any scripts, nodes and texts and any
number of timeouts, refusals and shutdowns. `QueueInv` says where each id is:
every id in the queue has its job, is there once, and was not taken; the entry
of a node in the reconstructions is its live one; the count is what waits or
runs. From it `JoinWaitsForAll` and `OneReconstruct`. `NothingForgotten`
(`NoEditIsForgotten`) is about order: the edits of a node pass from the request
to queue, worker and unit of work without overtaking one another (`InOrder`), so
the last is written last, and while an edit that matters is under way the last
one of its node is, too (`Lasting`); hence whatever a newer edit supersedes is
covered by it. What a commit writes is a recursive function over its list. Its
value at a node is found by induction over natural numbers, which is derived for
sets (`SetInduction`) from the well-foundedness of `<`.

**Accounts** (`AccountsProofs`), for any ids, names, identities and scripts and
any finite number of clients; beyond types the assumptions are that there is a
name, an origin and an identity.
- `ToolsReadTheirAccount` (`TokenReadsItsAccount`): the account a tool call reads
  is the one the token was made for, though the check and the lookup are separate
  calls. The invariant (`TokensOK`) says that an entry in memory is a token that
  was minted, and that no two minted tokens share a secret.
- `LinksAreKept` (`LinkKept`), an action property: a step that writes a link writes
  where there is none, or the account the identity has. Two first sign-ins can
  both find no link; what refuses the second one an account of its own is that
  both hold the same name, as long as nobody renames the identity at the provider
  while one of them holds the old one: such identities (`renamed`) are the
  exception. The invariant says that a
  sign-in which has yet to write holds its identity's name and link, or the name
  of the account that another one has linked since (`Faithful` in `BySignIn`), and
  that two which are about to write into one account are one identity's
  (`OwnIds`).
- `GuessesAreThrottled` (`BackoffHolds`), under the hypothesis `MaxAttempts <= Decay`
  (in the code 5 attempts, 1 second of base delay and 900 seconds of memory,
  `login_throttle.py:13`); with a shorter memory the bound is false, for failures
  are forgotten before they have earned a delay. The bound is not inductive: the
  invariant (`ThrottleInv`) also counts the guesses that are past the delay and
  not yet refused, and relates what a name has failed to the entry that is kept
  for it. That a delay is at least one unit needs `2 ^ k > 0`, which the library
  has as the number of subsets of a set of `k`.
- `SessionsFollowCredentials` (`SessionsEndByChange`), an action property. The
  invariant (`SessionInv`) says of a name nobody has raced for that its session has
  the version of its account's row and began after the last change, or has an
  older one and began before it (`Follows`), also of the session a request is
  judging; that a change not yet written has a stamp no earlier than any of these
  sessions; and that a sign-in holds the row as it is, but for an unblocking
  (`Part`). The proof found the property false as it was: a session is found by
  its name, so where a provider's rename gives the name up, its session goes on
  for whoever has the name next. Names that an account was given or gave up are
  now an exception of the property.

**Mentions** (`MentionsProofs`), for any paragraphs, texts, characters, names and
evaluations and any number of edits; the only assumption beyond types is that a
text is a sequence of words. The theorem `JudgedRight` is about the scan alone: for every
text and cast, what `Scan` settles and what it leaves to the model are what the
winning positions say (`Sure`, `Unsure`). The scan is a recursive function from
the last word down, the winners are a choice, so the proof shows that there is
one set of winners from each position on (`WinnersExist`, `WinnersUnique`) and
that the two agree, by inductions over the positions derived from the
well-foundedness of `<` (`ScanFinds`).
- `VerdictsAreOfTheLastText` (`VerdictsFollowTheNames`) holds of any evaluations
  in any interleaving with saves, deletions and kills. Beyond types the
  invariant has what an evaluation holds at each step (`Staged`): the passages it
  read, and an answer for everyone they leave in doubt.
- `NobodyIsNamedOnSilence` (`CheckedIsJudged`), an action property: only a stamp
  sets the mark, and one that does has an answer for everyone in doubt.
- `RollupShowsTheParagraphs` (`RollupIsView`) is about evaluations that have not
  met, each with any edits meanwhile. `Apart` says that one runs at a time, that
  the rollup is the view when the second tier reads and that what the rollup has
  read is who is named when it writes (`Rolled`), and that an evaluation nothing
  was edited under has stamped, or is about to stamp, whatever is plain
  (`Settling`). A step that starts alone needs nothing of what came before, which
  is why a later evaluation repairs what two that met have left.

**The order of chapters** (`ChapterOrderProofs`), for any finite set of chapters,
any clients and scripts, any documents whose titles and indexes are apart, and
any number of failures. What a commit writes and what a renumber picks are folds
over sequences; `SavedIsChain` and `PickedIsChain` unfold each into a chain with
one link per element, from the definition of the fold and an induction over the
set of lengths, and everything about lists is an induction along the links.
- `IndexesStayApart` (`DistinctIndexes`) holds of any interleaving of any number
  of clients. The invariant `IndInv` has what each call may rely on where it is,
  and that a model registered as new has an index; each save of a commit, also
  of models an earlier one left, keeps indexes apart and titles unique
  (`SavedSound`), and a reorder that lists every chapter numbers them anew.
- `RollbackBringsBack` (`RollbackRestores`) is about the end of a rollback,
  whichever git command has failed; one that fails in the rollback itself ends the
  call before that. Whether a file is back is decided by all the steps of the two
  passes before. `PassInv` says of every file, at each step of the passes and of
  the rollback, whether it is hidden, back at its old path or at its new one
  (`Hidden`, `Back`, `Renewed`), and that an old path is only taken by a finished
  file (`Taken`). It rests on no temporary name being a path or another file's
  (`TempsDiffer`), on the old paths being apart, and on no other call having moved
  a file meanwhile, which the history records (`crossed`).
- `ChaptersLandWhereAsked` (`PlacedWhereAsked`), an action property, of any
  interleaving. A list that the indexes determine is the one order in which they
  rise (`SteadyIs` counts the listings, `RankedIsTheList` is the converse), so that
  what `_NEW_CYPHER` and the reorder make of the list is an order that rises again
  (`CreatedPlaced`, `MovedPlaced`). `PlaceInv` says what a call has made of what
  it read: a create has the index after the one it saw, a move the order of the
  list it keeps. That a move which `_crosses_category` let pass splits no block is
  decided by categories read at the list and matters at the reorder, after other
  clients' commits. Nothing changes a category, not even a late update that brings
  a deleted chapter back: that is why `PlaceInv` begins with `\E k`, the category
  of every id from the start, those of new chapters included.
- `FilesStayWithChapters` (`FilesAgree`) is for calls one at a time, of which
  none adopts an act. `FilesAgree` says nothing while a call runs; the invariant
  `Serial` says where each file is then: the file of a retitled chapter at its
  old path until it is moved (`Renaming`), those of a renumber at the old, the
  temporary or the new path (`Between`), each on its way to the path its chapter
  has in the graph. That no `git mv` is refused, that no target is another
  chapter's file and that no rollback begins follow from it. It needs that the id
  of a new chapter is new (`FreshAssumption`): the server takes any id
  (`_NEW_CYPHER` merges), and a second create of one id would leave two files.

**The documents** (`DocumentsProofs`), for any accounts, titles and finite sets
of ids, any directories, from any library a user can have (`LibrariesAssumption`)
and for any number of calls and crashes. What a library can be is the hypothesis
that matters: the database's constraints hold, every directory of an account is
that of a document it has, and the files of one id are copies of one another and
of its chapter.
- `ChaptersStayInOneDocument` (`OneDocumentEach`) holds of any interleaving of the
  two processes. That a chapter has one document is not inductive: a file may
  carry an id whose chapter is gone, and an import that persisted it would put it
  wherever it was read for. The proof gives each id an origin, the document, path
  and text it was first written with, and says that everything that knows an id
  agrees with it (`Good`): nodes, files, the writes the unit of work holds, and
  what a call has read. Only the draw of a new id extends the origins, so one stays
  good (`Documented`).
- `NoTextIsLost` (`FilesKept`), an action property, through any crash. `LoneInv`
  says what a call that is alone knows: an assignment about to remove the source
  has a copy of each of its files, one that is copying has those it has passed,
  and a materialization or a write-back puts a file where there is none, or the
  same text.
- `NoDirectoryIsLeftBehind` (`NoStrayTrees`). While calls have not met and git has
  refused no rename (`DocumentsRename` shows why that is said), `SerialInv`
  says which directory may be without a document, or under its old title, at each
  step of the call under way (`Strays`), and that no other document has the title
  it is about to take.
- `ImportsAreWhole` (`ImportIsWhole`), an action property, for imports that met no
  other call, also after ones that were cut short. `ImportInv` says what the import
  has so far: the document is its owner's and the chapters known are in it
  (`Rooted`), the files are those of the walk of the directory (`AsWalked`), each
  file passed has its chapter in the document, with its text and no other file's
  (`Stands`, `Applied`), and the file at hand is one of these or about to be. The
  reorder then numbers the chapters as the files stand in the list, because no id
  is there twice.

`LoneInv`, `SerialInv` and `ImportInv` speak about the graph and the trees at the
same time, and each rests on `Good`. The attempts to prove the last three showed
where they were false beyond what had been checked. A commit of the server that
fails keeps its update; a later commit saves the new title, and no rename follows.
A write-back, a copy and a materialization write over, and a removal takes away,
what a rename or a copy beside it has put in the place they know. An import whose
commit saves what an earlier one left, and one that meets a chapter which a stale
list of ids brought back without its text, answer success and are not whole. Each
is now an exception that the property names, and the theorems hold.

Model-checked only:
- Liveness (`SomebodyEnters`, `EveryRequestAnswered`, `EveryEditIsSaved`): it
  needs ENABLED, which the prover does not have.

No module uses a RECURSIVE operator, so none is closed to proofs.

## Not modelled

Not modelled: the document cache (nothing in the repository starts one; that its
`evict` waits for the lock it holds, `doc_cache.py:81`, needs no model),
`HistoryService` (it restores snapshots, and `SnapshotWriter` has no caller),
notifications (`add_notification` has no caller), the AI chat (an outside
service), the editor front end (the models take every order of requests an
editor could send, this one sends fewer), and what only translates: the JSON of
controllers, YAML, the conversion of tokens. Of modelled parts, these are left
out: `_auto_promote`, the rebuilding loops of `flush_pending` in `UnitOfWork`,
`cancel_job`, a shutdown whose wait times out, a `start` that runs while a
shutdown does, what a search for a character answers (it only reads), the
migrations of the account store, the names of uploaded files, authors of
documents, and moving a child between parents, which nothing does.

Every safety and action property of the passing runs, and the refinement of
`ChapterMutex`, is a theorem; the hypotheses that a theorem adds to the
specification are those named above.
