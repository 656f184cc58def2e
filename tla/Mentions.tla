------------------------------ MODULE Mentions ------------------------------
(***************************************************************************)
(* Which paragraphs mention which characters (services/mentions.py,        *)
(* repositories/mentions_repository.py, cli/mentions.py, and of the search *)
(* in services/mcp_queries.py that it starts an evaluation).               *)
(*                                                                         *)
(* The verdicts are a cache in the graph.  Jobs on daemon threads of the   *)
(* server and the operator's sweep evaluate the paragraphs with no stamp:  *)
(* names first, then the model for the names that two characters share.    *)
(* Every query is an action of its own, the jobs take no lock, and saves   *)
(* go on between them.                                                     *)
(*                                                                         *)
(* One manuscript chapter.  A text is its words, lower case, each with     *)
(* whether it is a proper noun; a word no name has may stand for the end   *)
(* of a sentence.  The parts of a name are sequences of words.  Verdicts   *)
(* are counted up to MaxCopies: a stamp may write the same one twice.      *)
(* No code of src/ calls mark_stale, so state 4 does not occur, and the    *)
(* callers pass no spaCy model, so the NER pass settles nothing.           *)
(***************************************************************************)
EXTENDS Integers, FiniteSets, SequencesExt

CONSTANTS
    Paras,        \* paragraphs of the chapter
    Texts,        \* what a paragraph may say
    Characters,   \* the character chapters
    Identities,   \* the names a character may have
    Books,        \* the texts and the cast at the start
    Jobs,         \* evaluations, each of them run once
    TextEdits,    \* the saves of a paragraph the run considers
    NameEdits,    \* the saves of a character's names it considers, Nobody for a deletion
    MaxEdits,     \* bound on saves and deletions
    Wirings,      \* whether the chapter service has the mentions repository
    NoText, Nobody, NoBasis

MaxCopies == 2

ASSUME EditsAssumption == /\ MaxEdits \in Nat /\ Wirings \subseteq BOOLEAN
                          /\ TextEdits \subseteq Paras \X (Texts \cup {NoText})
                          /\ NameEdits \subseteq Characters \X (Identities \cup {Nobody})
ASSUME BooksAssumption == \A b \in Books : /\ b.text \in [Paras -> Texts \cup {NoText}]
                                           /\ b.cast \in [Characters -> Identities \cup {Nobody}]
ASSUME TextsAssumption == \A t \in Texts : t \in Seq(Range(t))

VARIABLES
    text,      \* the paragraphs, NoText for one that is not in the chapter
    cast,      \* the characters' names, Nobody for a deleted chapter
    checked,   \* whether mentions_checked_at is set
    rels,      \* the MENTIONS of a paragraph, counted by character
    rollup,    \* the MENTIONS of the chapter
    job,       \* the evaluations with their local variables
    edits,     \* saves and deletions so far; a job keeps what it was when it began
    basis,     \* history: the text and the cast a paragraph was last judged by
    overlap    \* history: whether jobs or deletions have met since one started alone

vars == <<text, cast, checked, rels, rollup, job, edits, basis, overlap>>

Alive(names)  == {c \in Characters : names[c] # Nobody}
Mentioned(p)  == {c \in Characters : rels[p][c] > 0}
NoMentions    == [c \in Characters |-> 0]
NoBook        == [text |-> << >>, cast |-> << >>]
Running(j)    == job[j].pc \notin {"new", "done", "killed"}
Quiet         == \A j \in Jobs : ~Running(j)

---------------------------------------------------------------------------
(* Names in a text. *)

\* The surname follows the first name only after the middle names, as in the code.
NameSet(who) == ({who.first, who.surname, who.first \o who.middle \o who.surname}
                  \cup who.nicknames) \ {<< >>}

Owners(entry, names) == {c \in Alive(names) : entry \in NameSet(names[c])}

Run(t, i, n) == [k \in 1 .. n |-> t[i + k - 1].word]

\* The lengths of the names that read from position i, which must be a proper noun.
Fits(t, i, names) ==
    {n \in 1 .. Len(t) - i + 1 : t[i].proper /\ Owners(Run(t, i, n), names) # {}}

\* The scan of the words: the longest run at a position wins and consumes its words.
\* Each character found comes with whether the name was another's too.
AdvanceOne(i, n) == i + 1          \* Mutant of Advance: a defeated shorter name counts again.
Advance(i, n)    == i + n
Scan(t, names) ==
    LET found[i \in 1 .. Len(t) + 1] ==
          IF i > Len(t) THEN {}
          ELSE IF Fits(t, i, names) = {} THEN found[i + 1]
          ELSE LET n   == Max(Fits(t, i, names))
                   who == Owners(Run(t, i, n), names)
               IN (who \X {Cardinality(who) > 1}) \cup found[Advance(i, n)]
    IN found[1]

\* A character with one ambiguous run waits for the model, whatever else names them.
Casts      == [Characters -> Identities \cup {Nobody}]
Judgements == {LET found   == Scan(b.text, b.cast)
                   waiting == {c \in Characters : <<c, TRUE>> \in found}
               IN [of |-> b, waiting |-> waiting,
                   settled |-> {c \in Characters : <<c, FALSE>> \in found} \ waiting] :
                 b \in [text : Texts, cast : Casts]}
Judgement(b) == CHOOSE judged \in Judgements : judged.of = b

---------------------------------------------------------------------------
Idle == [pc |-> "new", tier |-> 0, kind |-> "job", at |-> 0,
         book |-> NoBook, todo |-> {}, answers |-> << >>, mentioned |-> {}]

Init ==
    /\ \E b \in Books : text = b.text /\ cast = b.cast
    /\ checked = [p \in Paras |-> FALSE]
    /\ rels    = [p \in Paras |-> NoMentions]
    /\ rollup  = NoMentions
    /\ job     = [j \in Jobs |-> Idle]
    /\ edits   = 0
    /\ basis   = [p \in Paras |-> NoBasis]
    /\ overlap = FALSE

Graph == <<text, cast, checked, rels, rollup, basis>>

\* A thread of its own, or the sweep's process.
Start(j, kind, pc) ==
    /\ job[j].pc = "new"
    /\ job' = [job EXCEPT ![j] = [Idle EXCEPT !.pc = pc, !.tier = 1, !.kind = kind, !.at = edits']]
    /\ overlap' = ~Quiet

Edited == /\ edits < MaxEdits
          /\ edits' = edits + 1

\* A save of the chapter: the paragraph keeps its node, its stamp and its verdicts, or is new,
\* or goes with them.  Where the service has the repository, an evaluation of the chapter follows.
SaveText(p, t) ==
    /\ Edited
    /\ t # text[p]
    /\ text' = [text EXCEPT ![p] = t]
    /\ IF t = NoText THEN /\ checked' = [checked EXCEPT ![p] = FALSE]
                          /\ rels'    = [rels EXCEPT ![p] = NoMentions]
                          /\ basis'   = [basis EXCEPT ![p] = NoBasis]
                     ELSE UNCHANGED <<checked, rels, basis>>
    /\ \E wired \in Wirings :
         IF wired THEN \E j \in Jobs : Start(j, "job", "load")
                  ELSE overlap' = (overlap \/ t = NoText) /\ UNCHANGED job
    /\ UNCHANGED <<cast, rollup>>

\* A save of a character's names compares the identity with itself and triggers nothing.
SaveNames(c, who) ==
    /\ Edited
    /\ who # Nobody /\ cast[c] \notin {Nobody, who}
    /\ cast' = [cast EXCEPT ![c] = who]
    /\ UNCHANGED <<text, checked, rels, rollup, job, basis, overlap>>

DeleteCharacter(c) ==
    /\ Edited
    /\ cast[c] # Nobody
    /\ cast'   = [cast EXCEPT ![c] = Nobody]
    /\ rels'   = [p \in Paras |-> [rels[p] EXCEPT ![c] = 0]]
    /\ rollup' = [rollup EXCEPT ![c] = 0]
    /\ UNCHANGED <<text, checked, job, basis, overlap>>

\* State 1 of a paragraph; with the stamp it is in state 3, verdicts or not.
Unevaluated(p) == text[p] # NoText /\ ~checked[p]

\* A search by character that meets an unevaluated paragraph starts the document's evaluation.
Search(j) ==
    /\ \E p \in Paras : Unevaluated(p)
    /\ UNCHANGED <<Graph, edits>>
    /\ Start(j, "job", "load")

Sweep(j, full) ==
    /\ UNCHANGED <<Graph, edits>>
    /\ Start(j, "sweep", IF full THEN "reset" ELSE "load")

---------------------------------------------------------------------------
(* An evaluation, query by query. *)

At(j, pc) == job[j].pc = pc

\* sweep --full forgets the verdicts of the paragraphs, not the chapter's.
Reset(j) ==
    /\ At(j, "reset")
    /\ checked' = [p \in Paras |-> FALSE]
    /\ rels'    = [p \in Paras |-> NoMentions]
    /\ basis'   = [p \in Paras |-> NoBasis]
    /\ job'     = [job EXCEPT ![j].pc = "load"]
    /\ UNCHANGED <<text, cast, rollup, edits, overlap>>

\* What follows a tier's last query, or its early return.
Leave(j) ==
    LET next == CASE job[j].tier = 1 -> [pc |-> "load", tier |-> 2]
                  [] job[j].tier = 2 /\ job[j].kind = "job" -> [pc |-> "roll", tier |-> 3]
                  [] OTHER -> [pc |-> "done", tier |-> 0]
    IN [job[j] EXCEPT !.pc = next.pc, !.tier = next.tier, !.book = NoBook, !.todo = {},
                      !.answers = << >>, !.mentioned = {}]

Load(j) ==
    /\ At(j, "load")
    /\ job' = [job EXCEPT ![j] = IF Alive(cast) = {} THEN Leave(j)
                                 ELSE [@ EXCEPT !.pc = "states", !.book = [text |-> text, cast |-> cast]]]
    /\ UNCHANGED <<Graph, edits, overlap>>

Read(j, p)      == [text |-> job[j].book.text[p], cast |-> job[j].book.cast]
WaitingIn(j, p) == Judgement(Read(j, p)).waiting
SettledIn(j, p) == Judgement(Read(j, p)).settled

Candidates(j, todo) == {q \in todo \X Characters : q[2] \in WaitingIn(j, q[1])}

Pending(j)    == {p \in Paras : Unevaluated(p) /\ job[j].book.text[p] # NoText}

\* The second tier needs an API key in the environment and, to ask anything, no --no-ai.
States(j) ==
    /\ At(j, "states")
    /\ \E key, ai \in BOOLEAN :
         LET todo    == Pending(j)
             refused == ~key \/ (~ai /\ Candidates(j, todo) # {})
             goes    == IF job[j].tier = 1 THEN "stamp" ELSE "ask"
         IN /\ ~ai => job[j].kind = "sweep"
            /\ job' = [job EXCEPT ![j] = IF job[j].tier = 2 /\ refused THEN Leave(j)
                                         ELSE [@ EXCEPT !.pc = goes, !.todo = todo]]
    /\ UNCHANGED <<Graph, edits, overlap>>

\* One prompt for all candidates: an answer for each of them, or none where the call fails, times
\* out or returns something else.
Answers == {"yes", "no", "none"}
Ask(j) ==
    /\ At(j, "ask")
    /\ \E answers \in [Candidates(j, job[j].todo) -> Answers] :
         job' = [job EXCEPT ![j].pc = "stamp", ![j].answers = answers]
    /\ UNCHANGED <<Graph, edits, overlap>>

\* Mutant of Unresolved: an answer the model did not give counts as no.
UnresolvedNever(answer) == FALSE
Unresolved(answer)      == answer = "none"

\* The verdicts for a paragraph and whether it is stamped evaluated.
Verdicts(j, p) ==
    IF job[j].tier = 1 THEN SettledIn(j, p)
    ELSE SettledIn(j, p) \cup {c \in WaitingIn(j, p) : job[j].answers[<<p, c>>] = "yes"}
Final(j, p) ==
    IF job[j].tier = 1 THEN WaitingIn(j, p) = {}
    ELSE \A c \in WaitingIn(j, p) : ~Unresolved(job[j].answers[<<p, c>>])

\* The query runs on once per relationship it deleted, so it creates as many of each new one (at
\* least MaxCopies where there were two); with nobody to create one to, no row is left that would
\* set the stamp.
Rows(old) ==
    IF \E c, d \in Characters : old[c] > 0 /\ old[d] > 0 /\ (c # d \/ old[c] > 1) THEN MaxCopies ELSE 1
Replaced(old, new) == [c \in Characters |-> IF c \in new THEN Rows(old) ELSE 0]
Target(names)      == Alive(names)

Stamp(j, p) ==
    LET new == Verdicts(j, p) \cap Target(cast)
    IN /\ At(j, "stamp") /\ p \in job[j].todo
       /\ job' = [job EXCEPT ![j].todo = @ \ {p}]
       /\ IF text[p] = NoText \/ (Verdicts(j, p) = {} /\ ~Final(j, p))
            THEN UNCHANGED <<checked, rels, basis>>
            ELSE /\ rels'    = [rels EXCEPT ![p] = Replaced(@, new)]
                 /\ checked' = [checked EXCEPT ![p] = IF new = {} THEN @ ELSE Final(j, p)]
                 /\ basis'   = [basis EXCEPT ![p] = Read(j, p)]
       /\ UNCHANGED <<text, cast, rollup, edits, overlap>>

\* The characters the evaluated paragraphs name.
ValidOrPartial == {c \in Alive(cast) : \E p \in Paras : c \in Mentioned(p)}  \* Mutant of Valid.
Valid == {c \in Alive(cast) : \E p \in Paras : checked[p] /\ c \in Mentioned(p)}

Roll(j) ==
    /\ At(j, "roll") \/ (At(j, "stamp") /\ job[j].todo = {})
    /\ job' = [job EXCEPT ![j] = [Leave(j) EXCEPT !.pc = "write", !.tier = job[j].tier,
                                                  !.mentioned = Valid]]
    /\ UNCHANGED <<Graph, edits, overlap>>

StampChapter(j) ==
    /\ At(j, "write")
    /\ rollup' = Replaced(rollup, job[j].mentioned \cap Target(cast))
    /\ job'    = [job EXCEPT ![j] = Leave(j)]
    /\ UNCHANGED <<text, cast, checked, rels, edits, basis, overlap>>

\* The server, with its daemon threads, or the sweep is stopped.
Kill(j) ==
    /\ Running(j)
    /\ job' = [job EXCEPT ![j] = [Idle EXCEPT !.pc = "killed"]]
    /\ overlap' = TRUE
    /\ UNCHANGED <<Graph, edits>>

Step(j) == \/ Reset(j) \/ Load(j) \/ States(j) \/ Ask(j) \/ Roll(j) \/ StampChapter(j)
           \/ \E p \in Paras : Stamp(j, p)

Next ==
    \/ \E e \in TextEdits : SaveText(e[1], e[2])
    \/ \E e \in NameEdits : SaveNames(e[1], e[2])
    \/ \E e \in NameEdits : e[2] = Nobody /\ DeleteCharacter(e[1])
    \/ \E j \in Jobs : Search(j) \/ Step(j) \/ Kill(j)
    \/ \E j \in Jobs, full \in BOOLEAN : Sweep(j, full)

Spec == Init /\ [][Next]_vars

---------------------------------------------------------------------------
(* What the scan is for, said without scanning: the winning positions are   *)
(* the ones that no earlier winner's run covers.                            *)

Names(b)   == {i \in 1 .. Len(b.text) : Fits(b.text, i, b.cast) # {}}
Reach(b, i) == Max(Fits(b.text, i, b.cast))
Winners(b) == CHOOSE W \in SUBSET Names(b) :
                \A i \in Names(b) : i \in W <=> \A h \in W : h < i => h + Reach(b, h) <= i
Bearers(b, i) == Owners(Run(b.text, i, Reach(b, i)), b.cast)
Readings  == {[of |-> b, sure |-> UNION {Bearers(b, i) : i \in Winners(b)},
               unsure |-> UNION {Bearers(b, i) : i \in {w \in Winners(b) : Cardinality(Bearers(b, w)) > 1}}] :
                b \in [text : Texts, cast : Casts]}
Reading(b) == CHOOSE r \in Readings : r.of = b
Unsure(b)  == Reading(b).unsure
Sure(b)    == Reading(b).sure \ Unsure(b)

Now(p)   == [text |-> text[p], cast |-> cast]
Plain(p) == text[p] # NoText /\ Sure(Now(p)) # {} /\ Unsure(Now(p)) = {}

\* Type correctness; a verdict or a rollup never names a chapter that is gone, and only
\* paragraphs of the chapter are evaluated (the MATCH of _STAMP_CYPHER and its owner scope).
TypeOK ==
    /\ text \in [Paras -> Texts \cup {NoText}]
    /\ cast \in [Characters -> Identities \cup {Nobody}]
    /\ checked \in [Paras -> BOOLEAN]
    /\ \A p \in Paras : checked[p] => text[p] # NoText
    /\ \A r \in {rels[p] : p \in Paras} \cup {rollup} :
         r \in [Characters -> 0 .. MaxCopies] /\ \A c \in Characters : r[c] > 0 => c \in Alive(cast)
    /\ \A j \in Jobs : job[j].pc \in {"new", "reset", "load", "states", "ask", "stamp", "roll",
                                      "write", "done", "killed"}

\* A paragraph's verdicts are the ones of the text and cast of its last stamp: everyone it names
\* beyond doubt, and nobody but the bearers of its winning runs (the docstring of
\* _judge_paragraph: a defeated shorter match creates no verdict).
VerdictsFollowTheNames ==
    /\ TypeOK
    /\ \A p \in Paras : basis[p] # NoBasis =>
         /\ Sure(basis[p]) \cap Alive(cast) \subseteq Mentioned(p)
         /\ Mentioned(p) \subseteq Sure(basis[p]) \cup Unsure(basis[p])

\* When evaluations have not met, the chapter's own mentions are those of its evaluated
\* paragraphs once the last of them has ended (the docstring of _refresh_rollup); and one that
\* ends before anything is edited has stamped every paragraph whose names leave no doubt, with
\* or without a key.
RollupIsView ==
    Quiet /\ ~overlap =>
      /\ \A c \in Characters : rollup[c] > 0 <=> \E p \in Paras : checked[p] /\ c \in Mentioned(p)
      /\ (\E j \in Jobs : At(j, "done") /\ job[j].at = edits) => \A p \in Paras : Plain(p) => checked[p]

\* A failure of the model is benign: a paragraph is stamped only with an answer of the model for
\* every character its text leaves in doubt, and names such a character only on a yes.
CheckedIsJudged ==
    [][\A p \in Paras : ~checked[p] /\ checked'[p] =>
         \A c \in Unsure(basis'[p]) : \E j \in Jobs :
           /\ <<p, c>> \in DOMAIN job[j].answers
           /\ job[j].answers[<<p, c>>] # "none"
           /\ c \in Mentioned(p)' <=> job[j].answers[<<p, c>>] = "yes" /\ c \in Alive(cast)]_vars
=============================================================================
