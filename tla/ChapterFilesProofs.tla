------------------------- MODULE ChapterFilesProofs -------------------------
(***************************************************************************)
(* Proofs about the text of a chapter, in the graph and in its file, for   *)
(* every set of threads, titles, acts and paragraphs and every bound on    *)
(* requests and crashes.                                                   *)
(*                                                                         *)
(* Basic holds of every interleaving, with crashes and edits: the types,   *)
(* what each operation can be at (Sane), who is inside the save scope      *)
(* (Scope), and that the saves in flight are on record (Raced).            *)
(* Together adds where the file is, until chapter and file are parted: a   *)
(* rename, move or delete is served alone, and a request past its load is  *)
(* at the chapter's place.  It gives OneFile.                              *)
(*                                                                         *)
(* Three more invariants say what is in the file and in the graph.  Last   *)
(* is about any interleaving where nothing but requests write, and gives   *)
(* LastSaveWins.  AbsorbInv and Current are about requests served one at a *)
(* time, with crashes and edits, and give Reconciled and                   *)
(* AnswersCurrentText; the answer is read after the lock is released, so   *)
(* neither holds of interleaved requests.                                  *)
(*                                                                         *)
(* Each step of a request has a lemma that says what it does (the section  *)
(* before Last); a frame lemma says what is left to show of a step, and    *)
(* one case per step shows it.                                             *)
(***************************************************************************)
EXTENDS ChapterFiles, TLAPS

\* What the variables range over.
Operations == {"save", "open", "rename", "move", "delete"}
Arguments  == Texts \cup Titles \cup Acts \cup {NoText}
Contents   == (SUBSET Paras) \cup {NoFile, Blank}
Bodies     == [Paras -> {"absent", "stub", "full"}]
GraphRecord == [live : BOOLEAN, title : Titles, act : Acts, body : Bodies]

ReqRecord ==
    [op : Operations, arg : Arguments, ch : ChapterRecord, path : Places,
     fd : Places \cup {NoFile}, text : (SUBSET Paras) \cup {Blank},
     seen : (SUBSET Paras) \cup {Blank},
     fresh : ChapterRecord, todo : SUBSET Paras, at : Steps, ok : BOOLEAN,
     answer : (SUBSET Paras) \cup {NoText, Blank}]

\* What an argument is for, and the steps each operation takes.
Sane(r) ==
    /\ r.at \in {"enter", "locked", "read", "diff", "paragraphs", "back", "back_write", "leave"}
         => r.op \in {"save", "open"}
    /\ r.at \in {"truncate", "write"} => r.op \in {"save", "open", "rename"}
    /\ r.at \in {"retitle", "rename_file", "snapshot"} => r.op = "rename"
    /\ r.at = "adopt" => r.op = "move"
    /\ r.at \in {"remove_file", "drop"} => r.op = "delete"
    /\ r.at \in {"paragraphs", "back", "back_write"} => r.seen # Blank
    /\ r.op = "save" => r.arg \in Texts
    /\ r.op = "rename" => r.arg \in Titles
    /\ r.op = "move" => r.arg \in Acts

Typed ==
    /\ graph \in GraphRecord
    /\ files \in [Places -> Contents]
    /\ poisoned \in BOOLEAN
    /\ owner \in [{chapterId} -> Threads \cup {NoThread}]
    /\ req \in [Threads -> ReqRecord]
    /\ requests \in 0 .. MaxRequests
    /\ crashes \in 0 .. MaxCrashes
    /\ parted \in BOOLEAN
    /\ allowed \subseteq SUBSET Paras
    /\ overlap \in [Threads -> SUBSET SUBSET Paras]

Tracks == tracked \subseteq Places

\* The parts of a request that a step of it leaves as they are.
Only(t, K) ==
    /\ "op" \in K \/ req'[t].op = req[t].op
    /\ "arg" \in K \/ req'[t].arg = req[t].arg
    /\ "ch" \in K \/ req'[t].ch = req[t].ch
    /\ "path" \in K \/ req'[t].path = req[t].path
    /\ "fd" \in K \/ req'[t].fd = req[t].fd
    /\ "text" \in K \/ req'[t].text = req[t].text
    /\ "seen" \in K \/ req'[t].seen = req[t].seen
    /\ "fresh" \in K \/ req'[t].fresh = req[t].fresh
    /\ "todo" \in K \/ req'[t].todo = req[t].todo
    /\ "at" \in K \/ req'[t].at = req[t].at
    /\ "ok" \in K \/ req'[t].ok = req[t].ok
    /\ "answer" \in K \/ req'[t].answer = req[t].answer

Others(t) == \A u \in Threads \ {t} : req'[u] = req[u]

\* Moving a request to another step changes its place and nothing else.
LEMMA GotoType ==
    ASSUME req \in [Threads -> ReqRecord], NEW t \in Threads, NEW s \in Steps,
           req' = [req EXCEPT ![t].at = s]
    PROVE  /\ req' \in [Threads -> ReqRecord]
           /\ req'[t].at = s /\ Only(t, {"at"}) /\ Others(t)
<1>1. req' \in [Threads -> ReqRecord]
  BY DEF ReqRecord
<1>2. req'[t].at = s /\ Only(t, {"at"}) /\ Others(t)
  BY DEF ReqRecord, Only, Others
<1> QED
  BY <1>1, <1>2

\* A request that fails is marked and moved, and not changed otherwise.
LEMMA FailType ==
    ASSUME req \in [Threads -> ReqRecord], NEW t \in Threads, NEW s \in Steps,
           req' = [req EXCEPT ![t].ok = FALSE, ![t].at = s]
    PROVE  /\ req' \in [Threads -> ReqRecord]
           /\ req'[t].at = s /\ req'[t].ok = FALSE /\ Only(t, {"at", "ok"}) /\ Others(t)
<1> DEFINE r1 == [req[t] EXCEPT !.ok = FALSE]
           r2 == [r1 EXCEPT !.at = s]
<1>0. req' = [req EXCEPT ![t] = r2]
  BY DEF ReqRecord
<1>3. r1 \in ReqRecord
  BY DEF ReqRecord
<1> HIDE DEF r1
<1>4. r2 \in ReqRecord
  BY <1>3 DEF ReqRecord
<1> HIDE DEF r2
<1>1. req' \in [Threads -> ReqRecord]
  BY <1>0, <1>4
<1>2. req'[t].at = s /\ req'[t].ok = FALSE /\ Only(t, {"at", "ok"}) /\ Others(t)
  BY DEF ReqRecord, Only, Others
<1> QED
  BY <1>1, <1>2

\* A request that opens its file has the file's descriptor, and is not changed otherwise.
LEMMA OpenType ==
    ASSUME req \in [Threads -> ReqRecord], NEW t \in Threads, NEW s \in Steps,
           req' = [req EXCEPT ![t].fd = req[t].path, ![t].at = s]
    PROVE  /\ req' \in [Threads -> ReqRecord]
           /\ req'[t].at = s /\ req'[t].fd = req[t].path /\ Only(t, {"at", "fd"}) /\ Others(t)
<1> DEFINE r1 == [req[t] EXCEPT !.fd = req[t].path]
           r2 == [r1 EXCEPT !.at = s]
<1>0. req' = [req EXCEPT ![t] = r2]
  BY DEF ReqRecord
<1>3. r1 \in ReqRecord
  BY DEF ReqRecord
<1> HIDE DEF r1
<1>4. r2 \in ReqRecord
  BY <1>3 DEF ReqRecord
<1> HIDE DEF r2
<1>1. req' \in [Threads -> ReqRecord]
  BY <1>0, <1>4
<1>2. req'[t].at = s /\ req'[t].fd = req[t].path /\ Only(t, {"at", "fd"}) /\ Others(t)
  BY DEF ReqRecord, Only, Others
<1> QED
  BY <1>1, <1>2

\* A request that has read its file keeps the text as seen.
LEMMA SeenType ==
    ASSUME req \in [Threads -> ReqRecord], NEW t \in Threads, NEW s \in Steps,
           NEW x \in (SUBSET Paras) \cup {Blank},
           req' = [req EXCEPT ![t].seen = x, ![t].at = s]
    PROVE  /\ req' \in [Threads -> ReqRecord]
           /\ req'[t].at = s /\ req'[t].seen = x /\ Only(t, {"at", "seen"}) /\ Others(t)
<1> DEFINE r1 == [req[t] EXCEPT !.seen = x]
           r2 == [r1 EXCEPT !.at = s]
<1>0. req' = [req EXCEPT ![t] = r2]
  BY DEF ReqRecord
<1>3. r1 \in ReqRecord
  BY DEF ReqRecord
<1> HIDE DEF r1
<1>4. r2 \in ReqRecord
  BY <1>3 DEF ReqRecord
<1> HIDE DEF r2
<1>1. req' \in [Threads -> ReqRecord]
  BY <1>0, <1>4
<1>2. req'[t].at = s /\ req'[t].seen = x /\ Only(t, {"at", "seen"}) /\ Others(t)
  BY DEF ReqRecord, Only, Others
<1> QED
  BY <1>1, <1>2

\* A request that has saved a paragraph has one less to save.
LEMMA TodoType ==
    ASSUME req \in [Threads -> ReqRecord], NEW t \in Threads, NEW x \in SUBSET Paras,
           req' = [req EXCEPT ![t].todo = x]
    PROVE  /\ req' \in [Threads -> ReqRecord]
           /\ req'[t].todo = x /\ Only(t, {"todo"}) /\ Others(t)
<1>1. req' \in [Threads -> ReqRecord]
  BY DEF ReqRecord
<1>2. req'[t].todo = x /\ Only(t, {"todo"}) /\ Others(t)
  BY DEF ReqRecord, Only, Others
<1> QED
  BY <1>1, <1>2

\* A request that loads the chapter under the lock keeps it as fresh, with what is to save.
LEMMA FreshType ==
    ASSUME req \in [Threads -> ReqRecord], NEW t \in Threads, NEW s \in Steps,
           NEW c \in ChapterRecord, NEW x \in SUBSET Paras,
           req' = [req EXCEPT ![t].fresh = c, ![t].todo = x, ![t].at = s]
    PROVE  /\ req' \in [Threads -> ReqRecord]
           /\ req'[t].at = s /\ req'[t].fresh = c /\ req'[t].todo = x
           /\ Only(t, {"at", "fresh", "todo"}) /\ Others(t)
<1>1. req'[t].at = s /\ req'[t].fresh = c /\ req'[t].todo = x
      /\ Only(t, {"at", "fresh", "todo"}) /\ Others(t)
  BY DEF ReqRecord, Only, Others
<1> DEFINE r1 == [req[t] EXCEPT !.fresh = c]
           r2 == [r1 EXCEPT !.todo = x]
           r3 == [r2 EXCEPT !.at = s]
<1>2. req' = [req EXCEPT ![t] = r3]
  BY DEF ReqRecord
<1>3. r1 \in ReqRecord
  BY DEF ReqRecord
<1> HIDE DEF r1
<1>4. r2 \in ReqRecord
  BY <1>3 DEF ReqRecord
<1> HIDE DEF r2
<1>5. r3 \in ReqRecord
  BY <1>4 DEF ReqRecord
<1> HIDE DEF r3
<1> QED
  BY <1>1, <1>2, <1>5

\* A request that loads the chapter keeps it with its path and a text to write.
LEMMA LoadType ==
    ASSUME req \in [Threads -> ReqRecord], NEW t \in Threads, NEW s \in Steps,
           NEW c \in ChapterRecord, NEW x \in SUBSET Paras, NEW q \in Places,
           req' = [req EXCEPT ![t].ch = c, ![t].text = x, ![t].path = q, ![t].at = s]
    PROVE  /\ req' \in [Threads -> ReqRecord]
           /\ req'[t].at = s /\ req'[t].ch = c /\ req'[t].text = x /\ req'[t].path = q
           /\ Only(t, {"at", "ch", "text", "path"}) /\ Others(t)
<1>1. req'[t].at = s /\ req'[t].ch = c /\ req'[t].text = x /\ req'[t].path = q
      /\ Only(t, {"at", "ch", "text", "path"}) /\ Others(t)
  BY DEF ReqRecord, Only, Others
<1> DEFINE r1 == [req[t] EXCEPT !.ch = c]
           r2 == [r1 EXCEPT !.text = x]
           r3 == [r2 EXCEPT !.path = q]
           r4 == [r3 EXCEPT !.at = s]
<1>2. req' = [req EXCEPT ![t] = r4]
  <2>1. req' = [req EXCEPT ![t] = [req[t] EXCEPT !.ch = c, !.text = x, !.path = q, !.at = s]]
    BY DEF ReqRecord
  <2> QED
    BY <2>1
<1>3. r1 \in ReqRecord
  BY DEF ReqRecord
<1> HIDE DEF r1
<1>4. r2 \in ReqRecord
  BY <1>3 DEF ReqRecord
<1> HIDE DEF r2
<1>5. r3 \in ReqRecord
  BY <1>4 DEF ReqRecord
<1> HIDE DEF r3
<1>6. r4 \in ReqRecord
  BY <1>5 DEF ReqRecord
<1> HIDE DEF r4
<1>7. req' \in [Threads -> ReqRecord]
  BY <1>2, <1>6
<1> QED
  BY <1>1, <1>7

\* A file that is moved or removed takes the open descriptors with it, and no
\* request is changed otherwise.
LEMMA ReopenType ==
    ASSUME req \in [Threads -> ReqRecord], NEW t \in Threads,
           NEW old \in Places, NEW new \in Places \cup {NoFile}
    PROVE  /\ Reopened(old, new) \in [Threads -> ReqRecord]
           /\ \A u \in Threads :
                LET r == Reopened(old, new)[u] IN
                /\ r.fd = IF req[u].fd = old THEN new ELSE req[u].fd
                /\ r.op = req[u].op /\ r.arg = req[u].arg /\ r.ch = req[u].ch
                /\ r.path = req[u].path /\ r.text = req[u].text /\ r.seen = req[u].seen
                /\ r.fresh = req[u].fresh /\ r.todo = req[u].todo /\ r.at = req[u].at
                /\ r.ok = req[u].ok /\ r.answer = req[u].answer
<1>1. Reopened(old, new) \in [Threads -> ReqRecord]
  BY DEF Reopened, ReqRecord
<1> SUFFICES ASSUME NEW u \in Threads
             PROVE  LET r == Reopened(old, new)[u] IN
                /\ r.fd = IF req[u].fd = old THEN new ELSE req[u].fd
                /\ r.op = req[u].op /\ r.arg = req[u].arg /\ r.ch = req[u].ch
                /\ r.path = req[u].path /\ r.text = req[u].text /\ r.seen = req[u].seen
                /\ r.fresh = req[u].fresh /\ r.todo = req[u].todo /\ r.at = req[u].at
                /\ r.ok = req[u].ok /\ r.answer = req[u].answer
  BY <1>1
<1>2. Reopened(old, new)[u] = IF req[u].fd = old THEN [req[u] EXCEPT !.fd = new] ELSE req[u]
  BY DEF Reopened
<1>3. CASE req[u].fd = old
  BY <1>2, <1>3 DEF ReqRecord
<1>4. CASE req[u].fd # old
  BY <1>2, <1>4
<1> QED
  BY <1>3, <1>4

\* The values a thread without a request has.
LEMMA IdleType ==
    /\ NoChapter \in ChapterRecord
    /\ IdleReq \in ReqRecord
<1>1. NoChapter.title \in Titles /\ NoChapter.act \in Acts
  BY PlaceAssumption DEF NoChapter
<1>2. NoChapter \in ChapterRecord
  BY <1>1 DEF NoChapter, ChapterRecord
<1>3. <<NoChapter.act, NoChapter.title>> \in Places
  BY <1>1 DEF Places
<1> HIDE DEF NoChapter
<1>4. PICK c \in ChapterRecord, q \in Places :
        c = NoChapter /\ q = <<NoChapter.act, NoChapter.title>>
  BY <1>2, <1>3
<1>5. IdleReq = [op |-> "open", arg |-> NoText, ch |-> c, path |-> q, fd |-> NoFile,
                 text |-> {}, seen |-> {}, fresh |-> c, todo |-> {}, at |-> "idle",
                 ok |-> TRUE, answer |-> NoText]
  BY <1>4 DEF IdleReq
<1>6. /\ "open" \in Operations /\ NoText \in Arguments /\ NoFile \in Places \cup {NoFile}
      /\ {} \in (SUBSET Paras) \cup {Blank} /\ {} \in SUBSET Paras /\ "idle" \in Steps
      /\ TRUE \in BOOLEAN /\ NoText \in (SUBSET Paras) \cup {NoText, Blank}
  BY DEF Operations, Arguments, Steps
<1>7. IdleReq \in ReqRecord
  BY <1>5, <1>6 DEF ReqRecord
<1> QED
  BY <1>2, <1>7

\* A new request has its operation and argument and is about to load.
LEMMA BeginEffect ==
    ASSUME Typed, NEW t \in Threads, NEW op \in Operations, NEW arg \in Arguments,
           Begin(t, op, arg)
    PROVE  /\ req' \in [Threads -> ReqRecord]
           /\ req'[t].op = op /\ req'[t].arg = arg /\ req'[t].at = "load"
           /\ req'[t].ok = TRUE
           /\ Others(t)
<1>1. PICK i \in ReqRecord : i = IdleReq
  BY IdleType
<1>2. i.ok = TRUE
  BY <1>1 DEF IdleReq
<1> DEFINE r1 == [i EXCEPT !.op = op]
           r2 == [r1 EXCEPT !.arg = arg]
           r3 == [r2 EXCEPT !.at = "load"]
<1>3. req' = [req EXCEPT ![t] = r3]
  BY <1>1 DEF Begin
<1>4. r1 \in ReqRecord /\ r1.op = op /\ r1.ok = TRUE
  BY <1>2 DEF ReqRecord
<1> HIDE DEF r1
<1>5. r2 \in ReqRecord /\ r2.op = op /\ r2.arg = arg /\ r2.ok = TRUE
  BY <1>4 DEF ReqRecord
<1> HIDE DEF r2
<1>6. r3 \in ReqRecord /\ r3.op = op /\ r3.arg = arg /\ r3.at = "load" /\ r3.ok = TRUE
  BY <1>5 DEF ReqRecord, Steps
<1> HIDE DEF r3
<1>7. req \in [Threads -> ReqRecord]
  BY DEF Typed
<1>8. req' \in [Threads -> ReqRecord] /\ req'[t] = r3
  BY <1>3, <1>6, <1>7
<1>9. Others(t)
  BY <1>3, <1>7 DEF Others
<1> QED
  BY <1>6, <1>8, <1>9

\* Every request is a beginning with an operation and an argument of its kind.
LEMMA RequestEffect ==
    ASSUME Typed, NEW t \in Threads, Request(t)
    PROVE  \E op \in Operations, arg \in Arguments :
             /\ Begin(t, op, arg)
             /\ op = "save" => arg \in Texts
             /\ op = "rename" => arg \in Titles
             /\ op = "move" => arg \in Acts
  BY DEF Request, Operations, Arguments

\* A load takes over the chapter, or fails where it is gone.
LEMMA LoadEffect ==
    ASSUME Typed, NEW t \in Threads, Sane(req[t]), Load(t)
    PROVE  /\ req' \in [Threads -> ReqRecord]
           /\ Others(t)
           /\ \/ /\ graph.live
                 /\ req'[t].ch = [title |-> graph.title, act |-> graph.act,
                                  paras |-> Listed(graph.body)]
                 /\ req'[t].text = (IF req[t].op = "save" THEN req[t].arg ELSE Full(graph.body))
                 /\ req'[t].path = Here
                 /\ req'[t].at = FirstStep(req[t].op)
                 /\ Only(t, {"at", "ch", "text", "path"})
              \/ /\ ~graph.live
                 /\ req'[t].at = "answer" /\ req'[t].ok = FALSE
                 /\ Only(t, {"at", "ok"})
<1>1. req \in [Threads -> ReqRecord] /\ graph \in GraphRecord
  BY DEF Typed
<1>2. CASE graph.live
  <2>1. [title |-> graph.title, act |-> graph.act, paras |-> Listed(graph.body)] \in ChapterRecord
    BY <1>1 DEF GraphRecord, ChapterRecord, Listed
  <2>2. Here \in Places
    BY <1>1 DEF GraphRecord, Places, Here
  <2>3. (IF req[t].op = "save" THEN req[t].arg ELSE Full(graph.body)) \in SUBSET Paras
    BY TextsAssumption DEF Sane, Full
  <2>4. req[t].op \in Operations
    BY <1>1 DEF ReqRecord
  <2>5. FirstStep(req[t].op) \in Steps
    BY <2>4 DEF FirstStep, Steps, Operations
  <2>6. PICK c \in ChapterRecord, q \in Places, x \in SUBSET Paras, s \in Steps :
          /\ c = [title |-> graph.title, act |-> graph.act, paras |-> Listed(graph.body)]
          /\ q = Here /\ s = FirstStep(req[t].op)
          /\ x = (IF req[t].op = "save" THEN req[t].arg ELSE Full(graph.body))
    BY <2>1, <2>2, <2>3, <2>5
  <2>7. req' = [req EXCEPT ![t].ch = c, ![t].text = x, ![t].path = q, ![t].at = s]
    BY <1>2, <2>6 DEF Load, Here
  <2>8. /\ req' \in [Threads -> ReqRecord]
        /\ req'[t].at = s /\ req'[t].ch = c /\ req'[t].text = x /\ req'[t].path = q
        /\ Only(t, {"at", "ch", "text", "path"}) /\ Others(t)
    BY <1>1, <2>7, LoadType
  <2> QED
    BY <1>2, <2>6, <2>8
<1>3. CASE ~graph.live
  <2>1. req' = [req EXCEPT ![t].ok = FALSE, ![t].at = "answer"] /\ "answer" \in Steps
    BY <1>3 DEF Load, Steps
  <2> QED
    BY <1>1, <1>3, <2>1, FailType
<1> QED
  BY <1>2, <1>3

\* GotoType, for a typed state and the model's Goto.
LEMMA GotoEffect ==
    ASSUME Typed, NEW t \in Threads, NEW s \in Steps, Goto(t, s)
    PROVE  /\ req' \in [Threads -> ReqRecord]
           /\ req'[t].at = s /\ Only(t, {"at"}) /\ Others(t)
  BY GotoType DEF Goto, Typed

\* FailType, for a typed state.
LEMMA RaiseEffect ==
    ASSUME Typed, NEW t \in Threads, NEW s \in Steps,
           req' = [req EXCEPT ![t].ok = FALSE, ![t].at = s]
    PROVE  /\ req' \in [Threads -> ReqRecord]
           /\ req'[t].at = s /\ req'[t].ok = FALSE /\ Only(t, {"at", "ok"}) /\ Others(t)
  BY FailType DEF Typed

\* A read takes the file's text, or fails where there is no file.
LEMMA ReadEffect ==
    ASSUME Typed, NEW t \in Threads, Read(t)
    PROVE  /\ req' \in [Threads -> ReqRecord]
           /\ Others(t)
           /\ \/ /\ files[req[t].path] # NoFile
                 /\ req'[t].seen = files[req[t].path] /\ req'[t].at = "diff"
                 /\ Only(t, {"at", "seen"})
              \/ /\ files[req[t].path] = NoFile
                 /\ req'[t].at = "leave" /\ req'[t].ok = FALSE
                 /\ Only(t, {"at", "ok"})
<1>1. "diff" \in Steps /\ "leave" \in Steps /\ req \in [Threads -> ReqRecord]
      /\ req[t].path \in Places /\ files \in [Places -> Contents]
  BY DEF Steps, Typed, ReqRecord
<1>2. CASE files[req[t].path] = NoFile
  <2>1. req' = [req EXCEPT ![t].ok = FALSE, ![t].at = "leave"]
    BY <1>2 DEF Read, Raises
  <2> QED
    BY <1>1, <1>2, <2>1, FailType
<1>3. CASE files[req[t].path] # NoFile
  <2>1. PICK x \in (SUBSET Paras) \cup {Blank} : x = files[req[t].path]
    BY <1>1, <1>3 DEF Contents
  <2>2. req' = [req EXCEPT ![t].seen = x, ![t].at = "diff"]
    BY <1>3, <2>1 DEF Read
  <2>3. /\ req' \in [Threads -> ReqRecord] /\ Others(t)
        /\ req'[t].seen = x /\ req'[t].at = "diff" /\ Only(t, {"at", "seen"})
    BY <1>1, <2>2, SeenType
  <2> QED
    BY <1>3, <2>1, <2>3
<1> QED
  BY <1>2, <1>3

\* The diff loads the chapter and lists the paragraphs the graph has not in full.
LEMMA DiffEffect ==
    ASSUME Typed, NEW t \in Threads, Diff(t)
    PROVE  /\ req' \in [Threads -> ReqRecord]
           /\ Others(t)
           /\ req'[t].fresh.title = graph.title /\ req'[t].fresh.act = graph.act
           /\ req'[t].todo = req[t].seen \ Full(graph.body)
           /\ req'[t].at = IF SameText(graph.body, req[t].seen) THEN "leave" ELSE "paragraphs"
           /\ Only(t, {"at", "fresh", "todo"})
<1>1. req \in [Threads -> ReqRecord] /\ graph \in GraphRecord
  BY DEF Typed
<1>2. [title |-> graph.title, act |-> graph.act, paras |-> Listed(graph.body)] \in ChapterRecord
  BY <1>1 DEF GraphRecord, ChapterRecord, Listed
<1>3. req[t].seen \in SUBSET Paras
  BY <1>1 DEF Diff, ReqRecord
<1>4. PICK c \in ChapterRecord, x \in SUBSET Paras, s \in Steps :
        /\ c = [title |-> graph.title, act |-> graph.act, paras |-> Listed(graph.body)]
        /\ x = req[t].seen \ Full(graph.body)
        /\ s = IF SameText(graph.body, req[t].seen) THEN "leave" ELSE "paragraphs"
  BY <1>2, <1>3 DEF Steps
<1>5. req' = [req EXCEPT ![t].fresh = c, ![t].todo = x, ![t].at = s]
  BY <1>4 DEF Diff, Stored, NoChanges
<1>6. c.title = graph.title /\ c.act = graph.act
  BY <1>4
<1>7. /\ req' \in [Threads -> ReqRecord] /\ Others(t)
      /\ req'[t].fresh = c /\ req'[t].todo = x /\ req'[t].at = s
      /\ Only(t, {"at", "fresh", "todo"})
  BY <1>1, <1>5, FreshType
<1> QED
  BY <1>4, <1>6, <1>7

\* The answer of a save or an open is what its file holds by then.
LEMMA AnswerEffect ==
    ASSUME Typed, NEW t \in Threads, Answer(t)
    PROVE  /\ req' \in [Threads -> ReqRecord]
           /\ req'[t].at = "idle"
           /\ req'[t].op = req[t].op /\ req'[t].arg = req[t].arg /\ req'[t].ok = req[t].ok
           /\ req'[t].answer =
                IF req[t].ok /\ req[t].op \in {"save", "open"} /\ files[req[t].path] # NoFile
                THEN files[req[t].path] ELSE NoText
           /\ Others(t)
<1>1. req \in [Threads -> ReqRecord] /\ files \in [Places -> Contents]
  BY DEF Typed
<1>2. /\ req[t].op \in Operations /\ req[t].arg \in Arguments /\ req[t].ok \in BOOLEAN
      /\ req[t].path \in Places
  BY <1>1 DEF ReqRecord
<1>3. PICK i \in ReqRecord : i = IdleReq
  BY IdleType
<1>4. PICK o \in Operations, g \in Arguments, k \in BOOLEAN, a \in (SUBSET Paras) \cup {NoText, Blank} :
        /\ o = req[t].op /\ g = req[t].arg /\ k = req[t].ok
        /\ a = IF req[t].ok /\ req[t].op \in {"save", "open"} /\ files[req[t].path] # NoFile
                THEN files[req[t].path] ELSE NoText
  BY <1>1, <1>2 DEF Contents
<1>5. i.at = "idle"
  BY <1>3 DEF IdleReq
<1> DEFINE r1 == [i EXCEPT !.op = o]
           r2 == [r1 EXCEPT !.arg = g]
           r3 == [r2 EXCEPT !.ok = k]
           r4 == [r3 EXCEPT !.answer = a]
<1>6. req' = [req EXCEPT ![t] = r4]
  BY <1>3, <1>4 DEF Answer
<1>7. r1 \in ReqRecord /\ r1.op = o /\ r1.at = "idle"
  BY <1>5 DEF ReqRecord
<1> HIDE DEF r1
<1>8. r2 \in ReqRecord /\ r2.op = o /\ r2.arg = g /\ r2.at = "idle"
  BY <1>7 DEF ReqRecord
<1> HIDE DEF r2
<1>9. r3 \in ReqRecord /\ r3.op = o /\ r3.arg = g /\ r3.at = "idle" /\ r3.ok = k
  BY <1>8 DEF ReqRecord
<1> HIDE DEF r3
<1>10. r4 \in ReqRecord /\ r4.op = o /\ r4.arg = g /\ r4.at = "idle" /\ r4.ok = k /\ r4.answer = a
  BY <1>9 DEF ReqRecord
<1> HIDE DEF r4
<1>11. req' \in [Threads -> ReqRecord] /\ req'[t] = r4
  BY <1>1, <1>6, <1>10
<1>12. Others(t)
  BY <1>1, <1>6 DEF Others
<1> QED
  BY <1>4, <1>10, <1>11, <1>12

\* rename_chapter moves the file, is refused where another is in its way or where
\* git does not track it, which parts the two, and does nothing where there is none.
LEMMA RenameEffect ==
    ASSUME Typed, NEW t \in Threads, Sane(req[t]), RenameFile(t)
    PROVE  /\ req' \in [Threads -> ReqRecord]
           /\ files' \in [Places -> Contents]
           /\ \/ /\ files[req[t].path] = NoFile
                 /\ req'[t].at = "answer" /\ Only(t, {"at"}) /\ Others(t) /\ files' = files
              \/ /\ files[req[t].path] # NoFile
                 /\ files[<<req[t].ch.act, req[t].arg>>] # NoFile \/ parted'
                 /\ req'[t].at = "answer" /\ req'[t].ok = FALSE
                 /\ Only(t, {"at", "ok"}) /\ Others(t) /\ files' = files
              \/ /\ files[req[t].path] # NoFile
                 /\ files[<<req[t].ch.act, req[t].arg>>] = NoFile
                 /\ req'[t].at = "truncate" /\ req'[t].path = <<req[t].ch.act, req[t].arg>>
                 /\ req'[t].text = files[req[t].path]
                 /\ Only(t, {"at", "path", "text", "fd"})
                 /\ \A u \in Threads \ {t} :
                      /\ req'[u].op = req[u].op /\ req'[u].arg = req[u].arg
                      /\ req'[u].seen = req[u].seen /\ req'[u].at = req[u].at
                 /\ files' = [files EXCEPT ![<<req[t].ch.act, req[t].arg>>] = files[req[t].path],
                                           ![req[t].path] = NoFile]
<1>1. /\ req \in [Threads -> ReqRecord] /\ files \in [Places -> Contents]
      /\ req[t].path \in Places
      /\ "answer" \in Steps /\ "truncate" \in Steps
  BY DEF Typed, ReqRecord, Steps
<1>2. <<req[t].ch.act, req[t].arg>> \in Places
  <2>1. req[t].ch \in ChapterRecord /\ req[t].arg \in Titles
    BY <1>1 DEF RenameFile, At, Sane, ReqRecord
  <2> QED
    BY <2>1 DEF ChapterRecord, Places
<1>3. PICK old \in Places, new \in Places : old = req[t].path /\ new = <<req[t].ch.act, req[t].arg>>
  BY <1>1, <1>2
<1>4. CASE files[old] = NoFile
  <2>1. req' = [req EXCEPT ![t].at = "answer"] /\ files' = files
    BY <1>3, <1>4 DEF RenameFile, Goto
  <2> QED
    BY <1>1, <1>3, <1>4, <2>1, GotoType
<1>5. CASE files[old] # NoFile /\ (files[new] # NoFile \/ old \notin tracked)
  <2>1. /\ req' = [req EXCEPT ![t].ok = FALSE, ![t].at = "answer"] /\ files' = files
        /\ files[new] # NoFile \/ parted'
    BY <1>3, <1>5 DEF RenameFile
  <2> QED
    BY <1>1, <1>3, <1>5, <2>1, FailType
<1>6. CASE files[old] # NoFile /\ files[new] = NoFile /\ old \in tracked
  <2>1. PICK x \in (SUBSET Paras) \cup {Blank} : x = files[old]
    BY <1>1, <1>6 DEF Contents
  <2>2. PICK f \in [Threads -> ReqRecord] : f = Reopened(old, new)
    BY <1>1, ReopenType
  <2>3. req' = [f EXCEPT ![t].path = new, ![t].text = x, ![t].at = "truncate"]
    BY <1>3, <1>6, <2>1, <2>2 DEF RenameFile
  <2> DEFINE r1 == [f[t] EXCEPT !.path = new]
             r2 == [r1 EXCEPT !.text = x]
             r3 == [r2 EXCEPT !.at = "truncate"]
  <2>4. req' = [f EXCEPT ![t] = r3]
    BY <2>3 DEF ReqRecord
  <2>5. r1 \in ReqRecord
    BY DEF ReqRecord
  <2> HIDE DEF r1
  <2>6. r2 \in ReqRecord
    BY <2>5 DEF ReqRecord
  <2> HIDE DEF r2
  <2>7. r3 \in ReqRecord
    BY <1>1, <2>6 DEF ReqRecord
  <2> HIDE DEF r3
  <2>8. req' \in [Threads -> ReqRecord]
    BY <2>4, <2>7
  <2>9. /\ req'[t].path = new /\ req'[t].text = x /\ req'[t].at = "truncate"
        /\ req'[t].op = f[t].op /\ req'[t].arg = f[t].arg /\ req'[t].ch = f[t].ch
        /\ req'[t].seen = f[t].seen /\ req'[t].fresh = f[t].fresh /\ req'[t].todo = f[t].todo
        /\ req'[t].ok = f[t].ok /\ req'[t].answer = f[t].answer
    BY <2>3 DEF ReqRecord
  <2>10. \A u \in Threads \ {t} : req'[u] = f[u]
    BY <2>3
  <2>11. \A u \in Threads :
            /\ f[u].op = req[u].op /\ f[u].arg = req[u].arg /\ f[u].ch = req[u].ch
            /\ f[u].seen = req[u].seen /\ f[u].fresh = req[u].fresh /\ f[u].todo = req[u].todo
            /\ f[u].ok = req[u].ok /\ f[u].answer = req[u].answer /\ f[u].at = req[u].at
    BY <1>1, <2>2, ReopenType
  <2>12. Only(t, {"at", "path", "text", "fd"})
    BY <2>9, <2>11 DEF Only
  <2>13. files' = [files EXCEPT ![new] = x, ![old] = NoFile]
    BY <1>3, <1>6, <2>1 DEF RenameFile
  <2>14. files' \in [Places -> Contents]
    BY <1>1, <2>13 DEF Contents
  <2>15. \A u \in Threads \ {t} :
            /\ req'[u].op = req[u].op /\ req'[u].arg = req[u].arg
            /\ req'[u].seen = req[u].seen /\ req'[u].at = req[u].at
    BY <2>10, <2>11
  <2>16. /\ req'[t].at = "truncate" /\ req'[t].path = <<req[t].ch.act, req[t].arg>>
         /\ req'[t].text = files[req[t].path]
         /\ files' = [files EXCEPT ![<<req[t].ch.act, req[t].arg>>] = files[req[t].path],
                                   ![req[t].path] = NoFile]
    BY <1>3, <2>1, <2>9, <2>13
  <2>17. /\ files[req[t].path] # NoFile
         /\ files[<<req[t].ch.act, req[t].arg>>] = NoFile
    BY <1>3, <1>6
  <2> QED
    BY <2>8, <2>12, <2>14, <2>15, <2>16, <2>17
<1> QED
  BY <1>3, <1>4, <1>5, <1>6

\* A delete removes its file, and changes no other request but for descriptors.
LEMMA RemoveEffect ==
    ASSUME Typed, NEW t \in Threads, RemoveFile(t)
    PROVE  /\ req' \in [Threads -> ReqRecord]
           /\ req'[t].at = "drop" /\ Only(t, {"at", "fd"})
           /\ \A u \in Threads \ {t} :
                /\ req'[u].op = req[u].op /\ req'[u].arg = req[u].arg
                /\ req'[u].seen = req[u].seen /\ req'[u].at = req[u].at
<1>1. /\ req \in [Threads -> ReqRecord] /\ NoFile \in Places \cup {NoFile}
      /\ "drop" \in Steps
  BY DEF Typed, Steps
<1>2. PICK old \in Places : old = req[t].path
  BY <1>1 DEF ReqRecord
<1>3. PICK f \in [Threads -> ReqRecord] : f = Reopened(old, NoFile)
  BY <1>1, ReopenType
<1>4. req' = [f EXCEPT ![t].at = "drop"]
  BY <1>2, <1>3 DEF RemoveFile
<1>5. req' \in [Threads -> ReqRecord]
  BY <1>1, <1>4 DEF ReqRecord
<1>6. \A u \in Threads :
            /\ f[u].op = req[u].op /\ f[u].arg = req[u].arg /\ f[u].ch = req[u].ch
            /\ f[u].path = req[u].path /\ f[u].text = req[u].text
            /\ f[u].seen = req[u].seen /\ f[u].fresh = req[u].fresh /\ f[u].todo = req[u].todo
            /\ f[u].ok = req[u].ok /\ f[u].answer = req[u].answer /\ f[u].at = req[u].at
  BY <1>1, <1>3, ReopenType
<1>7. /\ req'[t].at = "drop"
      /\ req'[t].op = f[t].op /\ req'[t].arg = f[t].arg /\ req'[t].ch = f[t].ch
      /\ req'[t].path = f[t].path /\ req'[t].text = f[t].text
      /\ req'[t].seen = f[t].seen /\ req'[t].fresh = f[t].fresh /\ req'[t].todo = f[t].todo
      /\ req'[t].ok = f[t].ok /\ req'[t].answer = f[t].answer
  BY <1>4 DEF ReqRecord
<1>8. Only(t, {"at", "fd"})
  BY <1>6, <1>7 DEF Only
<1>9. \A u \in Threads \ {t} : req'[u] = f[u]
  BY <1>4
<1>10. \A u \in Threads \ {t} :
            /\ req'[u].op = req[u].op /\ req'[u].arg = req[u].arg
            /\ req'[u].seen = req[u].seen /\ req'[u].at = req[u].at
  BY <1>6, <1>9
<1> QED
  BY <1>5, <1>7, <1>8, <1>10

\* The CHANGED query sets title and act, and the list of paragraphs unless empty.
LEMMA ChapterChangedEffect ==
    ASSUME graph \in GraphRecord, NEW title \in Titles, NEW act \in Acts, NEW list,
           ChapterChanged(title, act, list)
    PROVE  /\ graph' \in GraphRecord
           /\ graph'.live = TRUE /\ graph'.title = title /\ graph'.act = act
           /\ \A p \in Paras : graph'.body[p] =
                IF list = {} THEN graph.body[p]
                ELSE IF p \notin list THEN "absent"
                ELSE IF graph.body[p] = "absent" THEN "stub" ELSE graph.body[p]
<1> DEFINE b == [p \in Paras |->
                   IF list = {} THEN graph.body[p]
                   ELSE IF p \notin list THEN "absent"
                   ELSE IF graph.body[p] = "absent" THEN "stub" ELSE graph.body[p]]
<1>1. graph' = [live |-> TRUE, title |-> title, act |-> act, body |-> b]
  BY DEF ChapterChanged
<1>2. graph.body \in Bodies
  BY DEF GraphRecord
<1>3. b \in Bodies
  BY <1>2 DEF Bodies
<1>4. \A p \in Paras : b[p] =
                IF list = {} THEN graph.body[p]
                ELSE IF p \notin list THEN "absent"
                ELSE IF graph.body[p] = "absent" THEN "stub" ELSE graph.body[p]
  OBVIOUS
<1> HIDE DEF b
<1>5. graph' \in GraphRecord
  BY <1>1, <1>3 DEF GraphRecord
<1> QED
  BY <1>1, <1>4, <1>5

\* One paragraph that was to be saved is in the graph in full.
LEMMA SaveParagraphEffect ==
    ASSUME Typed, NEW t \in Threads, SaveParagraph(t)
    PROVE  /\ req' \in [Threads -> ReqRecord]
           /\ graph' \in GraphRecord
           /\ Only(t, {"todo"}) /\ Others(t)
           /\ graph'.live = graph.live /\ graph'.title = graph.title /\ graph'.act = graph.act
           /\ \E p \in req[t].todo :
                /\ p \in Paras
                /\ req'[t].todo = req[t].todo \ {p}
                /\ graph.live => graph'.body[p] = "full"
                /\ \A x \in Paras \ {p} : graph'.body[x] = graph.body[x]
<1>1. req \in [Threads -> ReqRecord] /\ graph \in GraphRecord
  BY DEF Typed
<1>2. req[t].todo \in SUBSET Paras
  BY <1>1 DEF ReqRecord
<1>3. PICK p \in req[t].todo :
         /\ graph' = IF graph.live THEN [graph EXCEPT !.body[p] = "full"] ELSE graph
         /\ req' = [req EXCEPT ![t].todo = req[t].todo \ {p}]
  BY <1>1 DEF SaveParagraph, ReqRecord
<1>4. p \in Paras /\ req[t].todo \ {p} \in SUBSET Paras
  BY <1>2
<1>5. /\ req' \in [Threads -> ReqRecord]
      /\ req'[t].todo = req[t].todo \ {p} /\ Only(t, {"todo"}) /\ Others(t)
  BY <1>1, <1>3, <1>4, TodoType
<1>6. /\ graph' \in GraphRecord
      /\ graph'.live = graph.live /\ graph'.title = graph.title /\ graph'.act = graph.act
      /\ graph.live => graph'.body[p] = "full"
      /\ \A x \in Paras \ {p} : graph'.body[x] = graph.body[x]
  BY <1>1, <1>3, <1>4 DEF GraphRecord, Bodies
<1> QED
  BY <1>4, <1>5, <1>6

\* A deleted chapter has no paragraphs.
LEMMA DropEffect ==
    ASSUME Typed, NEW t \in Threads, Drop(t)
    PROVE  /\ graph' \in GraphRecord
           /\ graph'.live = FALSE
           /\ \A p \in Paras : graph'.body[p] = "absent"
           /\ graph'.title = graph.title /\ graph'.act = graph.act
  BY DEF Drop, Typed, GraphRecord, Bodies

\* A write through a descriptor leaves the files typed.
LEMMA FilledType ==
    ASSUME Typed, NEW t \in Threads, NEW text \in (SUBSET Paras) \cup {Blank}
    PROVE  Filled(t, text) \in [Places -> Contents]
<1>1. files \in [Places -> Contents] /\ req[t].fd \in Places \cup {NoFile} /\ text \in Contents
  BY DEF Typed, ReqRecord, Contents
<1> QED
  BY <1>1 DEF Filled

(***************************************************************************)
(* What every step of a served request has in common.                      *)
(***************************************************************************)
Serving(t) ==
    /\ req' \in [Threads -> ReqRecord]
    /\ graph' \in GraphRecord
    /\ files' \in [Places -> Contents]
    /\ \A u \in Threads : req'[u].op = req[u].op /\ req'[u].arg = req[u].arg
    /\ \A u \in Threads \ {t} : req'[u].at = req[u].at /\ req'[u].seen = req[u].seen
    /\ Active(t)

\* Every step of a request keeps the types, its operation and the other requests.
LEMMA StepServes ==
    ASSUME Typed, NEW t \in Threads, Sane(req[t]), ServeStep(t)
    PROVE  Serving(t) /\ Sane(req'[t])
<1>0. /\ req \in [Threads -> ReqRecord] /\ graph \in GraphRecord /\ files \in [Places -> Contents]
      /\ req[t] \in ReqRecord
  BY DEF Typed
<1>1. /\ req[t].path \in Places /\ req[t].text \in (SUBSET Paras) \cup {Blank}
      /\ req[t].seen \in (SUBSET Paras) \cup {Blank}
      /\ req[t].ch.title \in Titles /\ req[t].ch.act \in Acts
      /\ req[t].fresh.title \in Titles /\ req[t].fresh.act \in Acts
      /\ req[t].op \in Operations
  BY <1>0 DEF ReqRecord, ChapterRecord
<1>2. Blank \in Contents /\ NoFile \in Contents
  BY DEF Contents
<1>3. [files EXCEPT ![req[t].path] = Blank] \in [Places -> Contents]
  BY <1>0, <1>1, <1>2
<1>4. [files EXCEPT ![req[t].path] = NoFile] \in [Places -> Contents]
  BY <1>0, <1>1, <1>2
<1> USE <1>0 DEF Sane, Serving, At, Active
<1>5. CASE Load(t)
  <2>1. /\ req' \in [Threads -> ReqRecord] /\ Others(t)
        /\ req'[t].at \in {FirstStep(req[t].op), "answer"}
        /\ req'[t].op = req[t].op /\ req'[t].arg = req[t].arg
    BY <1>5, LoadEffect DEF Only
  <2>2. graph' = graph /\ files' = files /\ req[t].at = "load"
    BY <1>5 DEF Load
  <2>3. /\ req[t].op \in {"save", "open"} => FirstStep(req[t].op) = "enter"
        /\ req[t].op = "rename" => FirstStep(req[t].op) = "retitle"
        /\ req[t].op = "move" => FirstStep(req[t].op) = "adopt"
        /\ req[t].op = "delete" => FirstStep(req[t].op) = "remove_file"
    BY DEF FirstStep
  <2> QED
    BY <1>1, <2>1, <2>2, <2>3 DEF Others, Operations
<1>6. CASE EnterScope(t)
  <2>1. "locked" \in Steps
    BY DEF Steps
  <2> QED
    BY <1>6, <2>1, GotoEffect DEF EnterScope, Others, Only
<1>7. CASE Choose(t)
  <2>1. PICK s \in {"truncate", "read"} : s \in Steps /\ Goto(t, s)
    BY <1>7 DEF Choose, Steps
  <2> QED
    BY <1>7, <2>1, GotoEffect DEF Choose, Others, Only
<1>8. CASE Truncate(t)
  <2>1. "write" \in Steps
    BY DEF Steps
  <2>2. req' = [req EXCEPT ![t].fd = req[t].path, ![t].at = "write"]
    BY <1>8 DEF Truncate
  <2> QED
    <3>1. /\ req' \in [Threads -> ReqRecord] /\ Others(t)
          /\ req'[t].at = "write" /\ Only(t, {"at", "fd"})
      BY <2>1, <2>2, OpenType
    <3>2. graph' = graph /\ files' \in [Places -> Contents] /\ req[t].at = "truncate"
      BY <1>3, <1>8 DEF Truncate
    <3> QED
      BY <3>1, <3>2 DEF Others, Only
<1>9. CASE Write(t)
  <2>1. req[t].op \in {"save", "open", "rename"}
    BY <1>9 DEF Write
  <2>2. PICK s \in {"read", "leave", "snapshot"} :
          /\ s \in Steps /\ Goto(t, s)
          /\ IF s = "snapshot" THEN req[t].op = "rename" ELSE req[t].op \in {"save", "open"}
    BY <1>9, <2>1 DEF Write, Steps
  <2>3. files' \in [Places -> Contents]
    BY <1>1, <1>9, FilledType DEF Write
  <2> QED
    BY <1>9, <2>2, <2>3, GotoEffect DEF Write, Others, Only
<1>10. CASE Read(t)
  BY <1>10, ReadEffect DEF Read, Others, Only
<1>11. CASE DiffGone(t)
  <2>1. "leave" \in Steps /\ req' = [req EXCEPT ![t].ok = FALSE, ![t].at = "leave"]
    BY <1>11 DEF DiffGone, Raises, Steps
  <2> QED
    BY <1>11, <2>1, RaiseEffect DEF DiffGone, Others, Only
<1>12. CASE DiffBlank(t)
  <2>1. "leave" \in Steps /\ req' = [req EXCEPT ![t].ok = FALSE, ![t].at = "leave"]
    BY <1>12 DEF DiffBlank, Raises, Steps
  <2> QED
    <3>1. /\ req' \in [Threads -> ReqRecord] /\ Others(t)
          /\ req'[t].at = "leave" /\ Only(t, {"at", "ok"})
      BY <2>1, RaiseEffect
    <3>2. graph' = graph /\ files' = files /\ req[t].at = "diff"
      BY <1>12 DEF DiffBlank
    <3> QED
      BY <3>1, <3>2 DEF Others, Only
<1>13. CASE Diff(t)
  <2>1. /\ req' \in [Threads -> ReqRecord] /\ Others(t)
        /\ req'[t].at \in {"leave", "paragraphs"} /\ Only(t, {"at", "fresh", "todo"})
    BY <1>13, DiffEffect
  <2>2. graph' = graph /\ files' = files /\ req[t].at = "diff" /\ req[t].seen # Blank
    BY <1>13 DEF Diff
  <2> QED
    BY <2>1, <2>2 DEF Others, Only
<1>14. CASE CommitFails(t)
  <2>1. PICK s \in {"leave", "answer"} :
          /\ s \in Steps /\ req' = [req EXCEPT ![t].ok = FALSE, ![t].at = s]
          /\ s = "leave" => At(t, "paragraphs")
    BY <1>14 DEF CommitFails, Raises, Steps
  <2>2. req[t].at # "idle"
    BY <1>14 DEF CommitFails, Commits
  <2> QED
    BY <1>14, <2>1, <2>2, RaiseEffect DEF CommitFails, Others, Only
<1>15. CASE SaveParagraph(t)
  BY <1>15, SaveParagraphEffect DEF SaveParagraph, Others, Only
<1>16. CASE SaveChapter(t)
  <2>1. "back" \in Steps
    BY DEF Steps
  <2>2. graph' \in GraphRecord
    BY <1>1, <1>16, ChapterChangedEffect DEF SaveChapter
  <2> QED
    BY <1>16, <2>1, <2>2, GotoEffect DEF SaveChapter, Others, Only
<1>17. CASE TruncateBack(t)
  <2>1. "back_write" \in Steps /\ "leave" \in Steps
    BY DEF Steps
  <2>2. CASE files[req[t].path] = NoFile
    <3>1. req' = [req EXCEPT ![t].ok = FALSE, ![t].at = "leave"]
      BY <1>17, <2>2 DEF TruncateBack, Raises
    <3> QED
      <4>1. /\ req' \in [Threads -> ReqRecord] /\ Others(t)
            /\ req'[t].at = "leave" /\ Only(t, {"at", "ok"})
        BY <2>1, <3>1, RaiseEffect
      <4>2. graph' = graph /\ files' = files /\ req[t].at = "back"
        BY <1>17, <2>2 DEF TruncateBack
      <4> QED
        BY <4>1, <4>2 DEF Others, Only
  <2>3. CASE files[req[t].path] # NoFile
    <3>1. req' = [req EXCEPT ![t].fd = req[t].path, ![t].at = "back_write"]
      BY <1>17, <2>3 DEF TruncateBack
    <3> QED
      <4>1. /\ req' \in [Threads -> ReqRecord] /\ Others(t)
            /\ req'[t].at = "back_write" /\ Only(t, {"at", "fd"})
        BY <2>1, <3>1, OpenType
      <4>2. graph' = graph /\ files' \in [Places -> Contents] /\ req[t].at = "back"
        BY <1>3, <1>17, <2>3 DEF TruncateBack
      <4> QED
        BY <4>1, <4>2 DEF Others, Only
  <2> QED
    BY <2>2, <2>3
<1>18. CASE WriteBack(t)
  <2>1. "leave" \in Steps
    BY DEF Steps
  <2>2. files' \in [Places -> Contents]
    BY <1>1, <1>18, FilledType DEF WriteBack
  <2> QED
    BY <1>18, <2>1, <2>2, GotoEffect DEF WriteBack, Others, Only
<1>19. CASE LeaveScope(t)
  <2>1. "answer" \in Steps
    BY DEF Steps
  <2> QED
    BY <1>19, <2>1, GotoEffect DEF LeaveScope, Others, Only
<1>20. CASE Retitle(t)
  <2>1. PICK s \in {"answer", "rename_file"} : s \in Steps /\ Goto(t, s)
    BY <1>20 DEF Retitle, Steps
  <2>2. graph' \in GraphRecord
    BY <1>1, <1>20, ChapterChangedEffect DEF Retitle
  <2> QED
    BY <1>20, <2>1, <2>2, GotoEffect DEF Retitle, Others, Only
<1>21. CASE RenameFile(t)
  <2>1. /\ req' \in [Threads -> ReqRecord] /\ files' \in [Places -> Contents]
        /\ req'[t].at \in {"answer", "truncate"}
    BY <1>21, RenameEffect
  <2>2. req'[t].op = req[t].op /\ req'[t].arg = req[t].arg
    BY <1>21, RenameEffect DEF Only
  <2>3. \A u \in Threads \ {t} :
          /\ req'[u].op = req[u].op /\ req'[u].arg = req[u].arg
          /\ req'[u].seen = req[u].seen /\ req'[u].at = req[u].at
    BY <1>21, RenameEffect DEF Others
  <2>4. graph' = graph /\ req[t].at = "rename_file"
    BY <1>21 DEF RenameFile
  <2> QED
    BY <2>1, <2>2, <2>3, <2>4
<1>22. CASE Adopt(t)
  <2>1. "answer" \in Steps
    BY DEF Steps
  <2>2. graph' \in GraphRecord
    BY <1>1, <1>22, ChapterChangedEffect DEF Adopt
  <2> QED
    BY <1>22, <2>1, <2>2, GotoEffect DEF Adopt, Others, Only
<1>23. CASE RemoveFile(t)
  BY <1>4, <1>23, RemoveEffect DEF RemoveFile, Only
<1>24. CASE Drop(t)
  <2>1. "answer" \in Steps
    BY DEF Steps
  <2> QED
    BY <1>24, <2>1, DropEffect, GotoEffect DEF Drop, Others, Only
<1>25. CASE Answer(t)
  BY <1>25, AnswerEffect DEF Answer, Others
<1>26. CASE Snapshot(t)
  <2>1. "answer" \in Steps
    BY DEF Steps
  <2> QED
    BY <1>26, <2>1, GotoEffect DEF Snapshot, Others, Only
<1> QED
  BY <1>5, <1>6, <1>7, <1>8, <1>9, <1>10, <1>11, <1>12, <1>13, <1>14, <1>15, <1>16, <1>17,
     <1>18, <1>19, <1>20, <1>21, <1>22, <1>23, <1>24, <1>25, <1>26 DEF ServeStep

\* The steps between entering and leaving the chapter's save scope.
InScope(r) ==
    \/ r.at \in {"locked", "read", "diff", "paragraphs", "back", "back_write", "leave"}
    \/ r.at \in {"truncate", "write"} /\ r.op \in {"save", "open"}

\* A request inside the scope holds the chapter's lock.
Scope == \A t \in Threads : InScope(req[t]) => owner[chapterId] = t

\* The text of a save in flight may be read from now on, and is on record
\* with every other save in flight.
Raced ==
    \A t \in Threads : Saving(t) =>
      /\ req[t].arg \in allowed
      /\ \A s \in Threads \ {t} : Saving(s) => req[s].arg \in overlap[t]

\* What holds of any interleaving, with crashes and edits.
Basic == Typed /\ (\A t \in Threads : Sane(req[t])) /\ Scope /\ Raced

\* Every step keeps the requests inside the save scope in possession of the lock.
LEMMA ScopeStep ==
    ASSUME Basic, NEW t \in Threads, ServeStep(t)
    PROVE  Scope' /\ owner' \in [{chapterId} -> Threads \cup {NoThread}]
<1>1. Serving(t)
  BY StepServes DEF Basic
<1>2. owner \in [{chapterId} -> Threads \cup {NoThread}]
  BY DEF Basic, Typed
<1>3. \A u \in Threads \ {t} : InScope(req'[u]) <=> InScope(req[u])
  BY <1>1 DEF Serving, InScope
<1>4. CASE EnterScope(t)
  <2>1. owner[chapterId] = NoThread /\ owner' = [owner EXCEPT ![chapterId] = t]
    BY <1>4 DEF EnterScope, Mutex!Enter
  <2>2. \A u \in Threads : ~InScope(req[u])
    BY <2>1, NobodyAssumption DEF Basic, Scope
  <2>3. Scope'
    BY <1>2, <1>3, <2>1, <2>2 DEF Scope
  <2> QED
    BY <1>2, <2>1, <2>3
<1>5. CASE LeaveScope(t)
  <2>1. owner[chapterId] = t /\ owner' = [owner EXCEPT ![chapterId] = NoThread]
    BY <1>5 DEF LeaveScope, Mutex!Leave
  <2>2. \A u \in Threads \ {t} : ~InScope(req[u])
    BY <2>1 DEF Basic, Scope
  <2>3. req'[t].at = "answer"
    <3>1. "answer" \in Steps
      BY DEF Steps
    <3> QED
      BY <1>5, <3>1, GotoEffect DEF LeaveScope, Basic
  <2>4. ~InScope(req'[t])
    BY <2>3 DEF InScope
  <2>5. Scope'
    BY <1>3, <2>2, <2>4 DEF Scope
  <2> QED
    BY <1>2, <2>1, <2>5
<1>6. CASE ~EnterScope(t) /\ ~LeaveScope(t)
  <2>1. owner' = owner
    BY <1>6 DEF ServeStep, Load, Choose, Truncate, Write, Read, DiffGone, DiffBlank, Diff,
       CommitFails, SaveParagraph, SaveChapter, TruncateBack, WriteBack, Retitle, RenameFile, Snapshot,
       Adopt, RemoveFile, Drop, Answer
  <2>2. InScope(req'[t]) => InScope(req[t])
    <3>1. Typed /\ Sane(req[t]) /\ Sane(req'[t])
      BY StepServes DEF Basic
    <3>2. CASE \/ Load(t) \/ Retitle(t) \/ RenameFile(t) \/ Snapshot(t) \/ Adopt(t)
               \/ RemoveFile(t) \/ Drop(t) \/ Answer(t)
      <4> SUFFICES ~InScope(req'[t])
        OBVIOUS
      <4>1. CASE Load(t)
        <5>1. req'[t].at \in {FirstStep(req[t].op), "answer"} /\ req[t].op \in Operations
          BY <3>1, <4>1, LoadEffect DEF Typed, ReqRecord
        <5> QED
          BY <5>1 DEF FirstStep, Operations, InScope
      <4>2. CASE Retitle(t) \/ Snapshot(t) \/ Adopt(t) \/ Drop(t)
        <5>1. PICK s \in {"answer", "rename_file"} : s \in Steps /\ Goto(t, s)
          BY <4>2 DEF Retitle, Snapshot, Adopt, Drop, Steps
        <5> QED
          BY <3>1, <5>1, GotoEffect DEF InScope
      <4>3. CASE RenameFile(t)
        <5>1. req'[t].at \in {"answer", "truncate"}
          BY <3>1, <4>3, RenameEffect
        <5>2. req'[t].op = "rename"
          BY <1>1, <3>1, <4>3 DEF RenameFile, At, Sane, Serving
        <5> QED
          BY <5>1, <5>2 DEF InScope
      <4>4. CASE RemoveFile(t)
        BY <3>1, <4>4, RemoveEffect DEF InScope
      <4>5. CASE Answer(t)
        BY <3>1, <4>5, AnswerEffect DEF InScope
      <4> QED
        BY <3>2, <4>1, <4>2, <4>3, <4>4, <4>5
    <3>3. CASE \/ Choose(t) \/ Read(t) \/ DiffGone(t) \/ DiffBlank(t) \/ Diff(t)
               \/ SaveParagraph(t) \/ SaveChapter(t) \/ TruncateBack(t) \/ WriteBack(t)
      BY <3>3 DEF Choose, Read, DiffGone, DiffBlank, Diff, SaveParagraph, SaveChapter,
         TruncateBack, WriteBack, At, InScope
    <3>4. CASE Truncate(t)
      <4>1. req[t].at = "truncate" /\ req'[t].op = req[t].op
        BY <1>1, <3>4 DEF Truncate, At, Serving
      <4>2. req'[t].at = "write"
        <5>1. "write" \in Steps /\ req' = [req EXCEPT ![t].fd = req[t].path, ![t].at = "write"]
          BY <3>4 DEF Truncate, Steps
        <5> QED
          BY <3>1, <5>1, OpenType DEF Typed
      <4> QED
        BY <4>1, <4>2 DEF InScope
    <3>5. CASE Write(t)
      <4>1. req[t].at = "write" /\ req'[t].op = req[t].op
        BY <1>1, <3>5 DEF Write, At, Serving
      <4>2. CASE req[t].op = "rename"
        <5>1. "snapshot" \in Steps /\ Goto(t, "snapshot")
          BY <3>5, <4>2 DEF Write, Steps
        <5> QED
          BY <3>1, <5>1, GotoEffect DEF InScope
      <4>3. CASE req[t].op # "rename"
        BY <3>1, <4>1, <4>3 DEF InScope, Sane
      <4> QED
        BY <4>2, <4>3
    <3>6. CASE CommitFails(t)
      <4>1. CASE At(t, "paragraphs")
        BY <4>1 DEF At, InScope
      <4>2. CASE ~At(t, "paragraphs")
        <5>1. "answer" \in Steps /\ req' = [req EXCEPT ![t].ok = FALSE, ![t].at = "answer"]
          BY <3>6, <4>2 DEF CommitFails, Steps
        <5>2. req'[t].at = "answer"
          BY <3>1, <5>1, RaiseEffect
        <5> QED
          BY <5>2 DEF InScope
      <4> QED
        BY <4>1, <4>2
    <3> QED
      BY <1>6, <3>2, <3>3, <3>4, <3>5, <3>6 DEF ServeStep
  <2> QED
    BY <1>2, <1>3, <2>1, <2>2 DEF Basic, Scope
<1> QED
  BY <1>4, <1>5, <1>6

\* Every step of a request keeps the history of the saves in flight.
LEMMA RacedStep ==
    ASSUME Basic, NEW t \in Threads, ServeStep(t)
    PROVE  Raced' /\ allowed' \subseteq SUBSET Paras /\ overlap' = overlap
<1>1. Serving(t)
  BY StepServes DEF Basic
<1>2. \A u \in Threads : Saving(u)' => Saving(u) /\ req'[u].arg = req[u].arg
  BY <1>1 DEF Serving, Saving, Active
<1>3. allowed \subseteq SUBSET Paras /\ overlap \in [Threads -> SUBSET SUBSET Paras]
  BY DEF Basic, Typed
<1>4. CASE Answer(t)
  <2>1. overlap' = overlap /\ req'[t].at = "idle"
    BY <1>4, AnswerEffect DEF Answer, Basic
  <2>2. CASE req[t].op = "save" /\ req[t].ok
    <3>1. allowed' = {req[t].arg} \cup overlap[t]
      BY <1>4, <2>2 DEF Answer
    <3>2. req[t].arg \in SUBSET Paras
      BY <2>2, TextsAssumption DEF Basic, Sane
    <3>3. Saving(t) /\ ~Saving(t)'
      BY <1>1, <2>1, <2>2 DEF Serving, Saving, Active
    <3> QED
      BY <1>2, <1>3, <2>1, <3>1, <3>2, <3>3 DEF Basic, Raced
  <2>3. CASE ~(req[t].op = "save" /\ req[t].ok)
    <3>1. allowed' = allowed
      BY <1>4, <2>3 DEF Answer
    <3> QED
      BY <1>2, <1>3, <2>1, <3>1 DEF Basic, Raced
  <2> QED
    BY <2>2, <2>3
<1>5. CASE CommitFails(t)
  <2>1. /\ overlap' = overlap /\ allowed \subseteq allowed'
        /\ allowed' \subseteq allowed \cup {Full(graph.body)}
    BY <1>5 DEF CommitFails
  <2>2. Full(graph.body) \in SUBSET Paras
    BY DEF Full
  <2> QED
    BY <1>2, <1>3, <2>1, <2>2 DEF Basic, Raced
<1>6. CASE ~Answer(t) /\ ~CommitFails(t)
  <2>1. overlap' = overlap /\ allowed' = allowed
    BY <1>6 DEF ServeStep, Load, EnterScope, Choose, Truncate, Write, Read, DiffGone, DiffBlank,
       Diff, SaveParagraph, SaveChapter, TruncateBack, WriteBack, LeaveScope, Retitle,
       RenameFile, Snapshot, Adopt, RemoveFile, Drop
  <2> QED
    BY <1>2, <1>3, <2>1 DEF Basic, Raced
<1> QED
  BY <1>4, <1>5, <1>6

\* A step of a request keeps Basic;
LEMMA ServeBasic ==
    ASSUME Basic, NEW t \in Threads, ServeStep(t)
    PROVE  Basic'
<1>1. Serving(t) /\ Sane(req'[t])
  BY StepServes DEF Basic
<1>2. \A u \in Threads : Sane(req'[u])
  BY <1>1 DEF Serving, Basic, Sane
<1>3. poisoned' \in BOOLEAN /\ requests' = requests /\ crashes' = crashes /\ parted' \in BOOLEAN
  BY DEF Basic, Typed, ServeStep, Load, EnterScope, Choose, Truncate, Write, Read, DiffGone,
     DiffBlank, Diff, CommitFails, SaveParagraph, SaveChapter, TruncateBack, WriteBack,
     LeaveScope, Retitle, RenameFile, Snapshot, Adopt, RemoveFile, Drop, Answer
<1>4. Scope' /\ owner' \in [{chapterId} -> Threads \cup {NoThread}]
  BY ScopeStep
<1>5. Raced' /\ allowed' \subseteq SUBSET Paras /\ overlap' = overlap
  BY RacedStep
<1>6. Typed'
  BY <1>1, <1>3, <1>4, <1>5 DEF Serving, Typed, Basic
<1> QED
  BY <1>2, <1>4, <1>5, <1>6 DEF Basic

\* the beginning of one does,
LEMMA BeginBasic ==
    ASSUME Basic, NEW t \in Threads, NEW op \in Operations, NEW arg \in Arguments,
           Begin(t, op, arg), op = "save" => arg \in Texts, op = "rename" => arg \in Titles,
           op = "move" => arg \in Acts
    PROVE  Basic'
<1>1. /\ req' \in [Threads -> ReqRecord]
      /\ req'[t].op = op /\ req'[t].arg = arg /\ req'[t].at = "load"
      /\ \A u \in Threads \ {t} : req'[u] = req[u]
  BY BeginEffect DEF Basic, Others
<1>2. /\ graph' = graph /\ files' = files /\ poisoned' = poisoned /\ owner' = owner
      /\ crashes' = crashes /\ requests' = requests + 1 /\ requests < MaxRequests
      /\ parted' \in BOOLEAN /\ ~Active(t)
  BY DEF Begin, Basic, Typed
<1>3. requests' \in 0 .. MaxRequests
  BY <1>2, BoundAssumption DEF Basic, Typed
<1>4. \A u \in Threads : Sane(req'[u])
  BY <1>1 DEF Basic, Sane
<1>5. Scope'
  BY <1>1, <1>2 DEF Basic, Scope, InScope
<1>6. allowed \subseteq SUBSET Paras /\ overlap \in [Threads -> SUBSET SUBSET Paras]
  BY DEF Basic, Typed
<1>7. /\ allowed \subseteq allowed' /\ allowed' \subseteq SUBSET Paras
      /\ op = "save" => arg \in allowed'
  BY <1>6, TextsAssumption DEF Begin
<1>8. \A u \in Threads : Saving(u) => req[u].arg \in SUBSET Paras
  BY TextsAssumption DEF Basic, Sane, Saving
<1>9. CASE op = "save"
  <2>1. overlap' = [u \in Threads |->
                     IF u = t THEN {req[v].arg : v \in {v \in Threads : Saving(v)}}
                     ELSE IF Saving(u) THEN overlap[u] \cup {arg} ELSE overlap[u]]
    BY <1>9 DEF Begin
  <2>2. {req[v].arg : v \in {v \in Threads : Saving(v)}} \in SUBSET SUBSET Paras
    BY <1>8
  <2>3. arg \in SUBSET Paras
    BY <1>9, TextsAssumption
  <2>4. overlap' \in [Threads -> SUBSET SUBSET Paras]
    <3>1. \A u \in Threads : overlap'[u] \in SUBSET SUBSET Paras
      BY <1>6, <2>1, <2>2, <2>3
    <3> QED
      BY <2>1, <3>1
  <2>5. \A u \in Threads \ {t} : Saving(u)' <=> Saving(u)
    BY <1>1 DEF Saving, Active
  <2>6. Raced'
    <3> SUFFICES ASSUME NEW u \in Threads, Saving(u)'
                 PROVE  /\ req'[u].arg \in allowed'
                        /\ \A s \in Threads \ {u} : Saving(s)' => req'[s].arg \in overlap'[u]
      BY DEF Raced
    <3>1. CASE u = t
      <4>1. \A s \in Threads \ {t} : Saving(s) => req[s].arg \in overlap'[t]
        BY <2>1
      <4> QED
        BY <1>1, <1>7, <1>9, <2>5, <3>1, <4>1
    <3>2. CASE u # t
      <4>1. Saving(u) /\ req'[u] = req[u]
        BY <1>1, <2>5, <3>2
      <4>2. overlap'[u] = overlap[u] \cup {arg}
        BY <2>1, <3>2, <4>1
      <4>3. req[u].arg \in allowed
            /\ \A s \in Threads \ {u} : Saving(s) => req[s].arg \in overlap[u]
        BY <4>1 DEF Basic, Raced
      <4> QED
        BY <1>1, <1>7, <2>5, <4>1, <4>2, <4>3
    <3> QED
      BY <3>1, <3>2
  <2>7. Typed'
    BY <1>1, <1>2, <1>3, <1>7, <2>4 DEF Basic, Typed
  <2> QED
    BY <1>4, <1>5, <2>6, <2>7 DEF Basic
<1>10. CASE op # "save"
  <2>1. overlap' = overlap /\ allowed' = allowed
    BY <1>10 DEF Begin
  <2>2. \A u \in Threads : Saving(u)' => Saving(u) /\ req'[u].arg = req[u].arg
    BY <1>1, <1>10 DEF Saving, Active
  <2>3. Raced'
    BY <2>1, <2>2 DEF Basic, Raced
  <2>4. Typed'
    BY <1>1, <1>2, <1>3, <2>1 DEF Basic, Typed
  <2> QED
    BY <1>4, <1>5, <2>3, <2>4 DEF Basic
<1> QED
  BY <1>9, <1>10

\* an edit of the file by other means does,
LEMMA EditBasic ==
    ASSUME Basic, Edit
    PROVE  Basic'
<1>1. /\ graph' = graph /\ poisoned' = poisoned /\ owner' = owner /\ req' = req
      /\ crashes' = crashes /\ parted' = parted /\ overlap' = overlap
      /\ requests' = requests + 1 /\ requests < MaxRequests
      /\ \A u \in Threads : ~Active(u)
  BY DEF Edit, Quiet
<1>2. PICK x \in Texts : files' = [files EXCEPT ![Here] = x] /\ allowed' = {x}
  BY DEF Edit, Here
<1>3. x \in SUBSET Paras
  BY TextsAssumption
<1>4. files' \in [Places -> Contents] /\ allowed' \subseteq SUBSET Paras
  BY <1>2, <1>3 DEF Basic, Typed, Contents
<1>5. requests' \in 0 .. MaxRequests
  BY <1>1, BoundAssumption DEF Basic, Typed
<1>6. Typed'
  BY <1>1, <1>4, <1>5 DEF Basic, Typed
<1>7. Scope' /\ \A u \in Threads : Sane(req'[u])
  BY <1>1 DEF Basic, Scope
<1>8. Raced'
  BY <1>1 DEF Raced, Saving, Active
<1> QED
  BY <1>6, <1>7, <1>8 DEF Basic

\* and a crash does, which leaves no request.
LEMMA CrashBasic ==
    ASSUME Basic, Crash
    PROVE  Basic' /\ \A u \in Threads : ~Active(u)' /\ req'[u] = IdleReq
<1>0. PICK i \in ReqRecord : i = IdleReq
  BY IdleType
<1>1. /\ req' = [t \in Threads |-> i]
      /\ owner' = [c \in {chapterId} |-> NoThread]
      /\ poisoned' = FALSE /\ overlap' = [t \in Threads |-> {}]
      /\ graph' = graph /\ files' = files /\ requests' = requests /\ allowed' = allowed
      /\ crashes' = crashes + 1 /\ crashes < MaxCrashes /\ parted' \in BOOLEAN
  BY <1>0 DEF Crash, Basic, Typed
<1>2. crashes' \in 0 .. MaxCrashes
  BY <1>1, BoundAssumption DEF Basic, Typed
<1>3. /\ req' \in [Threads -> ReqRecord] /\ overlap' \in [Threads -> SUBSET SUBSET Paras]
      /\ owner' \in [{chapterId} -> Threads \cup {NoThread}]
  BY <1>1
<1>4. Typed'
  BY <1>1, <1>2, <1>3 DEF Basic, Typed
<1>5. i.at = "idle" /\ i.op = "open"
  BY <1>0 DEF IdleReq
<1>6. \A u \in Threads : req'[u].at = "idle" /\ req'[u].op = "open"
  BY <1>1, <1>5
<1>7. Scope' /\ Raced' /\ \A u \in Threads : Sane(req'[u])
  BY <1>6 DEF Scope, InScope, Raced, Saving, Active, Sane
<1> QED
  BY <1>0, <1>1, <1>4, <1>6, <1>7 DEF Basic, Active

\* Basic holds at first,
LEMMA InitBasic == Init => Basic
<1> SUFFICES ASSUME Init PROVE Basic
  OBVIOUS
<1>0. PICK i \in ReqRecord : i = IdleReq
  BY IdleType
<1>1. PICK text \in Texts, title \in Titles, act \in Acts, there \in BOOLEAN :
      /\ graph = [live |-> TRUE, title |-> title, act |-> act,
                  body |-> [p \in Paras |-> IF p \in text THEN "full" ELSE "absent"]]
      /\ files = [f \in Places |-> IF there /\ f = <<act, title>> THEN text ELSE NoFile]
      /\ allowed = {text}
  BY DEF Init
<1>2. /\ poisoned = FALSE /\ owner = [c \in {chapterId} |-> NoThread]
      /\ req = [t \in Threads |-> i] /\ requests = 0 /\ crashes = 0 /\ parted = FALSE
      /\ overlap = [t \in Threads |-> {}]
  BY <1>0 DEF Init, Mutex!MutexInit
<1>3. text \in SUBSET Paras
  BY TextsAssumption
<1>4. graph \in GraphRecord
  <2>1. [p \in Paras |-> IF p \in text THEN "full" ELSE "absent"] \in Bodies
    BY DEF Bodies
  <2> QED
    BY <1>1, <2>1 DEF GraphRecord
<1>5. files \in [Places -> Contents] /\ allowed \subseteq SUBSET Paras
  BY <1>1, <1>3 DEF Contents
<1>6. /\ requests \in 0 .. MaxRequests /\ crashes \in 0 .. MaxCrashes
      /\ req \in [Threads -> ReqRecord] /\ overlap \in [Threads -> SUBSET SUBSET Paras]
      /\ owner \in [{chapterId} -> Threads \cup {NoThread}]
  BY <1>2, BoundAssumption
<1>7. Typed
  BY <1>2, <1>4, <1>5, <1>6 DEF Typed
<1>8. i.at = "idle" /\ i.op = "open"
  BY <1>0 DEF IdleReq
<1>9. \A u \in Threads : req[u].at = "idle" /\ req[u].op = "open"
  BY <1>2, <1>8
<1> QED
  BY <1>7, <1>9 DEF Basic, Scope, InScope, Raced, Saving, Active, Sane

\* and every step keeps it.
LEMMA StepBasic == Basic /\ [Next]_vars => Basic'
<1> SUFFICES ASSUME Basic, [Next]_vars PROVE Basic'
  OBVIOUS
<1>1. CASE UNCHANGED vars
  BY <1>1 DEF vars, Basic, Typed, Scope, Raced, Saving, Active
<1>2. CASE Edit \/ Crash
  BY <1>2, EditBasic, CrashBasic
<1>3. ASSUME NEW t \in Threads, Request(t) PROVE Basic'
  <2>1. Typed
    BY DEF Basic
  <2>2. PICK op \in Operations : \E arg \in Arguments :
             /\ Begin(t, op, arg)
             /\ op = "save" => arg \in Texts
             /\ op = "rename" => arg \in Titles
             /\ op = "move" => arg \in Acts
    BY <1>3, <2>1, RequestEffect
  <2>3. PICK arg \in Arguments :
             /\ Begin(t, op, arg)
             /\ op = "save" => arg \in Texts
             /\ op = "rename" => arg \in Titles
             /\ op = "move" => arg \in Acts
    BY <2>2
  <2> QED
    BY <2>3, BeginBasic
<1>4. ASSUME NEW t \in Threads, ServeStep(t) PROVE Basic'
  BY <1>4, ServeBasic
<1> QED
  BY <1>1, <1>2, <1>3, <1>4 DEF Next

\* The types of the model are part of it.
LEMMA TypesInBasic == Basic /\ Tracks => TypeOK
  BY DEF Basic, Typed, Tracks, TypeOK, GraphRecord, Bodies, Contents, ReqRecord, Operations,
     Arguments, Mutex!MutexTypeOK

\* Git tracks files of the places there are, at first and after every step.
LEMMA InitTracks == Init => Tracks
  BY DEF Init, Tracks, Present

LEMMA StepTracks == Basic /\ Tracks /\ [Next]_vars => Tracks'
<1> SUFFICES ASSUME Basic, Tracks, [Next]_vars PROVE Tracks'
  OBVIOUS
<1>1. CASE UNCHANGED vars
  BY <1>1 DEF vars, Tracks
<1>2. CASE Edit \/ Crash
  BY <1>2 DEF Edit, Crash, Tracks
<1>3. ASSUME NEW t \in Threads, Request(t) PROVE Tracks'
  BY <1>3 DEF Request, Begin, Tracks
<1>4. ASSUME NEW t \in Threads, ServeStep(t) PROVE Tracks'
  <2>1. CASE RenameFile(t)
    <3>1. req[t].ch.act \in Acts /\ req[t].arg \in Titles
      BY <2>1 DEF RenameFile, At, Basic, Typed, ReqRecord, ChapterRecord, Sane
    <3>2. <<req[t].ch.act, req[t].arg>> \in Places
      BY <3>1 DEF Places
    <3> QED
      BY <2>1, <3>2 DEF RenameFile, Tracks
  <2>2. CASE LeaveScope(t) \/ Snapshot(t) \/ RemoveFile(t)
    BY <2>2 DEF LeaveScope, Snapshot, RemoveFile, Present, Tracks
  <2>3. CASE ~RenameFile(t) /\ ~LeaveScope(t) /\ ~Snapshot(t) /\ ~RemoveFile(t)
    <3>1. tracked' = tracked
      BY <1>4, <2>3 DEF ServeStep, Load, EnterScope, Choose, Truncate, Write, Read, DiffGone,
         DiffBlank, Diff, CommitFails, SaveParagraph, SaveChapter, TruncateBack, WriteBack,
         Retitle, Adopt, Drop, Answer
    <3> QED
      BY <3>1 DEF Tracks
  <2> QED
    BY <2>1, <2>2, <2>3
<1> QED
  BY <1>1, <1>2, <1>3, <1>4 DEF Next

\* The variables keep their types: chapter, files, lock, requests and history.
THEOREM TypesHold == Spec => []TypeOK
  BY TypesInBasic, InitBasic, StepBasic, InitTracks, StepTracks, PTL DEF Spec

-----------------------------------------------------------------------------
\* A call that displaces the chapter is served alone.
Apart ==
    \A t, u \in Threads : t # u /\ Active(t) /\ Active(u) => req[t].op \notin Displacing

\* A request that has loaded the chapter works where the chapter is.
Placed(t) ==
    LET r == req[t] IN
    /\ r.at \notin {"idle", "load", "answer"} => graph.live
    /\ r.at \notin {"idle", "load", "answer", "rename_file"} => r.path = Here
    /\ r.at \in {"write", "back_write"} => r.fd = r.path
    /\ r.at = "paragraphs" => r.fresh.title = graph.title /\ r.fresh.act = graph.act
    /\ r.at \in {"retitle", "rename_file"} => r.ch.act = graph.act
    /\ r.at = "retitle" => r.ch.title = graph.title
    /\ r.at = "adopt" => r.ch.act = graph.act
    /\ r.at = "rename_file" => /\ r.path = <<r.ch.act, r.ch.title>>
                               /\ graph.title = r.arg /\ r.arg # r.ch.title

\* Where a file may be: at the chapter's place, or at the one it had before
\* the rename that is about to move the file; and nowhere after a removal.
HomeOf(f) ==
    /\ \A t \in Threads : ~At(t, "drop")
    /\ \A t \in Threads : At(t, "rename_file") => f = req[t].path
    /\ f = Here \/ \E t \in Threads : At(t, "rename_file")

Homed == \A f \in Places : files[f] # NoFile => graph.live /\ HomeOf(f)

Together == ~parted => Apart /\ Homed /\ \A t \in Threads : Placed(t)

\* Nobody is about to displace the chapter.
Displaces(r) == r.at \in {"retitle", "rename_file", "adopt", "remove_file", "drop"}

\* While a save or an open is served, nobody is at a step that displaces.
LEMMA NobodyDisplaces ==
    ASSUME Basic, Apart, NEW t \in Threads, Active(t), req[t].op \in {"save", "open"}
    PROVE  \A u \in Threads : ~Displaces(req[u])
<1> SUFFICES ASSUME NEW u \in Threads, Displaces(req[u]) PROVE FALSE
  OBVIOUS
<1>1. req[u].op \in Displacing /\ Active(u)
  BY DEF Basic, Sane, Displaces, Displacing, Active
<1>2. u # t
  BY <1>1 DEF Displacing
<1> QED
  BY <1>1, <1>2 DEF Apart

\* While a rename, move or delete is served, every other thread is idle.
LEMMA AloneDisplaces ==
    ASSUME Apart, NEW t \in Threads, Active(t), req[t].op \in Displacing
    PROVE  \A u \in Threads \ {t} : req[u].at = "idle"
  BY DEF Apart, Active

\* A step of a request starts none, so it keeps Apart.
LEMMA ApartStep ==
    ASSUME Basic, Apart, NEW t \in Threads, ServeStep(t)
    PROVE  Apart'
<1>1. Serving(t)
  BY StepServes DEF Basic
<1>2. \A u \in Threads : Active(u)' => Active(u) /\ req'[u].op = req[u].op
  BY <1>1 DEF Serving, Active
<1> QED
  BY <1>2 DEF Apart

\* Chapter and file, once parted, stay so: a step is from together only.
LEMMA PartedStays ==
    ASSUME Next, ~parted'
    PROVE  ~parted
<1>1. CASE Edit \/ Crash
  BY <1>1 DEF Edit, Crash
<1>2. ASSUME NEW t \in Threads, Request(t) PROVE ~parted
  BY <1>2 DEF Request, Begin
<1>3. ASSUME NEW t \in Threads, ServeStep(t) PROVE ~parted
  <2>1. CASE Adopt(t) \/ RenameFile(t)
    BY <2>1 DEF Adopt, RenameFile
  <2>2. CASE ~Adopt(t) /\ ~RenameFile(t)
    BY <1>3, <2>2 DEF ServeStep, Load, EnterScope, Choose, Truncate, Write,
     Read, DiffGone, DiffBlank, Diff, CommitFails, SaveParagraph, SaveChapter, TruncateBack,
     WriteBack, LeaveScope, Retitle, Snapshot, RemoveFile, Drop, Answer
  <2> QED
    BY <2>1, <2>2
<1> QED
  BY <1>1, <1>2, <1>3 DEF Next

(***************************************************************************)
(* A save or an open writes to the place of the chapter only and leaves    *)
(* the chapter where it is.                                                *)
(***************************************************************************)
LEMMA WritesHere ==
    ASSUME Basic, NEW t \in Threads, Placed(t), ServeStep(t), req[t].op \in {"save", "open"}
    PROVE  /\ graph'.live = graph.live /\ graph'.title = graph.title /\ graph'.act = graph.act
           /\ \A f \in Places : files'[f] = files[f] \/ (f = Here /\ graph.live)
           /\ Others(t)
<1>0. /\ Typed /\ Sane(req[t]) /\ Typed' /\ req[t].op \notin {"rename", "move", "delete"}
      /\ req[t].fd # NoFile => req[t].fd \in Places
  BY ServeBasic DEF Basic, Typed, ReqRecord
<1>1. CASE Load(t)
  <2>1. Others(t)
    BY <1>0, <1>1, LoadEffect
  <2>2. graph' = graph /\ files' = files
    BY <1>1 DEF Load
  <2> QED
    BY <2>1, <2>2
<1>2. CASE EnterScope(t) \/ Choose(t) \/ DiffGone(t) \/ DiffBlank(t) \/ CommitFails(t)
           \/ LeaveScope(t)
  <2>1. Others(t)
    <3>1. req' = [req EXCEPT ![t] = req'[t]]
      BY <1>0, <1>2 DEF EnterScope, Choose, DiffGone, DiffBlank, CommitFails, LeaveScope, Goto,
         Raises, Typed
    <3> QED
      BY <1>0, <3>1 DEF Others, Typed
  <2> QED
    <3>1. graph' = graph /\ files' = files
      BY <1>2 DEF EnterScope, Choose, DiffGone, DiffBlank, CommitFails, LeaveScope
    <3> QED
      BY <2>1, <3>1
<1>3. CASE Truncate(t) \/ TruncateBack(t)
  <2>1. Others(t)
    BY <1>0, <1>3 DEF Truncate, TruncateBack, Raises, Others, Typed
  <2>2. req[t].path = Here /\ graph.live /\ graph' = graph
    BY <1>3 DEF Truncate, TruncateBack, At, Placed
  <2>3. files' = files \/ files' = [files EXCEPT ![req[t].path] = Blank]
    BY <1>3 DEF Truncate, TruncateBack
  <2> QED
    BY <1>0, <2>1, <2>2, <2>3 DEF Typed
<1>4. CASE Write(t) \/ WriteBack(t)
  <2>1. Others(t)
    BY <1>0, <1>4 DEF Write, WriteBack, Goto, Others, Typed
  <2>2. req[t].fd = Here /\ graph.live /\ graph' = graph
    BY <1>4 DEF Write, WriteBack, At, Placed
  <2>3. \A f \in Places : files'[f] = files[f] \/ f = Here
    BY <1>0, <1>4, <2>2 DEF Write, WriteBack, Filled, Typed
  <2> QED
    BY <2>1, <2>2, <2>3
<1>5. CASE Read(t)
  <2>1. Others(t)
    BY <1>0, <1>5, ReadEffect
  <2>2. graph' = graph /\ files' = files
    BY <1>5 DEF Read
  <2> QED
    BY <2>1, <2>2
<1>6. CASE Diff(t)
  <2>1. Others(t)
    BY <1>0, <1>6, DiffEffect
  <2>2. graph' = graph /\ files' = files
    BY <1>6 DEF Diff
  <2> QED
    BY <2>1, <2>2
<1>7. CASE SaveParagraph(t)
  <2>1. /\ Others(t)
        /\ graph'.live = graph.live /\ graph'.title = graph.title /\ graph'.act = graph.act
    BY <1>0, <1>7, SaveParagraphEffect
  <2>2. files' = files
    BY <1>7 DEF SaveParagraph
  <2> QED
    BY <2>1, <2>2
<1>8. CASE SaveChapter(t)
  <2>1. /\ graph.live /\ req[t].fresh.title = graph.title /\ req[t].fresh.act = graph.act
        /\ graph \in GraphRecord
    BY <1>0, <1>8 DEF SaveChapter, At, Placed, Typed
  <2>2. req[t].fresh.title \in Titles /\ req[t].fresh.act \in Acts
    BY <1>0 DEF Typed, ReqRecord, ChapterRecord
  <2>3. graph'.live /\ graph'.title = graph.title /\ graph'.act = graph.act
    BY <1>8, <2>1, <2>2, ChapterChangedEffect DEF SaveChapter
  <2>4. Others(t) /\ files' = files
    BY <1>0, <1>8 DEF SaveChapter, Goto, Others, Typed
  <2>5. graph'.live \in BOOLEAN /\ graph.live \in BOOLEAN
    BY <1>0 DEF Typed, GraphRecord
  <2> QED
    BY <2>1, <2>3, <2>4, <2>5
<1>9. CASE Answer(t)
  <2>1. Others(t)
    BY <1>0, <1>9, AnswerEffect
  <2>2. graph' = graph /\ files' = files
    BY <1>9 DEF Answer
  <2> QED
    BY <2>1, <2>2
<1>10. ~(Retitle(t) \/ RenameFile(t) \/ Snapshot(t) \/ Adopt(t) \/ RemoveFile(t) \/ Drop(t))
  BY <1>0 DEF Retitle, RenameFile, Snapshot, Adopt, RemoveFile, Drop, At, Sane
<1> QED
  BY <1>1, <1>2, <1>3, <1>4, <1>5, <1>6, <1>7, <1>8, <1>9, <1>10 DEF ServeStep

\* A save or an open stays at the place of the chapter.
LEMMA PlacedAfter ==
    ASSUME Basic, NEW t \in Threads, Placed(t), ServeStep(t), req[t].op \in {"save", "open"}
    PROVE  Placed(t)'
<1>0. /\ Typed /\ Sane(req[t]) /\ req[t].op \notin {"rename", "move", "delete"}
      /\ req'[t].op \in {"save", "open"} /\ Sane(req'[t])
  BY StepServes DEF Basic, Serving
<1>1. /\ graph'.live = graph.live /\ graph'.title = graph.title /\ graph'.act = graph.act
      /\ Here' = Here
  BY WritesHere DEF Here
<1>2. ~Displaces(req'[t])
  BY <1>0 DEF Sane, Displaces
\* What is left to show, the displacing steps being none of this request's.
<1> SUFFICES /\ req'[t].at \notin {"idle", "load", "answer"} => graph.live /\ req'[t].path = Here
             /\ req'[t].at \in {"write", "back_write"} => req'[t].fd = req'[t].path
             /\ req'[t].at = "paragraphs" => /\ req'[t].fresh.title = graph.title
                                             /\ req'[t].fresh.act = graph.act
  BY <1>1, <1>2 DEF Placed, Displaces
<1>3. CASE Load(t)
  <2>1. \/ graph.live /\ req'[t].path = Here /\ req'[t].at = FirstStep(req[t].op)
        \/ req'[t].at = "answer"
    BY <1>0, <1>3, LoadEffect
  <2>2. FirstStep(req[t].op) = "enter"
    BY DEF FirstStep
  <2> QED
    BY <2>1, <2>2
\* Past the load the chapter is live and the path is its place.
<1>4. CASE ~Load(t) /\ ~Answer(t)
  <2>1. /\ req[t].at \notin {"idle", "load"}
        /\ req[t].at = "answer" => FALSE
    BY <1>4 DEF ServeStep, EnterScope, Choose, Truncate, Write, Read, DiffGone, DiffBlank, Diff,
       CommitFails, Commits, SaveParagraph, SaveChapter, TruncateBack, WriteBack, LeaveScope,
       Retitle, RenameFile, Snapshot, Adopt, RemoveFile, Drop, At
  <2>2. graph.live /\ req[t].path = Here
    BY <1>0, <2>1 DEF Placed, Sane
  <2>3. CASE EnterScope(t) \/ LeaveScope(t) \/ Choose(t) \/ Write(t) \/ SaveChapter(t)
             \/ WriteBack(t)
    <3>1. PICK s \in {"locked", "answer", "truncate", "read", "leave", "back"} :
            s \in Steps /\ Goto(t, s)
      BY <1>0, <2>3 DEF EnterScope, LeaveScope, Choose, Write, SaveChapter, WriteBack, Steps
    <3>2. req'[t].at = s /\ req'[t].path = req[t].path
      BY <1>0, <3>1, GotoEffect DEF Only
    <3> QED
      BY <2>2, <3>2
  <2>4. CASE DiffGone(t) \/ DiffBlank(t) \/ CommitFails(t)
    <3>1. PICK s \in {"leave", "answer"} :
            s \in Steps /\ req' = [req EXCEPT ![t].ok = FALSE, ![t].at = s]
      BY <2>4 DEF DiffGone, DiffBlank, CommitFails, Raises, Steps
    <3>2. req'[t].at = s /\ req'[t].path = req[t].path
      BY <1>0, <3>1, RaiseEffect DEF Only
    <3> QED
      BY <2>2, <3>2
  <2>5. CASE Truncate(t) \/ TruncateBack(t)
    <3>1. \/ \E s \in {"write", "back_write"} :
               s \in Steps /\ req' = [req EXCEPT ![t].fd = req[t].path, ![t].at = s]
          \/ "leave" \in Steps /\ req' = [req EXCEPT ![t].ok = FALSE, ![t].at = "leave"]
      BY <2>5 DEF Truncate, TruncateBack, Raises, Steps
    <3>2. CASE "leave" \in Steps /\ req' = [req EXCEPT ![t].ok = FALSE, ![t].at = "leave"]
      <4>1. req'[t].at = "leave" /\ req'[t].path = req[t].path
        BY <1>0, <3>2, RaiseEffect DEF Only
      <4> QED
        BY <2>2, <4>1
    <3>3. ASSUME NEW s \in {"write", "back_write"},
                 s \in Steps /\ req' = [req EXCEPT ![t].fd = req[t].path, ![t].at = s]
          PROVE  req'[t].at = s /\ req'[t].path = req[t].path /\ req'[t].fd = req[t].path
      BY <1>0, <3>3, OpenType DEF Typed, Only
    <3> QED
      BY <2>2, <3>1, <3>2, <3>3
  <2>6. CASE Read(t)
    <3>1. req'[t].at \in {"diff", "leave"} /\ req'[t].path = req[t].path
      BY <1>0, <2>6, ReadEffect DEF Only
    <3> QED
      BY <2>2, <3>1
  <2>7. CASE Diff(t)
    <3>1. /\ req'[t].at \in {"leave", "paragraphs"} /\ req'[t].path = req[t].path
          /\ req'[t].fresh.title = graph.title /\ req'[t].fresh.act = graph.act
      BY <1>0, <2>7, DiffEffect DEF Only
    <3> QED
      BY <2>2, <3>1
  <2>8. CASE SaveParagraph(t)
    <3>1. req'[t].at = req[t].at /\ req'[t].path = req[t].path /\ req'[t].fresh = req[t].fresh
      BY <1>0, <2>8, SaveParagraphEffect DEF Only
    <3>2. req[t].at = "paragraphs"
      BY <2>8 DEF SaveParagraph, At
    <3> QED
      BY <2>2, <3>1, <3>2 DEF Placed
  <2>9. ~(Retitle(t) \/ RenameFile(t) \/ Snapshot(t) \/ Adopt(t) \/ RemoveFile(t) \/ Drop(t))
    BY <1>0 DEF Retitle, RenameFile, Snapshot, Adopt, RemoveFile, Drop, At, Sane
  <2> QED
    BY <1>4, <2>3, <2>4, <2>5, <2>6, <2>7, <2>8, <2>9 DEF ServeStep
<1>5. CASE Answer(t)
  BY <1>0, <1>5, AnswerEffect
<1> QED
  BY <1>3, <1>4, <1>5

(***************************************************************************)
(* Where nobody displaces the chapter a file is at its place.              *)
(***************************************************************************)
LEMMA HomedPlainly ==
    ASSUME \A u \in Threads : ~Displaces(req[u])
    PROVE  Homed <=> \A f \in Places : files[f] # NoFile => graph.live /\ f = Here
  BY DEF Homed, HomeOf, Displaces, At

\* A step of a save or an open keeps chapter and file together;
LEMMA SaveTogether ==
    ASSUME Basic, Apart, Homed, \A u \in Threads : Placed(u),
           NEW t \in Threads, ServeStep(t), req[t].op \in {"save", "open"}
    PROVE  Homed' /\ \A u \in Threads : Placed(u)'
<1>1. /\ graph'.live = graph.live /\ graph'.title = graph.title /\ graph'.act = graph.act
      /\ Here' = Here
      /\ \A f \in Places : files'[f] = files[f] \/ (f = Here /\ graph.live)
      /\ \A u \in Threads \ {t} : req'[u] = req[u]
  BY WritesHere DEF Here, Others
<1>2. Active(t) /\ req'[t].op = req[t].op
  BY StepServes DEF Basic, Serving
<1>3. \A u \in Threads : ~Displaces(req[u])
  BY <1>2, NobodyDisplaces
<1>4. Sane(req'[t])
  BY StepServes DEF Basic
<1>5. \A u \in Threads : ~Displaces(req'[u])
  BY <1>1, <1>2, <1>3, <1>4 DEF Sane, Displaces
<1>6. \A f \in Places : files'[f] # NoFile => graph'.live /\ f = Here'
  BY <1>1, <1>3, HomedPlainly
<1>7. Homed'
  BY <1>5, <1>6 DEF Homed, HomeOf, Displaces, At
<1>8. \A u \in Threads \ {t} : Placed(u)'
  BY <1>1 DEF Placed
<1>9. Placed(t)'
  BY PlacedAfter
<1> QED
  BY <1>7, <1>8, <1>9

(***************************************************************************)
(* A rename, move or delete, which is served alone.                        *)
(***************************************************************************)
LEMMA DisplaceTogether ==
    ASSUME Basic, Homed, NEW t \in Threads, Placed(t), ServeStep(t), ~parted',
           req[t].op \in {"rename", "move", "delete"},
           \A u \in Threads \ {t} : req[u].at = "idle"
    PROVE  Homed' /\ \A u \in Threads : Placed(u)'
<1>0. /\ Typed /\ Sane(req[t]) /\ Sane(req'[t]) /\ req[t].op \notin {"save", "open"}
      /\ req'[t].op = req[t].op /\ req'[t].arg = req[t].arg
      /\ \A u \in Threads \ {t} : req'[u].at = "idle"
  BY StepServes DEF Basic, Serving
<1>1. \A u \in Threads \ {t} : Placed(u)'
  BY <1>0 DEF Placed
<1> DEFINE Place(r, f) ==
             /\ r.at # "drop"
             /\ r.at = "rename_file" => f = r.path
<1>2. \A f \in Places : files[f] # NoFile =>
        /\ graph.live /\ Place(req[t], f)
        /\ f = Here \/ req[t].at = "rename_file"
  BY DEF Homed, HomeOf, At
<1> SUFFICES /\ Placed(t)'
             /\ \A f \in Places : files'[f] # NoFile =>
                  /\ graph'.live /\ Place(req'[t], f)
                  /\ f = Here' \/ req'[t].at = "rename_file"
  BY <1>0, <1>1 DEF Homed, HomeOf, At
<1>3. CASE Load(t)
  <2>1. /\ graph' = graph /\ files' = files /\ Here' = Here /\ req[t].at = "load"
    BY <1>3 DEF Load, Here, At
  <2>2. \/ /\ graph.live /\ req'[t].path = Here /\ req'[t].at = FirstStep(req[t].op)
           /\ req'[t].ch.title = graph.title /\ req'[t].ch.act = graph.act
        \/ req'[t].at = "answer"
    <3>1. CASE graph.live
      <4>1. /\ req'[t].ch = [title |-> graph.title, act |-> graph.act,
                              paras |-> Listed(graph.body)]
            /\ req'[t].path = Here /\ req'[t].at = FirstStep(req[t].op)
        BY <1>0, <1>3, <3>1, LoadEffect
      <4> QED
        BY <3>1, <4>1
    <3>2. CASE ~graph.live
      BY <1>0, <1>3, <3>2, LoadEffect
    <3> QED
      BY <3>1, <3>2
  <2>3. FirstStep(req[t].op) \in {"retitle", "adopt", "remove_file"}
    BY DEF FirstStep
  <2>4. Placed(t)'
    <3>1. req'[t].at \in {"retitle", "adopt", "remove_file", "answer"}
      BY <2>2, <2>3
    <3>2. req'[t].at # "answer" =>
             /\ graph'.live /\ req'[t].path = Here'
             /\ req'[t].ch.title = graph'.title /\ req'[t].ch.act = graph'.act
      BY <2>1, <2>2
    <3> QED
      BY <3>1, <3>2 DEF Placed
  <2>5. \A f \in Places : files'[f] # NoFile => graph'.live /\ f = Here'
    BY <1>2, <2>1
  <2>6. req'[t].at \notin {"drop", "rename_file"}
    BY <2>2, <2>3
  <2> QED
    BY <2>4, <2>5, <2>6
<1>4. CASE Truncate(t)
  <2>1. /\ "write" \in Steps /\ req' = [req EXCEPT ![t].fd = req[t].path, ![t].at = "write"]
        /\ graph' = graph /\ files' = [files EXCEPT ![req[t].path] = Blank] /\ Here' = Here
        /\ req[t].at = "truncate"
    BY <1>4 DEF Truncate, Here, At, Steps
  <2>2. req'[t].at = "write" /\ req'[t].path = req[t].path /\ req'[t].fd = req[t].path
    <3>1. req \in [Threads -> ReqRecord] /\ req'[t].at = "write" /\ Only(t, {"at", "fd"})
      BY <1>0, <2>1, OpenType DEF Typed
    <3>2. req'[t].fd = req[t].path
      BY <2>1, <3>1, OpenType
    <3> QED
      BY <3>1, <3>2 DEF Only
  <2>3. req[t].path = Here /\ graph.live
    BY <2>1 DEF Placed
  <2>4. \A f \in Places : files'[f] = files[f] \/ f = Here
    BY <1>0, <2>1, <2>3 DEF Typed
  <2>5. Placed(t)'
    BY <2>1, <2>2, <2>3 DEF Placed
  <2>6. \A f \in Places : files'[f] # NoFile => graph'.live /\ f = Here'
    BY <1>2, <2>1, <2>3, <2>4
  <2> QED
    BY <2>2, <2>5, <2>6
<1>5. CASE Write(t)
  <2>1. req[t].op = "rename" /\ req[t].at = "write"
    BY <1>0, <1>5 DEF Write, At, Sane
  <2>2. /\ "snapshot" \in Steps /\ Goto(t, "snapshot") /\ graph' = graph /\ Here' = Here
        /\ files' = Filled(t, req[t].text)
    BY <1>5, <2>1 DEF Write, Here, Steps
  <2>3. req'[t].at = "snapshot" /\ req'[t].path = req[t].path
    BY <1>0, <2>2, GotoEffect DEF Only
  <2>4. req[t].fd = Here /\ req[t].path = Here /\ graph.live
    BY <2>1 DEF Placed
  <2>5. \A f \in Places : files'[f] = files[f] \/ f = Here
    BY <1>0, <2>2, <2>4 DEF Typed, Filled
  <2> QED
    BY <1>2, <2>1, <2>2, <2>3, <2>4, <2>5 DEF Placed
<1>6. CASE CommitFails(t)
  <2>1. /\ graph' = graph /\ files' = files /\ Here' = Here
        /\ req[t].at \in {"retitle", "drop", "adopt"}
    BY <1>0, <1>6 DEF CommitFails, Commits, Here, At, Sane
  <2>2. "answer" \in Steps /\ req' = [req EXCEPT ![t].ok = FALSE, ![t].at = "answer"]
    BY <1>6, <2>1 DEF CommitFails, At, Steps
  <2>3. req'[t].at = "answer"
    BY <1>0, <2>2, RaiseEffect
  <2> QED
    BY <1>2, <2>1, <2>3 DEF Placed
<1>7. CASE Retitle(t)
  <2>1. /\ req[t].at = "retitle" /\ req[t].op = "rename" /\ files' = files
        /\ ChapterChanged(req[t].arg, req[t].ch.act, req[t].ch.paras)
    BY <1>0, <1>7 DEF Retitle, At, Sane
  <2>2. req[t].arg \in Titles /\ req[t].ch.act \in Acts /\ graph \in GraphRecord
    BY <1>0, <2>1 DEF Sane, Typed, ReqRecord, ChapterRecord
  <2>3. graph'.live = TRUE /\ graph'.title = req[t].arg /\ graph'.act = req[t].ch.act
    BY <2>1, <2>2, ChapterChangedEffect
  <2>4. PICK s \in Steps : s = IF req[t].arg = req[t].ch.title THEN "answer" ELSE "rename_file"
    BY DEF Steps
  <2>5. Goto(t, s)
    BY <1>7, <2>4 DEF Retitle
  <2>6. req'[t].at = s /\ req'[t].path = req[t].path /\ req'[t].ch = req[t].ch
    BY <1>0, <2>5, GotoEffect DEF Only
  <2>7. /\ req[t].path = Here /\ req[t].ch.act = graph.act /\ req[t].ch.title = graph.title
        /\ Here = <<graph.act, graph.title>> /\ Here' = <<graph'.act, graph'.title>>
    BY <2>1 DEF Placed, Here
  <2>8. Placed(t)'
    BY <1>0, <2>3, <2>4, <2>6, <2>7 DEF Placed
  <2>9. req'[t].at = "rename_file" \/ (req'[t].at = "answer" /\ Here' = Here)
    BY <2>3, <2>4, <2>6, <2>7
  <2> QED
    BY <1>2, <2>1, <2>3, <2>6, <2>7, <2>8, <2>9
<1>8. CASE RenameFile(t)
  <2>1. /\ req[t].at = "rename_file" /\ graph' = graph /\ Here' = Here
        /\ Here = <<graph.act, graph.title>>
    BY <1>8 DEF RenameFile, At, Here
  <2>2. /\ req[t].path = <<req[t].ch.act, req[t].ch.title>> /\ graph.title = req[t].arg
        /\ req[t].ch.act = graph.act /\ req[t].arg # req[t].ch.title /\ graph.live
    BY <2>1 DEF Placed
  <2>3. /\ req[t].path \in Places /\ <<req[t].ch.act, req[t].arg>> = Here /\ Here \in Places
        /\ req[t].path # Here
    BY <1>0, <2>1, <2>2 DEF Typed, ReqRecord, GraphRecord, Places
  <2>4. \A f \in Places : files[f] # NoFile => f = req[t].path
    BY <1>2, <2>1
  <2>5. files[Here] = NoFile
    BY <2>3, <2>4
  <2>6. CASE files[req[t].path] = NoFile
    <3>1. req'[t].at = "answer" /\ files' = files
      BY <1>0, <1>8, <2>6, RenameEffect
    <3> QED
      BY <2>4, <2>6, <3>1 DEF Placed
  <2>7. CASE files[req[t].path] # NoFile
    <3>1. /\ req'[t].at = "truncate" /\ req'[t].path = Here
          /\ files' = [files EXCEPT ![Here] = files[req[t].path], ![req[t].path] = NoFile]
      BY <1>0, <1>8, <2>3, <2>5, <2>7, RenameEffect
    <3>2. \A f \in Places : files'[f] # NoFile => f = Here
      BY <1>0, <2>3, <2>4, <3>1 DEF Typed
    <3> QED
      BY <2>1, <2>2, <3>1, <3>2 DEF Placed
  <2> QED
    BY <2>6, <2>7
<1>9. CASE Adopt(t)
  <2>1. /\ req[t].arg = req[t].ch.act /\ graph' = graph /\ files' = files /\ Here' = Here
        /\ req[t].at = "adopt" /\ "answer" \in Steps /\ Goto(t, "answer")
    BY <1>9 DEF Adopt, Here, At, Steps
  <2>2. req'[t].at = "answer"
    BY <1>0, <2>1, GotoEffect
  <2> QED
    BY <1>2, <2>1, <2>2 DEF Placed
<1>10. CASE RemoveFile(t)
  <2>1. /\ files' = [files EXCEPT ![req[t].path] = NoFile] /\ graph' = graph /\ Here' = Here
        /\ req[t].at = "remove_file"
    BY <1>10 DEF RemoveFile, At, Here
  <2>2. req[t].path = Here /\ graph.live
    BY <2>1 DEF Placed
  <2>3. req'[t].at = "drop" /\ req'[t].path = req[t].path
    BY <1>0, <1>10, RemoveEffect DEF Only
  <2>4. \A f \in Places : files'[f] = NoFile
    BY <1>0, <1>2, <2>1, <2>2 DEF Typed
  <2> QED
    BY <2>1, <2>2, <2>3, <2>4 DEF Placed
<1>11. CASE Drop(t)
  <2>1. files' = files /\ req[t].at = "drop" /\ "answer" \in Steps /\ Goto(t, "answer")
    BY <1>11 DEF Drop, At, Steps
  <2>2. req'[t].at = "answer"
    BY <1>0, <2>1, GotoEffect
  <2> QED
    BY <1>2, <2>1, <2>2 DEF Placed
<1>12. CASE Answer(t)
  <2>1. /\ graph' = graph /\ files' = files /\ Here' = Here /\ req[t].at = "answer"
    BY <1>12 DEF Answer, Here, At
  <2>2. req'[t].at = "idle"
    BY <1>0, <1>12, AnswerEffect
  <2> QED
    BY <1>2, <2>1, <2>2 DEF Placed
<1>13. CASE Snapshot(t)
  <2>1. /\ graph' = graph /\ files' = files /\ Here' = Here /\ req[t].at = "snapshot"
        /\ "answer" \in Steps /\ Goto(t, "answer")
    BY <1>13 DEF Snapshot, Here, At, Steps
  <2>2. req'[t].at = "answer"
    BY <1>0, <2>1, GotoEffect
  <2> QED
    BY <1>2, <2>1, <2>2 DEF Placed
<1>14. ~(\/ EnterScope(t) \/ Choose(t) \/ Read(t) \/ DiffGone(t) \/ DiffBlank(t) \/ Diff(t)
         \/ SaveParagraph(t) \/ SaveChapter(t) \/ TruncateBack(t) \/ WriteBack(t) \/ LeaveScope(t))
  BY <1>0 DEF EnterScope, Choose, Read, DiffGone, DiffBlank, Diff, SaveParagraph, SaveChapter,
     TruncateBack, WriteBack, LeaveScope, At, Sane
<1> QED
  BY <1>3, <1>4, <1>5, <1>6, <1>7, <1>8, <1>9, <1>10, <1>11, <1>12, <1>13, <1>14 DEF ServeStep

\* A step of any request keeps chapter and file together, or parts them;
LEMMA ServeTogether ==
    ASSUME Basic, Together, NEW t \in Threads, ServeStep(t)
    PROVE  Together'
<1> SUFFICES ASSUME ~parted' PROVE (Apart /\ Homed /\ \A u \in Threads : Placed(u))'
  BY DEF Together
<1>1. ~parted
  BY PartedStays DEF Next
<1>2. Apart /\ Homed /\ \A u \in Threads : Placed(u)
  BY <1>1 DEF Together
<1>3. Apart'
  BY <1>2, ApartStep
<1>4. Active(t) /\ req[t].op \in Operations
  BY StepServes DEF Basic, Serving, Typed, ReqRecord
<1>5. CASE req[t].op \in {"save", "open"}
  BY <1>2, <1>3, <1>5, SaveTogether
<1>6. CASE req[t].op \in Displacing
  <2>1. \A u \in Threads \ {t} : req[u].at = "idle"
    BY <1>2, <1>4, <1>6, AloneDisplaces
  <2>2. req[t].op \in {"rename", "move", "delete"} /\ Placed(t)
    BY <1>2, <1>6 DEF Displacing
  <2>3. Homed' /\ \A u \in Threads : Placed(u)'
    BY <1>2, <2>1, <2>2, DisplaceTogether
  <2> QED
    BY <1>3, <2>3
<1> QED
  BY <1>4, <1>5, <1>6 DEF Operations, Displacing

\* a new request does: one that displaces among others parts them,
LEMMA BeginTogether ==
    ASSUME Basic, Together, NEW t \in Threads, NEW op \in Operations, NEW arg \in Arguments,
           Begin(t, op, arg)
    PROVE  Together'
<1> SUFFICES ASSUME ~parted' PROVE (Apart /\ Homed /\ \A u \in Threads : Placed(u))'
  BY DEF Together
<1>1. /\ req'[t].op = op /\ req'[t].at = "load"
      /\ \A u \in Threads \ {t} : req'[u] = req[u]
  BY BeginEffect DEF Basic, Others
<1>2. /\ ~parted /\ graph' = graph /\ files' = files /\ Here' = Here /\ req[t].at = "idle"
      /\ \A u \in Threads : Active(u) => op \notin Displacing /\ req[u].op \notin Displacing
  BY DEF Begin, Here, Active
<1>3. Apart /\ Homed /\ \A u \in Threads : Placed(u)
  BY <1>2 DEF Together
<1>4. Apart'
  <2> SUFFICES ASSUME NEW u \in Threads, NEW v \in Threads, u # v,
                      req'[u].at # "idle", req'[v].at # "idle"
               PROVE  req'[u].op \notin Displacing
    BY DEF Apart, Active
  <2>1. CASE u = t
    BY <1>1, <1>2, <2>1 DEF Active
  <2>2. CASE u # t
    BY <1>1, <1>2, <1>3, <2>2 DEF Active, Apart
  <2> QED
    BY <2>1, <2>2
<1>5. Homed'
  BY <1>1, <1>2, <1>3 DEF Homed, HomeOf, At
<1>6. \A u \in Threads \ {t} : Placed(u)'
  BY <1>1, <1>2, <1>3 DEF Placed
<1>7. Placed(t)'
  BY <1>1 DEF Placed
<1> QED
  BY <1>4, <1>5, <1>6, <1>7

\* a crash does: one amid a rename or a delete parts them,
LEMMA CrashTogether ==
    ASSUME Basic, Together, Crash
    PROVE  Together'
<1> SUFFICES ASSUME ~parted' PROVE (Apart /\ Homed /\ \A u \in Threads : Placed(u))'
  BY DEF Together
<1>1. \A u \in Threads : req'[u] = IdleReq /\ req'[u].at = "idle"
  BY CrashBasic DEF Active
<1>2. /\ ~parted /\ graph' = graph /\ files' = files /\ Here' = Here
      /\ \A u \in Threads : Active(u) => req[u].op \notin Displacing
  BY DEF Crash, Here
<1>3. \A u \in Threads : ~Displaces(req[u])
  BY <1>2 DEF Basic, Sane, Displaces, Displacing, Active
<1>4. \A f \in Places : files[f] # NoFile => graph.live /\ f = Here
  BY <1>2, <1>3, HomedPlainly DEF Together
<1>5. Homed'
  BY <1>1, <1>2, <1>4 DEF Homed, HomeOf, At
<1>6. Apart' /\ \A u \in Threads : Placed(u)'
  BY <1>1 DEF Apart, Placed, Active
<1> QED
  BY <1>5, <1>6

\* and an edit does, which writes to the chapter's file.
LEMMA EditTogether ==
    ASSUME Basic, Together, Edit
    PROVE  Together'
<1>1. /\ graph' = graph /\ req' = req /\ parted' = parted /\ Here' = Here
      /\ graph.live
      /\ \E x \in Texts : files' = [files EXCEPT ![Here] = x]
      /\ \A u \in Threads : req[u].at = "idle"
  BY DEF Edit, Here, Quiet, Active
<1>2. \A f \in Places : files'[f] = files[f] \/ f = Here
  BY <1>1 DEF Basic, Typed
<1>3. ASSUME ~parted PROVE Apart' /\ Homed' /\ \A u \in Threads : Placed(u)'
  <2>1. Apart /\ Homed /\ \A u \in Threads : Placed(u)
    BY <1>3 DEF Together
  <2>2. Homed'
    BY <1>1, <1>2, <2>1 DEF Homed, HomeOf, At
  <2>3. Apart' /\ \A u \in Threads : Placed(u)'
    BY <1>1 DEF Apart, Placed, Active
  <2> QED
    BY <2>2, <2>3
<1> QED
  BY <1>1, <1>3 DEF Together

\* Chapter and file are together at first,
LEMMA InitTogether == Init => Together
<1> SUFFICES ASSUME Init PROVE Together
  OBVIOUS
<1>1. PICK text \in Texts, title \in Titles, act \in Acts, there \in BOOLEAN :
      /\ graph = [live |-> TRUE, title |-> title, act |-> act,
                  body |-> [p \in Paras |-> IF p \in text THEN "full" ELSE "absent"]]
      /\ files = [f \in Places |-> IF there /\ f = <<act, title>> THEN text ELSE NoFile]
      /\ allowed = {text}
  BY DEF Init
<1>2. \A u \in Threads : req[u].at = "idle"
  <2>1. IdleReq.at = "idle"
    BY DEF IdleReq
  <2>2. req = [u \in Threads |-> IdleReq]
    BY DEF Init
  <2> QED
    BY <2>1, <2>2
<1>3. graph.live /\ Here = <<act, title>>
  BY <1>1 DEF Here
<1>4. Homed
  BY <1>1, <1>2, <1>3 DEF Homed, HomeOf, At
<1> QED
  BY <1>2, <1>4 DEF Together, Apart, Placed, Active

\* and every step keeps them so or parts them.
LEMMA StepTogether == Basic /\ Together /\ [Next]_vars => Together'
<1> SUFFICES ASSUME Basic, Together, [Next]_vars PROVE Together'
  OBVIOUS
<1>1. CASE UNCHANGED vars
  <2>1. graph' = graph /\ files' = files /\ req' = req /\ parted' = parted /\ Here' = Here
    BY <1>1 DEF vars, Here
  <2> QED
    BY <2>1 DEF Together, Apart, Homed, HomeOf, Placed, Active, At
<1>2. CASE Edit \/ Crash
  BY <1>2, EditTogether, CrashTogether
<1>3. ASSUME NEW t \in Threads, Request(t) PROVE Together'
  <2>1. Typed
    BY DEF Basic
  <2>2. PICK op \in Operations : \E arg \in Arguments : Begin(t, op, arg)
    BY <1>3, <2>1, RequestEffect
  <2>3. PICK arg \in Arguments : Begin(t, op, arg)
    BY <2>2
  <2> QED
    BY <2>3, BeginTogether
<1>4. ASSUME NEW t \in Threads, ServeStep(t) PROVE Together'
  BY <1>4, ServeTogether
<1> QED
  BY <1>1, <1>2, <1>3, <1>4 DEF Next

\* A chapter has one file: between requests, unless a crash, a move, a rename that
\* git refused or a call that takes no lock has parted them, every file is at the
\* chapter's place.
THEOREM OneHome == Spec => []OneFile
<1>1. Basic /\ Tracks /\ Together => OneFile
  <2> SUFFICES ASSUME Basic, Tracks, Together, Quiet, ~parted
               PROVE  \A f \in Places : files[f] # NoFile => graph.live /\ f = Here
    BY TypesInBasic DEF OneFile
  <2>1. \A u \in Threads : ~Displaces(req[u])
    BY DEF Quiet, Active, Displaces
  <2> QED
    BY <2>1, HomedPlainly DEF Together
<1>2. Init => Basic /\ Tracks /\ Together
  BY InitBasic, InitTracks, InitTogether
<1>3. Basic /\ Tracks /\ Together /\ [Next]_vars => (Basic /\ Tracks /\ Together)'
  BY StepBasic, StepTracks, StepTogether
<1> QED
  BY <1>1, <1>2, <1>3, PTL DEF Spec

-----------------------------------------------------------------------------
(***************************************************************************)
(* What each step of a request does to the request, the chapter, the files *)
(* and the history.                                                        *)
(***************************************************************************)
Passes(t, from, to, K) ==
    /\ req[t].at = from
    /\ req'[t].at = to
    /\ Only(t, K)
    /\ Others(t)

Fails(t, from, to) == Passes(t, from, to, {"at", "ok"}) /\ req'[t].ok = FALSE

Unmoved == graph' = graph /\ files' = files
Unheard == poisoned' = poisoned /\ allowed' = allowed /\ overlap' = overlap

\* _load_chapter changes nothing but the request.
LEMMA LoadStep ==
    ASSUME NEW t \in Threads, Load(t)
    PROVE  req[t].at = "load" /\ Unmoved /\ Unheard
  BY DEF Load, At, Unmoved, Unheard

\* A request enters the save scope.
LEMMA EnterStep ==
    ASSUME Typed, NEW t \in Threads, EnterScope(t)
    PROVE  Passes(t, "enter", "locked", {"at"}) /\ Unmoved /\ Unheard
<1>1. "locked" \in Steps /\ Goto(t, "locked") /\ req[t].at = "enter" /\ Unmoved /\ Unheard
  BY DEF EnterScope, Steps, At, Unmoved, Unheard
<1> QED
  BY <1>1, GotoEffect DEF Passes

\* A save, and an open without a file, writes; an open with one reads.
LEMMA ChooseStep ==
    ASSUME Typed, NEW t \in Threads, Choose(t)
    PROVE  /\ Unmoved /\ Unheard
           /\ \/ /\ req[t].op = "save" \/ files[req[t].path] = NoFile
                 /\ Passes(t, "locked", "truncate", {"at"})
              \/ /\ req[t].op # "save" /\ files[req[t].path] # NoFile
                 /\ Passes(t, "locked", "read", {"at"})
<1>1. "truncate" \in Steps /\ "read" \in Steps /\ req[t].at = "locked" /\ Unmoved /\ Unheard
  BY DEF Choose, Steps, At, Unmoved, Unheard
<1>2. CASE req[t].op = "save" \/ files[req[t].path] = NoFile
  <2>1. Goto(t, "truncate")
    BY <1>2 DEF Choose
  <2> QED
    BY <1>1, <1>2, <2>1, GotoEffect DEF Passes
<1>3. CASE req[t].op # "save" /\ files[req[t].path] # NoFile
  <2>1. Goto(t, "read")
    BY <1>3 DEF Choose
  <2> QED
    BY <1>1, <1>3, <2>1, GotoEffect DEF Passes
<1> QED
  BY <1>2, <1>3

\* write_text opens its file for writing: it is empty.
LEMMA TruncateStep ==
    ASSUME Typed, NEW t \in Threads, Truncate(t)
    PROVE  /\ Passes(t, "truncate", "write", {"at", "fd"}) /\ req'[t].fd = req[t].path
           /\ graph' = graph /\ files' = [files EXCEPT ![req[t].path] = Blank] /\ Unheard
<1>1. /\ "write" \in Steps /\ req' = [req EXCEPT ![t].fd = req[t].path, ![t].at = "write"]
      /\ req[t].at = "truncate" /\ req \in [Threads -> ReqRecord]
  BY DEF Truncate, Steps, At, Typed
<1>2. graph' = graph /\ files' = [files EXCEPT ![req[t].path] = Blank] /\ Unheard
  BY DEF Truncate, Unheard
<1>3. /\ req'[t].at = "write" /\ req'[t].fd = req[t].path
      /\ Only(t, {"at", "fd"}) /\ Others(t)
  BY <1>1, OpenType
<1> QED
  BY <1>1, <1>2, <1>3 DEF Passes

\* Where a request goes once its text is written.
AfterWrite(op) == CASE op = "save" -> "read" [] op = "open" -> "leave" [] op = "rename" -> "snapshot"

\* write_text writes the text.
LEMMA WriteStep ==
    ASSUME Typed, NEW t \in Threads, Sane(req[t]), Write(t)
    PROVE  /\ req[t].op \in {"save", "open", "rename"}
           /\ Passes(t, "write", AfterWrite(req[t].op), {"at"})
           /\ graph' = graph /\ files' = Filled(t, req[t].text) /\ Unheard
<1>1. /\ req[t].op \in {"save", "open", "rename"} /\ req[t].at = "write"
      /\ graph' = graph /\ files' = Filled(t, req[t].text) /\ Unheard
  BY DEF Write, At, Sane, Unheard
<1>2. AfterWrite(req[t].op) \in Steps
  BY <1>1 DEF AfterWrite, Steps
<1>3. Goto(t, AfterWrite(req[t].op))
  BY DEF Write, AfterWrite
<1> QED
  BY <1>1, <1>2, <1>3, GotoEffect DEF Passes

\* The file that was written, or is there, is read.
LEMMA ReadStep ==
    ASSUME Typed, NEW t \in Threads, Read(t)
    PROVE  /\ Unmoved /\ Unheard
           /\ \/ /\ files[req[t].path] # NoFile /\ req'[t].seen = files[req[t].path]
                 /\ Passes(t, "read", "diff", {"at", "seen"})
              \/ files[req[t].path] = NoFile /\ Fails(t, "read", "leave")
<1>1. req[t].at = "read" /\ Unmoved /\ Unheard
  BY DEF Read, At, Unmoved, Unheard
<1> QED
  BY <1>1, ReadEffect DEF Passes, Fails

\* The chapter to compare with is gone.
LEMMA DiffGoneStep ==
    ASSUME Typed, NEW t \in Threads, DiffGone(t)
    PROVE  Fails(t, "diff", "leave") /\ ~graph.live /\ Unmoved /\ Unheard
<1>1. /\ "leave" \in Steps /\ req' = [req EXCEPT ![t].ok = FALSE, ![t].at = "leave"]
      /\ req[t].at = "diff" /\ ~graph.live /\ Unmoved /\ Unheard
  BY DEF DiffGone, Raises, Steps, At, Unmoved, Unheard
<1> QED
  BY <1>1, RaiseEffect DEF Passes, Fails

\* A file without front matter is refused, and leaves a model in the unit of work.
LEMMA DiffBlankStep ==
    ASSUME Typed, NEW t \in Threads, DiffBlank(t)
    PROVE  /\ Fails(t, "diff", "leave") /\ req[t].seen = Blank
           /\ Unmoved /\ allowed' = allowed /\ overlap' = overlap /\ poisoned' = TRUE
<1>1. /\ "leave" \in Steps /\ req' = [req EXCEPT ![t].ok = FALSE, ![t].at = "leave"]
      /\ req[t].at = "diff" /\ req[t].seen = Blank
      /\ Unmoved /\ allowed' = allowed /\ overlap' = overlap /\ poisoned' = TRUE
  BY DEF DiffBlank, Raises, Steps, At, Unmoved
<1> QED
  BY <1>1, RaiseEffect DEF Passes, Fails

\* The file is compared with the chapter as the graph has it.
LEMMA DiffStep ==
    ASSUME Typed, NEW t \in Threads, Diff(t)
    PROVE  /\ Unmoved /\ Unheard
           /\ graph.live /\ req[t].seen # Blank
           /\ req'[t].fresh.title = graph.title /\ req'[t].fresh.act = graph.act
           /\ req'[t].todo = req[t].seen \ Full(graph.body)
           /\ \/ /\ SameText(graph.body, req[t].seen)
                 /\ Passes(t, "diff", "leave", {"at", "fresh", "todo"})
              \/ /\ ~SameText(graph.body, req[t].seen)
                 /\ Passes(t, "diff", "paragraphs", {"at", "fresh", "todo"})
<1>1. req[t].at = "diff" /\ Unmoved /\ Unheard /\ graph.live /\ req[t].seen # Blank
  BY DEF Diff, At, Unmoved, Unheard
<1> QED
  BY <1>1, DiffEffect DEF Passes

\* A commit refused for a model left behind; the chapter of a delete stays.
LEMMA CommitFailsStep ==
    ASSUME Typed, NEW t \in Threads, CommitFails(t)
    PROVE  /\ poisoned /\ poisoned' = poisoned /\ Unmoved /\ overlap' = overlap
           /\ allowed' = (IF req[t].at = "drop" THEN allowed \cup {Full(graph.body)} ELSE allowed)
           /\ \/ Fails(t, "paragraphs", "leave")
              \/ Fails(t, "retitle", "answer")
              \/ Fails(t, "adopt", "answer")
              \/ Fails(t, "drop", "answer")
<1>1. /\ poisoned /\ poisoned' = poisoned /\ Unmoved /\ overlap' = overlap
      /\ allowed' = (IF req[t].at = "drop" THEN allowed \cup {Full(graph.body)} ELSE allowed)
      /\ req[t].at \in {"paragraphs", "retitle", "adopt", "drop"}
  BY DEF CommitFails, Commits, At, Unmoved
<1>2. CASE req[t].at = "paragraphs"
  <2>1. "leave" \in Steps /\ req' = [req EXCEPT ![t].ok = FALSE, ![t].at = "leave"]
    BY <1>2 DEF CommitFails, Raises, Steps, At
  <2> QED
    BY <1>1, <1>2, <2>1, RaiseEffect DEF Passes, Fails
<1>3. CASE req[t].at # "paragraphs"
  <2>1. "answer" \in Steps /\ req' = [req EXCEPT ![t].ok = FALSE, ![t].at = "answer"]
    BY <1>3 DEF CommitFails, Steps, At
  <2> QED
    BY <1>1, <1>3, <2>1, RaiseEffect DEF Passes, Fails
<1> QED
  BY <1>2, <1>3

\* The commit saves a paragraph.
LEMMA ParagraphStep ==
    ASSUME Typed, NEW t \in Threads, SaveParagraph(t)
    PROVE  /\ Passes(t, "paragraphs", "paragraphs", {"todo"}) /\ files' = files /\ Unheard
           /\ graph'.live = graph.live /\ graph'.title = graph.title /\ graph'.act = graph.act
           /\ \E p \in req[t].todo :
                /\ p \in Paras
                /\ req'[t].todo = req[t].todo \ {p}
                /\ graph.live => graph'.body[p] = "full"
                /\ \A x \in Paras \ {p} : graph'.body[x] = graph.body[x]
<1>1. req[t].at = "paragraphs" /\ files' = files /\ Unheard
  BY DEF SaveParagraph, At, Unheard
<1>2. Only(t, {"todo"}) /\ Others(t)
  BY SaveParagraphEffect
<1>3. req'[t].at = req[t].at
  BY <1>2 DEF Only
<1> QED
  BY <1>1, <1>2, <1>3, SaveParagraphEffect DEF Passes

\* The commit saves the chapter with its list of paragraphs.
LEMMA ChapterStep ==
    ASSUME Typed, NEW t \in Threads, SaveChapter(t)
    PROVE  /\ Passes(t, "paragraphs", "back", {"at"}) /\ files' = files /\ Unheard
           /\ req[t].todo = {} /\ graph'.live
           /\ graph'.title = req[t].fresh.title /\ graph'.act = req[t].fresh.act
           /\ \A p \in Paras : graph'.body[p] =
                IF req[t].seen = {} THEN graph.body[p]
                ELSE IF p \notin req[t].seen THEN "absent"
                ELSE IF graph.body[p] = "absent" THEN "stub" ELSE graph.body[p]
<1>1. /\ req[t].at = "paragraphs" /\ files' = files /\ Unheard /\ req[t].todo = {}
      /\ "back" \in Steps /\ Goto(t, "back") /\ graph \in GraphRecord
      /\ ChapterChanged(req[t].fresh.title, req[t].fresh.act, req[t].seen)
  BY DEF SaveChapter, At, Unheard, Steps, Typed
<1>2. req[t].fresh.title \in Titles /\ req[t].fresh.act \in Acts
  BY DEF Typed, ReqRecord, ChapterRecord
<1>3. Passes(t, "paragraphs", "back", {"at"})
  BY <1>1, GotoEffect DEF Passes
<1>4. PICK title \in Titles, act \in Acts, list \in {req[t].seen} :
        title = req[t].fresh.title /\ act = req[t].fresh.act
  BY <1>2
<1>5. ChapterChanged(title, act, list)
  BY <1>1, <1>4
<1>6. /\ graph'.live = TRUE /\ graph'.title = title /\ graph'.act = act
      /\ \A p \in Paras : graph'.body[p] =
           IF list = {} THEN graph.body[p]
           ELSE IF p \notin list THEN "absent"
           ELSE IF graph.body[p] = "absent" THEN "stub" ELSE graph.body[p]
  BY <1>1, <1>5, ChapterChangedEffect
<1> QED
  BY <1>1, <1>3, <1>4, <1>6

\* The write-back opens the file, or fails where it is gone.
LEMMA BackStep ==
    ASSUME Typed, NEW t \in Threads, TruncateBack(t)
    PROVE  /\ graph' = graph /\ Unheard
           /\ \/ files[req[t].path] = NoFile /\ Fails(t, "back", "leave") /\ files' = files
              \/ /\ files[req[t].path] # NoFile
                 /\ Passes(t, "back", "back_write", {"at", "fd"}) /\ req'[t].fd = req[t].path
                 /\ files' = [files EXCEPT ![req[t].path] = Blank]
<1>1. /\ "back_write" \in Steps /\ "leave" \in Steps /\ req \in [Threads -> ReqRecord]
      /\ req[t].at = "back" /\ graph' = graph /\ Unheard
  BY DEF TruncateBack, Steps, At, Unheard, Typed
<1>2. CASE files[req[t].path] = NoFile
  <2>1. req' = [req EXCEPT ![t].ok = FALSE, ![t].at = "leave"] /\ files' = files
    BY <1>2 DEF TruncateBack, Raises
  <2> QED
    BY <1>1, <1>2, <2>1, RaiseEffect DEF Passes, Fails
<1>3. CASE files[req[t].path] # NoFile
  <2>1. /\ req' = [req EXCEPT ![t].fd = req[t].path, ![t].at = "back_write"]
        /\ files' = [files EXCEPT ![req[t].path] = Blank]
    BY <1>3 DEF TruncateBack
  <2>2. /\ req'[t].at = "back_write" /\ req'[t].fd = req[t].path
        /\ Only(t, {"at", "fd"}) /\ Others(t)
    BY <1>1, <2>1, OpenType
  <2> QED
    BY <1>1, <1>3, <2>1, <2>2 DEF Passes
<1> QED
  BY <1>2, <1>3

\* The write-back writes the text it has read.
LEMMA WriteBackStep ==
    ASSUME Typed, NEW t \in Threads, WriteBack(t)
    PROVE  /\ Passes(t, "back_write", "leave", {"at"})
           /\ graph' = graph /\ files' = Filled(t, req[t].seen) /\ Unheard
<1>1. /\ "leave" \in Steps /\ Goto(t, "leave") /\ req[t].at = "back_write"
      /\ graph' = graph /\ files' = Filled(t, req[t].seen) /\ Unheard
  BY DEF WriteBack, Steps, At, Unheard
<1> QED
  BY <1>1, GotoEffect DEF Passes

\* A request leaves the save scope.
LEMMA LeaveStep ==
    ASSUME Typed, NEW t \in Threads, LeaveScope(t)
    PROVE  Passes(t, "leave", "answer", {"at"}) /\ Unmoved /\ Unheard
<1>1. "answer" \in Steps /\ Goto(t, "answer") /\ req[t].at = "leave" /\ Unmoved /\ Unheard
  BY DEF LeaveScope, Steps, At, Unmoved, Unheard
<1> QED
  BY <1>1, GotoEffect DEF Passes

\* The git_commit of a rename changes nothing but what git tracks.
LEMMA SnapshotStep ==
    ASSUME Typed, NEW t \in Threads, Snapshot(t)
    PROVE  Passes(t, "snapshot", "answer", {"at"}) /\ Unmoved /\ Unheard
<1>1. "answer" \in Steps /\ Goto(t, "answer") /\ req[t].at = "snapshot" /\ Unmoved /\ Unheard
  BY DEF Snapshot, Steps, At, Unmoved, Unheard
<1> QED
  BY <1>1, GotoEffect DEF Passes

\* An acknowledged save decides what may be read from now on.
LEMMA AnswerStep ==
    ASSUME NEW t \in Threads, Answer(t)
    PROVE  /\ req[t].at = "answer" /\ Unmoved /\ poisoned' = poisoned /\ overlap' = overlap
           /\ allowed' = IF req[t].op = "save" /\ req[t].ok
                         THEN {req[t].arg} \cup overlap[t] ELSE allowed
  BY DEF Answer, At, Unmoved

\* A move writes the chapter with its new act; within its act it changes nothing.
LEMMA AdoptStep ==
    ASSUME Typed, NEW t \in Threads, Adopt(t)
    PROVE  /\ Passes(t, "adopt", "answer", {"at"}) /\ files' = files /\ Unheard
           /\ ~parted' => graph' = graph
<1>1. "answer" \in Steps /\ Goto(t, "answer") /\ req[t].at = "adopt" /\ files' = files /\ Unheard
  BY DEF Adopt, Steps, At, Unheard
<1>2. ~parted' => graph' = graph
  BY DEF Adopt
<1> QED
  BY <1>1, <1>2, GotoEffect DEF Passes

\* A delete takes the chapter out of the graph.
LEMMA DropStep ==
    ASSUME Typed, NEW t \in Threads, Drop(t)
    PROVE  /\ Passes(t, "drop", "answer", {"at"}) /\ files' = files /\ Unheard
           /\ ~graph'.live /\ \A p \in Paras : graph'.body[p] = "absent"
<1>1. "answer" \in Steps /\ Goto(t, "answer") /\ req[t].at = "drop" /\ files' = files /\ Unheard
  BY DEF Drop, Steps, At, Unheard
<1> QED
  BY <1>1, GotoEffect, DropEffect DEF Passes

\* A chapter written with every paragraph it lists keeps them as they are.
LEMMA RetitleStep ==
    ASSUME Typed, NEW t \in Threads, Sane(req[t]), Retitle(t), req[t].ch.paras = Listed(graph.body)
    PROVE  /\ \/ req[t].arg = req[t].ch.title /\ Passes(t, "retitle", "answer", {"at"})
              \/ req[t].arg # req[t].ch.title /\ Passes(t, "retitle", "rename_file", {"at"})
           /\ files' = files /\ Unheard
           /\ graph'.live /\ graph'.title = req[t].arg /\ graph'.act = req[t].ch.act
           /\ \A p \in Paras : graph'.body[p] = graph.body[p]
<1>1. /\ req[t].at = "retitle" /\ files' = files /\ Unheard /\ graph \in GraphRecord
      /\ ChapterChanged(req[t].arg, req[t].ch.act, req[t].ch.paras)
      /\ "answer" \in Steps /\ "rename_file" \in Steps
  BY DEF Retitle, At, Unheard, Typed, Steps
<1>2. req[t].arg \in Titles /\ req[t].ch.act \in Acts
  BY <1>1 DEF Sane, Typed, ReqRecord, ChapterRecord
<1>3. PICK title \in Titles, act \in Acts, list \in {Listed(graph.body)} :
        title = req[t].arg /\ act = req[t].ch.act
  BY <1>2
<1>4. ChapterChanged(title, act, list)
  BY <1>1, <1>3
<1>5. /\ graph'.live = TRUE /\ graph'.title = title /\ graph'.act = act
      /\ \A p \in Paras : graph'.body[p] =
           IF list = {} THEN graph.body[p]
           ELSE IF p \notin list THEN "absent"
           ELSE IF graph.body[p] = "absent" THEN "stub" ELSE graph.body[p]
  BY <1>1, <1>4, ChapterChangedEffect
<1>6. \A p \in Paras : p \in list <=> graph.body[p] # "absent"
  BY DEF Listed
<1>7. \A p \in Paras : graph'.body[p] = graph.body[p]
  BY <1>5, <1>6
<1>8. CASE req[t].arg = req[t].ch.title
  <2>1. Goto(t, "answer")
    BY <1>8 DEF Retitle
  <2>2. Passes(t, "retitle", "answer", {"at"})
    BY <1>1, <2>1, GotoEffect DEF Passes
  <2> QED
    BY <1>1, <1>3, <1>5, <1>7, <1>8, <2>2
<1>9. CASE req[t].arg # req[t].ch.title
  <2>1. Goto(t, "rename_file")
    BY <1>9 DEF Retitle
  <2>2. Passes(t, "retitle", "rename_file", {"at"})
    BY <1>1, <2>1, GotoEffect DEF Passes
  <2> QED
    BY <1>1, <1>3, <1>5, <1>7, <1>9, <2>2
<1> QED
  BY <1>8, <1>9

-----------------------------------------------------------------------------
(***************************************************************************)
(* Where nobody edits the file by other means and nothing crashes, chapter *)
(* and file agree whenever no request is writing one of them, and what the *)
(* chapter holds may be read: LastSaveWins.  What a request under way has  *)
(* in hand (Held) is what makes it so.                                     *)
(***************************************************************************)
NoStubs(body) == \A p \in Paras : body[p] # "stub"

HeldOpen(r, body, f) ==
    /\ r.at \in {"enter", "locked"} /\ f = NoFile => r.text = Full(body)
    /\ r.at \in {"truncate", "write"} => r.text = Full(body)
    /\ r.at \in {"read", "diff"} => f # NoFile
    /\ r.at = "diff" => r.seen = f
    /\ r.at \notin {"paragraphs", "back", "back_write"}

HeldSave(r, body, f) ==
    /\ r.at \in {"enter", "locked", "truncate", "write"} => r.text = r.arg
    /\ r.at \in {"read", "diff", "paragraphs", "back"} => f = r.arg
    /\ r.at \in {"diff", "paragraphs", "back", "back_write"} => r.seen = r.arg
    /\ r.at = "paragraphs" => \A p \in r.seen : p \in r.todo \/ body[p] = "full"
    /\ r.at \in {"back", "back_write"} => SameText(body, r.arg)

HeldRename(r, body, g) ==
    /\ r.at = "retitle" => r.ch.paras = Listed(body)
    /\ r.at = "rename_file" /\ g # NoFile => g # Blank /\ SameText(body, g)
    /\ r.at \in {"truncate", "write"} => r.text # Blank /\ SameText(body, r.text)

Held(t) ==
    /\ req[t].op = "open"   => HeldOpen(req[t], graph.body, files[Here])
    /\ req[t].op = "save"   => HeldSave(req[t], graph.body, files[Here])
    /\ req[t].op = "rename" => HeldRename(req[t], graph.body, files[req[t].path])

\* A request that is writing the chapter or its file.
Filing(r) ==
    \/ r.at \in {"rename_file", "write", "paragraphs", "back", "back_write"}
    \/ r.op = "save" /\ r.at \in {"read", "diff"}

Settles(live, body, f) == live /\ f # NoFile => f # Blank /\ SameText(body, f)

Settled == (\A t \in Threads : ~Filing(req[t])) => Settles(graph.live, graph.body, files[Here])

\* A save that has written the chapter and is still to be acknowledged.
Acking(r) == r.op = "save" /\ r.at \in {"back", "back_write", "leave", "answer"} /\ r.ok

Acked ==
    graph.live /\ (\A t \in Threads : req[t].at # "paragraphs") =>
      /\ NoStubs(graph.body) /\ Full(graph.body) \in allowed
      /\ \A t \in Threads :
           Acking(req[t]) => Full(graph.body) \in {req[t].arg} \cup overlap[t]

Last == ~poisoned /\ Settled /\ Acked /\ \A t \in Threads : Held(t)

\* Every request works where the chapter is, and those that displace it alone.
Orderly == Apart /\ Homed /\ \A t \in Threads : Placed(t)

Outside == {"idle", "load", "enter", "answer"}

\* While one request is in the scope or displaces, the others are outside both.
LEMMA Alone ==
    ASSUME Basic, Apart, NEW t \in Threads, NEW u \in Threads \ {t},
           InScope(req[t]) \/ (Active(t) /\ req[t].op \in Displacing)
    PROVE  /\ req[u].at \in Outside /\ ~Filing(req[u]) /\ req[u].at # "paragraphs"
           /\ req[t].op \in Displacing => req[u].at = "idle"
<1>1. Sane(req[u]) /\ Sane(req[t]) /\ req[u].at \in Steps /\ req[u].op \in Operations
  BY DEF Basic, Typed, ReqRecord
<1>2. Active(t)
  BY DEF InScope, Active
<1>3. ~InScope(req[u]) \/ req[u].at = "idle"
  <2>1. CASE InScope(req[t])
    BY <2>1 DEF Basic, Scope
  <2>2. CASE Active(t) /\ req[t].op \in Displacing
    BY <2>2 DEF Apart, Active
  <2> QED
    BY <2>1, <2>2
<1>4. req[u].at = "idle" \/ req[u].op \notin Displacing
  BY <1>2 DEF Apart, Active
<1>5. req[u].at \in Outside
  <2>1. CASE req[u].at = "idle"
    BY <2>1 DEF Outside
  <2>2. CASE req[u].at # "idle"
    <3>1. req[u].op \in {"save", "open"}
      BY <1>1, <1>4, <2>2 DEF Displacing, Operations
    <3>2. req[u].at \notin {"retitle", "rename_file", "snapshot", "adopt", "remove_file", "drop"}
      BY <1>1, <3>1 DEF Sane
    <3>3. req[u].at \notin {"locked", "truncate", "write", "read", "diff", "paragraphs",
                           "back", "back_write", "leave"}
      BY <1>3, <2>2, <3>1 DEF InScope
    <3> QED
      BY <1>1, <3>2, <3>3 DEF Steps, Outside
  <2> QED
    BY <2>1, <2>2
<1>6. req[t].op \in Displacing => req[u].at = "idle"
  BY <1>2 DEF Apart, Active
<1> QED
  BY <1>5, <1>6 DEF Outside, Filing

\* The text of a chapter is the set of its paragraphs saved in full.
LEMMA SameFull ==
    ASSUME NEW body \in Bodies
    PROVE  /\ \A x \in SUBSET Paras : SameText(body, x) => Full(body) = x /\ NoStubs(body)
           /\ NoStubs(body) => SameText(body, Full(body))
           /\ Full(body) \in SUBSET Paras
           /\ Full(body) # NoFile /\ Full(body) # Blank
<1>1. \A x \in SUBSET Paras : SameText(body, x) => Full(body) = x /\ NoStubs(body)
  <2> SUFFICES ASSUME NEW x \in SUBSET Paras, SameText(body, x)
               PROVE  Full(body) = x /\ NoStubs(body)
    OBVIOUS
  <2>1. \A p \in Paras : p \in x <=> body[p] = "full"
    BY DEF SameText
  <2>2. Full(body) = x
    BY <2>1 DEF Full
  <2>3. NoStubs(body)
    BY DEF SameText, NoStubs
  <2> QED
    BY <2>2, <2>3
<1>2. NoStubs(body) => SameText(body, Full(body))
  BY DEF NoStubs, SameText, Full, Bodies
<1>3. Full(body) \in SUBSET Paras
  BY DEF Full
<1> QED
  BY <1>1, <1>2, <1>3, ContentAssumption

\* What is said of a body depends on its paragraphs only.
LEMMA SameBody ==
    ASSUME NEW b, NEW c, \A p \in Paras : b[p] = c[p]
    PROVE  /\ Full(b) = Full(c) /\ Listed(b) = Listed(c) /\ (NoStubs(b) <=> NoStubs(c))
           /\ \A x : SameText(b, x) <=> SameText(c, x)
<1>1. Full(b) = Full(c)
  BY DEF Full
<1>2. Listed(b) = Listed(c)
  BY DEF Listed
<1>3. NoStubs(b) <=> NoStubs(c)
  BY DEF NoStubs
<1>4. \A x : SameText(b, x) <=> SameText(c, x)
  BY DEF SameText
<1> QED
  BY <1>1, <1>2, <1>3, <1>4

(***************************************************************************)
(* The step of a request while no other is past its load.                  *)
(***************************************************************************)
LEMMA LastFrame ==
    ASSUME Last, NEW t \in Threads, Others(t),
           \A u \in Threads \ {t} : req[u].at \in Outside,
           poisoned' = FALSE,
           Filing(req'[t]) \/ Settles(graph'.live, graph'.body, files'[Here']),
           Held(t)',
           graph'.live /\ req'[t].at # "paragraphs" =>
             /\ NoStubs(graph'.body) /\ Full(graph'.body) \in allowed'
             /\ \A u \in Threads :
                  Acking(req'[u]) => Full(graph'.body) \in {req'[u].arg} \cup overlap'[u],
           \A u \in Threads \ {t} : req[u].at = "enter" =>
             (files'[Here'] = NoFile => files[Here] = NoFile /\ graph'.body = graph.body)
    PROVE  Last'
<1>1. Settled'
  BY DEF Settled
<1>2. Acked'
  BY DEF Acked
<1>3. \A u \in Threads \ {t} : Held(u)'
  <2> SUFFICES ASSUME NEW u \in Threads \ {t} PROVE Held(u)'
    OBVIOUS
  <2>1. req'[u] = req[u] /\ req[u].at \in Outside /\ Held(u)
    BY DEF Others, Last
  <2>2. CASE req[u].at = "enter"
    <3>1. req[u].op = "save" => HeldSave(req'[u], graph'.body, files'[Here'])
      BY <2>1, <2>2 DEF Held, HeldSave
    <3>2. req[u].op = "open" => HeldOpen(req'[u], graph'.body, files'[Here'])
      BY <2>1, <2>2 DEF Held, HeldOpen
    <3>3. HeldRename(req'[u], graph'.body, files'[req'[u].path])
      BY <2>1, <2>2 DEF HeldRename
    <3> QED
      BY <2>1, <3>1, <3>2, <3>3 DEF Held
  <2>3. CASE req[u].at # "enter"
    BY <2>1, <2>3 DEF Held, HeldOpen, HeldSave, HeldRename, Outside
  <2> QED
    BY <2>2, <2>3
<1> QED
  BY <1>1, <1>2, <1>3 DEF Last

\* A step outside the scope keeps Last;
LEMMA OutsideLast ==
    ASSUME Basic, Last, NEW t \in Threads, Load(t) \/ EnterScope(t) \/ Answer(t)
    PROVE  Last'
<1>0. Typed /\ Sane(req[t])
  BY DEF Basic
<1>1. /\ Others(t) /\ Unmoved /\ poisoned' = poisoned /\ overlap' = overlap
      /\ req[t].at \in Outside
  <2>1. CASE Load(t)
    BY <1>0, <2>1, LoadEffect, LoadStep DEF Unheard, Outside
  <2>2. CASE EnterScope(t)
    BY <1>0, <2>2, EnterStep DEF Unheard, Passes, Outside
  <2>3. CASE Answer(t)
    BY <1>0, <2>3, AnswerStep, AnswerEffect DEF Outside
  <2> QED
    BY <2>1, <2>2, <2>3
<1>2. ~Filing(req[t]) /\ req[t].at # "paragraphs"
  BY <1>1 DEF Filing, Outside
<1>3. graph' = graph /\ files' = files /\ Here' = Here
  BY <1>1 DEF Unmoved, Here
<1>4. /\ req'[t].at \in {"enter", "retitle", "adopt", "remove_file", "locked", "idle", "answer"}
      /\ req'[t].at = "answer" => req'[t].ok = FALSE
      /\ ~(req'[t].op = "save" /\ req'[t].at \in {"read", "diff"})
  <2>1. CASE Load(t)
    <3>1. FirstStep(req[t].op) \in {"enter", "retitle", "adopt", "remove_file"}
      BY <1>0 DEF FirstStep, Typed, ReqRecord, Operations
    <3> QED
      BY <1>0, <2>1, <3>1, LoadEffect
  <2>2. CASE EnterScope(t)
    BY <1>0, <2>2, EnterStep DEF Passes
  <2>3. CASE Answer(t)
    BY <1>0, <2>3, AnswerEffect
  <2> QED
    BY <2>1, <2>2, <2>3
<1>5. Settled'
  BY <1>1, <1>2, <1>3 DEF Last, Settled, Others
<1>6. Acked'
  <2> SUFFICES ASSUME graph'.live, \A u \in Threads : req'[u].at # "paragraphs"
               PROVE  /\ NoStubs(graph.body) /\ Full(graph.body) \in allowed'
                      /\ \A u \in Threads :
                           Acking(req'[u]) => Full(graph.body) \in {req'[u].arg} \cup overlap[u]
    BY <1>1, <1>3 DEF Acked
  <2>1. /\ NoStubs(graph.body) /\ Full(graph.body) \in allowed
        /\ \A u \in Threads :
             Acking(req[u]) => Full(graph.body) \in {req[u].arg} \cup overlap[u]
    BY <1>1, <1>2, <1>3 DEF Last, Acked, Others
  <2>2. ~Acking(req'[t])
    BY <1>4 DEF Acking
  <2>3. Full(graph.body) \in allowed'
    <3>1. CASE Answer(t)
      <4>1. /\ req[t].at = "answer"
            /\ allowed' = IF req[t].op = "save" /\ req[t].ok
                          THEN {req[t].arg} \cup overlap[t] ELSE allowed
        BY <3>1, AnswerStep
      <4> QED
        BY <2>1, <4>1 DEF Acking
    <3>2. CASE Load(t)
      BY <2>1, <3>2, LoadStep DEF Unheard
    <3>3. CASE EnterScope(t)
      BY <1>0, <2>1, <3>3, EnterStep DEF Unheard
    <3> QED
      BY <3>1, <3>2, <3>3
  <2> QED
    BY <1>1, <2>1, <2>2, <2>3 DEF Others
<1>7. \A u \in Threads \ {t} : Held(u)'
  BY <1>1, <1>3 DEF Last, Held, Others
<1>8. Held(t)'
  <2>1. CASE Load(t)
    <3>1. CASE graph.live
      <4>1. /\ req'[t].ch = [title |-> graph.title, act |-> graph.act,
                             paras |-> Listed(graph.body)]
            /\ req'[t].text = (IF req[t].op = "save" THEN req[t].arg ELSE Full(graph.body))
            /\ req'[t].at = FirstStep(req[t].op)
            /\ req'[t].op = req[t].op /\ req'[t].arg = req[t].arg
        BY <1>0, <2>1, <3>1, LoadEffect DEF Only
      <4>2. req'[t].at \in {"enter", "retitle", "adopt", "remove_file"}
            /\ req'[t].ch.paras = Listed(graph.body)
        BY <1>0, <4>1 DEF FirstStep, Typed, ReqRecord, Operations
      <4> QED
        BY <1>3, <4>1, <4>2 DEF Held, HeldOpen, HeldSave, HeldRename
    <3>2. CASE ~graph.live
      <4>1. req'[t].at = "answer"
        BY <1>0, <2>1, <3>2, LoadEffect
      <4> QED
        BY <4>1 DEF Held, HeldOpen, HeldSave, HeldRename
    <3> QED
      BY <3>1, <3>2
  <2>2. CASE EnterScope(t)
    <3>1. /\ req[t].at = "enter" /\ req'[t].at = "locked" /\ req'[t].op = req[t].op
          /\ req'[t].text = req[t].text /\ req'[t].arg = req[t].arg
      BY <1>0, <2>2, EnterStep DEF Passes, Only
    <3>2. Held(t)
      BY DEF Last
    <3> QED
      BY <1>3, <3>1, <3>2 DEF Held, HeldOpen, HeldSave, HeldRename
  <2>3. CASE Answer(t)
    <3>1. req'[t].at = "idle"
      BY <1>0, <2>3, AnswerEffect
    <3> QED
      BY <3>1 DEF Held, HeldOpen, HeldSave, HeldRename
  <2> QED
    BY <2>1, <2>2, <2>3
<1>9. poisoned' = FALSE
  BY <1>0, <1>1 DEF Last, Typed
<1> QED
  BY <1>5, <1>6, <1>7, <1>8, <1>9 DEF Last

\* a step of an open inside it does,
LEMMA OpenLast ==
    ASSUME Basic, Orderly, Last, NEW t \in Threads, ServeStep(t), InScope(req[t]),
           req[t].op = "open"
    PROVE  Last'
<1>0. /\ Typed /\ Sane(req[t]) /\ Placed(t) /\ HeldOpen(req[t], graph.body, files[Here])
      /\ \A u \in Threads \ {t} : req[u].at \in Outside /\ ~Filing(req[u])
      /\ \A u \in Threads \ {t} : req[u].at # "paragraphs"
      /\ files \in [Places -> Contents] /\ Here \in Places /\ graph.body \in Bodies
  <2>1. \A u \in Threads \ {t} :
           req[u].at \in Outside /\ ~Filing(req[u]) /\ req[u].at # "paragraphs"
    BY Alone DEF Orderly
  <2>2. files \in [Places -> Contents] /\ Here \in Places /\ graph.body \in Bodies
    BY DEF Basic, Typed, GraphRecord, Here, Places
  <2> QED
    BY <2>1, <2>2 DEF Basic, Orderly, Last, Held
<1>1. req[t].at \in {"locked", "truncate", "write", "read", "diff", "leave"}
  BY <1>0 DEF InScope, HeldOpen
<1>2. graph.live /\ req[t].path = Here
  BY <1>0, <1>1 DEF Placed
<1>3. /\ NoStubs(graph.body) /\ Full(graph.body) \in allowed
      /\ \A u \in Threads : Acking(req[u]) => Full(graph.body) \in {req[u].arg} \cup overlap[u]
  BY <1>0, <1>1, <1>2 DEF Last, Acked
<1>4. ~Filing(req[t]) => Settles(graph.live, graph.body, files[Here])
  BY <1>0 DEF Last, Settled
\* The chapter does not change, and the request acknowledges no save.
<1>5. ASSUME graph' = graph, allowed' = allowed, overlap' = overlap, poisoned' = poisoned,
             Others(t), req'[t].op = "open", files'[Here] = NoFile => files[Here] = NoFile,
             Filing(req'[t]) \/ Settles(graph.live, graph.body, files'[Here]),
             HeldOpen(req'[t], graph.body, files'[Here])
      PROVE  Last'
  <2>1. Here' = Here
    BY <1>5 DEF Here
  <2>2. Held(t)'
    BY <1>5, <2>1 DEF Held
  <2>3. \A u \in Threads :
          Acking(req'[u]) => Full(graph'.body) \in {req'[u].arg} \cup overlap'[u]
    BY <1>3, <1>5 DEF Acking, Others
  <2>4. poisoned' = FALSE
    BY <1>0, <1>5 DEF Last, Typed
  <2> QED
    BY <1>0, <1>3, <1>5, <2>1, <2>2, <2>3, <2>4, LastFrame
<1>6. CASE Choose(t)
  <2>1. /\ graph' = graph /\ files' = files /\ Unheard /\ Others(t) /\ req'[t].op = "open"
        /\ req'[t].text = req[t].text /\ req[t].at = "locked"
        /\ \/ files[Here] = NoFile /\ req'[t].at = "truncate"
           \/ files[Here] # NoFile /\ req'[t].at = "read"
    BY <1>0, <1>2, <1>6, ChooseStep DEF Unmoved, Passes, Only
  <2>2. HeldOpen(req'[t], graph.body, files'[Here])
    BY <1>0, <2>1 DEF HeldOpen
  <2>3. ~Filing(req[t])
    BY <2>1 DEF Filing
  <2> QED
    BY <1>4, <1>5, <2>1, <2>2, <2>3 DEF Unheard
<1>7. CASE Truncate(t)
  <2>1. /\ graph' = graph /\ files' = [files EXCEPT ![Here] = Blank] /\ Unheard /\ Others(t)
        /\ req'[t].op = "open" /\ req'[t].text = req[t].text
        /\ req[t].at = "truncate" /\ req'[t].at = "write"
    BY <1>0, <1>2, <1>7, TruncateStep DEF Passes, Only
  <2>2. HeldOpen(req'[t], graph.body, files'[Here])
    BY <1>0, <2>1 DEF HeldOpen
  <2>3. Filing(req'[t])
    BY <2>1 DEF Filing
  <2>4. files'[Here] # NoFile
    BY <1>0, <2>1, ContentAssumption
  <2> QED
    BY <1>5, <2>1, <2>2, <2>3, <2>4 DEF Unheard
<1>8. CASE Write(t)
  <2>1. /\ graph' = graph /\ files' = Filled(t, req[t].text) /\ Unheard /\ Others(t)
        /\ req'[t].op = "open" /\ req[t].at = "write" /\ req'[t].at = "leave"
    BY <1>0, <1>8, WriteStep DEF Passes, Only, AfterWrite
  <2>2. req[t].fd = Here /\ Here # NoFile /\ req[t].text = Full(graph.body)
    BY <1>0, <1>2, <2>1, ContentAssumption DEF Placed, HeldOpen
  <2>3. files'[Here] = Full(graph.body)
    BY <1>0, <2>1, <2>2 DEF Filled
  <2>4. Settles(graph.live, graph.body, files'[Here]) /\ files'[Here] # NoFile
    BY <1>0, <1>3, <2>3, SameFull DEF Settles
  <2>5. HeldOpen(req'[t], graph.body, files'[Here])
    BY <2>1 DEF HeldOpen
  <2> QED
    BY <1>5, <2>1, <2>4, <2>5 DEF Unheard
<1>9. CASE Read(t)
  <2>0. req[t].at = "read" /\ files[Here] # NoFile
    BY <1>0, <1>9 DEF Read, At, HeldOpen
  <2>1. /\ graph' = graph /\ files' = files /\ Unheard /\ Others(t)
        /\ req'[t].op = "open" /\ req'[t].at = "diff" /\ req'[t].seen = files[Here]
    BY <1>0, <1>2, <1>9, <2>0, ReadStep DEF Unmoved, Passes, Only
  <2>2. HeldOpen(req'[t], graph.body, files'[Here])
    BY <2>0, <2>1 DEF HeldOpen
  <2>3. ~Filing(req[t])
    BY <1>0, <2>0 DEF Filing
  <2> QED
    BY <1>4, <1>5, <2>1, <2>2, <2>3 DEF Unheard
<1>10. CASE DiffGone(t) \/ DiffBlank(t) \/ Diff(t)
  <2>0. req[t].at = "diff" /\ files[Here] # NoFile /\ req[t].seen = files[Here]
    BY <1>0, <1>10 DEF DiffGone, DiffBlank, Diff, At, HeldOpen
  <2>1. ~Filing(req[t])
    BY <1>0, <2>0 DEF Filing
  <2>2. req[t].seen # Blank /\ SameText(graph.body, req[t].seen)
    BY <1>2, <1>4, <2>0, <2>1 DEF Settles
  <2>3. Diff(t)
    BY <1>0, <1>2, <1>10, <2>2, DiffGoneStep, DiffBlankStep
  <2>4. /\ graph' = graph /\ files' = files /\ Unheard /\ Others(t)
        /\ req'[t].op = "open" /\ req'[t].at = "leave"
    BY <1>0, <2>2, <2>3, DiffStep DEF Unmoved, Passes, Only
  <2>5. HeldOpen(req'[t], graph.body, files'[Here])
    BY <2>4 DEF HeldOpen
  <2> QED
    BY <1>4, <1>5, <2>1, <2>4, <2>5 DEF Unheard
<1>11. CASE LeaveScope(t)
  <2>1. /\ graph' = graph /\ files' = files /\ Unheard /\ Others(t)
        /\ req'[t].op = "open" /\ req[t].at = "leave" /\ req'[t].at = "answer"
    BY <1>0, <1>11, LeaveStep DEF Unmoved, Passes, Only
  <2>2. HeldOpen(req'[t], graph.body, files'[Here])
    BY <2>1 DEF HeldOpen
  <2>3. ~Filing(req[t])
    BY <1>0, <2>1 DEF Filing
  <2> QED
    BY <1>4, <1>5, <2>1, <2>2, <2>3 DEF Unheard
<1> QED
  BY <1>1, <1>6, <1>7, <1>8, <1>9, <1>10, <1>11 DEF ServeStep, Load, EnterScope, CommitFails,
     Commits, SaveParagraph, SaveChapter, TruncateBack, WriteBack, Retitle, RenameFile, Snapshot, Adopt,
     RemoveFile, Drop, Answer, At

\* a step of a save inside it does: what it writes is what it acknowledges,
LEMMA SaveLast ==
    ASSUME Basic, Orderly, Last, {} \notin Texts,
           NEW t \in Threads, ServeStep(t), InScope(req[t]), req[t].op = "save"
    PROVE  Last'
<1>0. /\ Typed /\ Sane(req[t]) /\ Placed(t) /\ HeldSave(req[t], graph.body, files[Here])
      /\ \A u \in Threads \ {t} : req[u].at \in Outside /\ ~Filing(req[u])
      /\ \A u \in Threads \ {t} : req[u].at # "paragraphs"
      /\ files \in [Places -> Contents] /\ Here \in Places /\ graph.body \in Bodies
  <2>1. \A u \in Threads \ {t} :
           req[u].at \in Outside /\ ~Filing(req[u]) /\ req[u].at # "paragraphs"
    BY Alone DEF Orderly
  <2>2. files \in [Places -> Contents] /\ Here \in Places /\ graph.body \in Bodies
    BY DEF Basic, Typed, GraphRecord, Here, Places
  <2> QED
    BY <2>1, <2>2 DEF Basic, Orderly, Last, Held
<1>1. req[t].at \in {"locked", "truncate", "write", "read", "diff", "paragraphs", "back",
                     "back_write", "leave"}
  BY <1>0 DEF InScope
<1>2. graph.live /\ req[t].path = Here /\ ~poisoned
  BY <1>0, <1>1 DEF Placed, Last
<1>3. req[t].at # "paragraphs" =>
      /\ NoStubs(graph.body) /\ Full(graph.body) \in allowed
      /\ \A u \in Threads : Acking(req[u]) => Full(graph.body) \in {req[u].arg} \cup overlap[u]
  BY <1>0, <1>1, <1>2 DEF Last, Acked
<1>4. ~Filing(req[t]) => Settles(graph.live, graph.body, files[Here])
  BY <1>0 DEF Last, Settled
<1>5. /\ req[t].arg \in SUBSET Paras /\ req[t].arg # {} /\ req[t].arg \notin {NoFile, Blank}
      /\ req[t].arg \in allowed
      /\ \A u \in Threads \ {t} : Saving(u) => req[t].arg \in overlap[u]
  <2>1. req[t].arg \in Texts /\ Saving(t)
    BY <1>0, <1>1 DEF Sane, Saving, Active
  <2>2. /\ req[t].arg \in allowed
        /\ \A u \in Threads \ {t} : Saving(u) => req[t].arg \in overlap[u]
    BY <2>1 DEF Basic, Raced
  <2> QED
    BY <2>1, <2>2, TextsAssumption, ContentAssumption
\* What is left to show of a step under which the file stays.
<1>6. ASSUME Others(t), allowed' = allowed, overlap' = overlap, poisoned' = poisoned,
             Here' = Here, req'[t].op = "save", req'[t].arg = req[t].arg,
             files'[Here] = NoFile => files[Here] = NoFile /\ graph'.body = graph.body,
             Filing(req'[t]) \/ Settles(graph'.live, graph'.body, files'[Here]),
             HeldSave(req'[t], graph'.body, files'[Here]),
             req'[t].at # "paragraphs" =>
               \/ SameText(graph'.body, req[t].arg)
               \/ /\ graph'.body = graph.body /\ req[t].at # "paragraphs"
                  /\ Acking(req'[t]) => Acking(req[t])
      PROVE  Last'
  <2>1. Held(t)'
    BY <1>6 DEF Held
  <2>2. req'[t].at # "paragraphs" =>
             /\ NoStubs(graph'.body) /\ Full(graph'.body) \in allowed'
             /\ \A u \in Threads :
                  Acking(req'[u]) => Full(graph'.body) \in {req'[u].arg} \cup overlap'[u]
    <3>1. CASE SameText(graph'.body, req[t].arg)
      <4>1. graph'.body \in Bodies
        BY ServeBasic DEF Basic, Typed, GraphRecord
      <4>2. Full(graph'.body) = req[t].arg /\ NoStubs(graph'.body)
        BY <1>5, <3>1, <4>1, SameFull
      <4>3. \A u \in Threads \ {t} : Acking(req'[u]) => Saving(u)
        BY <1>6 DEF Acking, Saving, Active, Others
      <4> QED
        BY <1>5, <1>6, <4>2, <4>3
    <3>2. CASE /\ graph'.body = graph.body /\ req[t].at # "paragraphs"
               /\ Acking(req'[t]) => Acking(req[t])
      BY <1>3, <1>6, <3>2 DEF Others
    <3> QED
      BY <1>6, <3>1, <3>2
  <2>3. poisoned' = FALSE
    BY <1>0, <1>2, <1>6 DEF Typed
  <2> QED
    BY <1>0, <1>6, <2>1, <2>2, <2>3, LastFrame
<1>7. graph' = graph => Here' = Here
  BY DEF Here
<1>8. CASE Choose(t)
  <2>1. /\ graph' = graph /\ files' = files /\ Unheard /\ Others(t) /\ req'[t].op = "save"
        /\ req'[t].text = req[t].text /\ req'[t].arg = req[t].arg
        /\ req[t].at = "locked" /\ req'[t].at = "truncate"
    BY <1>0, <1>8, ChooseStep DEF Unmoved, Passes, Only
  <2>2. HeldSave(req'[t], graph.body, files'[Here])
    BY <1>0, <2>1 DEF HeldSave
  <2>3. ~Filing(req[t]) /\ ~Acking(req'[t])
    BY <2>1 DEF Filing, Acking
  <2> QED
    BY <1>4, <1>6, <1>7, <2>1, <2>2, <2>3 DEF Unheard
<1>9. CASE Truncate(t)
  <2>1. /\ graph' = graph /\ files' = [files EXCEPT ![Here] = Blank] /\ Unheard /\ Others(t)
        /\ req'[t].op = "save" /\ req'[t].text = req[t].text /\ req'[t].arg = req[t].arg
        /\ req[t].at = "truncate" /\ req'[t].at = "write"
    BY <1>0, <1>2, <1>9, TruncateStep DEF Passes, Only
  <2>2. HeldSave(req'[t], graph.body, files'[Here])
    BY <1>0, <2>1 DEF HeldSave
  <2>3. Filing(req'[t]) /\ ~Acking(req'[t])
    BY <2>1 DEF Filing, Acking
  <2>4. files'[Here] # NoFile
    BY <1>0, <2>1, ContentAssumption
  <2> QED
    BY <1>6, <1>7, <2>1, <2>2, <2>3, <2>4 DEF Unheard
<1>10. CASE Write(t)
  <2>1. /\ graph' = graph /\ files' = Filled(t, req[t].text) /\ Unheard /\ Others(t)
        /\ req'[t].op = "save" /\ req'[t].arg = req[t].arg
        /\ req[t].at = "write" /\ req'[t].at = "read"
    BY <1>0, <1>10, WriteStep DEF Passes, Only, AfterWrite
  <2>2. req[t].fd = Here /\ Here # NoFile /\ req[t].text = req[t].arg
    BY <1>0, <1>2, <2>1, ContentAssumption DEF Placed, HeldSave
  <2>3. files'[Here] = req[t].arg
    BY <1>0, <2>1, <2>2 DEF Filled
  <2>4. HeldSave(req'[t], graph.body, files'[Here])
    BY <2>1, <2>3 DEF HeldSave
  <2>5. Filing(req'[t]) /\ ~Acking(req'[t])
    BY <2>1 DEF Filing, Acking
  <2> QED
    BY <1>5, <1>6, <1>7, <2>1, <2>3, <2>4, <2>5 DEF Unheard
<1>11. CASE Read(t)
  <2>0. req[t].at = "read" /\ files[Here] = req[t].arg
    BY <1>0, <1>11 DEF Read, At, HeldSave
  <2>1. /\ graph' = graph /\ files' = files /\ Unheard /\ Others(t)
        /\ req'[t].op = "save" /\ req'[t].arg = req[t].arg
        /\ req'[t].at = "diff" /\ req'[t].seen = files[Here]
    BY <1>0, <1>2, <1>5, <1>11, <2>0, ReadStep DEF Unmoved, Passes, Only
  <2>2. HeldSave(req'[t], graph.body, files'[Here])
    BY <2>0, <2>1 DEF HeldSave
  <2>3. Filing(req'[t]) /\ ~Acking(req'[t])
    BY <2>1 DEF Filing, Acking
  <2> QED
    BY <1>6, <1>7, <2>0, <2>1, <2>2, <2>3 DEF Unheard
<1>12. CASE DiffGone(t) \/ DiffBlank(t) \/ Diff(t)
  <2>0. req[t].at = "diff" /\ files[Here] = req[t].arg /\ req[t].seen = req[t].arg
    BY <1>0, <1>12 DEF DiffGone, DiffBlank, Diff, At, HeldSave
  <2>1. Diff(t)
    BY <1>0, <1>2, <1>5, <1>12, <2>0, DiffGoneStep, DiffBlankStep
  <2>2. /\ graph' = graph /\ files' = files /\ Unheard /\ Others(t)
        /\ req'[t].op = "save" /\ req'[t].arg = req[t].arg /\ req'[t].seen = req[t].seen
        /\ req'[t].todo = req[t].seen \ Full(graph.body)
    BY <1>0, <2>1, DiffStep DEF Unmoved, Passes, Only
  <2>3. CASE SameText(graph.body, req[t].arg)
    <3>1. req'[t].at = "leave"
      BY <1>0, <2>0, <2>1, <2>3, DiffStep DEF Passes
    <3>2. HeldSave(req'[t], graph.body, files'[Here])
      BY <3>1 DEF HeldSave
    <3>3. Settles(graph.live, graph.body, files'[Here])
      BY <1>5, <2>0, <2>2, <2>3 DEF Settles
    <3> QED
      BY <1>5, <1>6, <1>7, <2>0, <2>2, <2>3, <3>2, <3>3 DEF Unheard
  <2>4. CASE ~SameText(graph.body, req[t].arg)
    <3>1. req'[t].at = "paragraphs"
      BY <1>0, <2>0, <2>1, <2>4, DiffStep DEF Passes
    <3>2. \A p \in req'[t].seen : p \in req'[t].todo \/ graph.body[p] = "full"
      BY <1>5, <2>0, <2>2 DEF Full
    <3>3. HeldSave(req'[t], graph.body, files'[Here])
      BY <2>0, <2>2, <3>1, <3>2 DEF HeldSave
    <3>4. Filing(req'[t])
      BY <3>1 DEF Filing
    <3> QED
      BY <1>5, <1>6, <1>7, <2>0, <2>2, <3>1, <3>3, <3>4 DEF Unheard
  <2> QED
    BY <2>3, <2>4
<1>13. CASE SaveParagraph(t)
  <2>1. /\ req[t].at = "paragraphs" /\ req'[t].at = "paragraphs"
        /\ files' = files /\ Unheard /\ Others(t)
        /\ req'[t].op = "save" /\ req'[t].arg = req[t].arg /\ req'[t].seen = req[t].seen
        /\ graph'.live = graph.live /\ graph'.title = graph.title /\ graph'.act = graph.act
    BY <1>0, <1>13, ParagraphStep DEF Passes, Only
  <2>2. PICK p \in req[t].todo :
                /\ p \in Paras
                /\ req'[t].todo = req[t].todo \ {p}
                /\ graph.live => graph'.body[p] = "full"
                /\ \A x \in Paras \ {p} : graph'.body[x] = graph.body[x]
    BY <1>0, <1>13, ParagraphStep
  <2>3. req[t].seen = req[t].arg /\ files[Here] = req[t].arg
        /\ \A x \in req[t].seen : x \in req[t].todo \/ graph.body[x] = "full"
    BY <1>0, <2>1 DEF HeldSave
  <2>4. \A x \in req'[t].seen : x \in req'[t].todo \/ graph'.body[x] = "full"
    BY <1>2, <1>5, <2>1, <2>2, <2>3
  <2>5. HeldSave(req'[t], graph'.body, files'[Here])
    BY <2>1, <2>3, <2>4 DEF HeldSave
  <2>6. Filing(req'[t]) /\ Here' = Here /\ files'[Here] # NoFile
    BY <1>5, <2>1, <2>3 DEF Filing, Here
  <2> QED
    BY <1>6, <2>1, <2>5, <2>6 DEF Unheard
<1>14. CASE SaveChapter(t)
  <2>1. /\ req[t].at = "paragraphs" /\ req'[t].at = "back"
        /\ files' = files /\ Unheard /\ Others(t) /\ req[t].todo = {}
        /\ req'[t].op = "save" /\ req'[t].arg = req[t].arg /\ req'[t].seen = req[t].seen
        /\ graph'.title = req[t].fresh.title /\ graph'.act = req[t].fresh.act
    BY <1>0, <1>14, ChapterStep DEF Passes, Only
  <2>2. \A p \in Paras : graph'.body[p] =
                IF req[t].seen = {} THEN graph.body[p]
                ELSE IF p \notin req[t].seen THEN "absent"
                ELSE IF graph.body[p] = "absent" THEN "stub" ELSE graph.body[p]
    BY <1>0, <1>14, ChapterStep
  <2>3. /\ req[t].seen = req[t].arg /\ files[Here] = req[t].arg
        /\ \A x \in req[t].seen : x \in req[t].todo \/ graph.body[x] = "full"
    BY <1>0, <2>1 DEF HeldSave
  <2>4. SameText(graph'.body, req[t].arg)
    BY <1>5, <2>1, <2>2, <2>3 DEF SameText
  <2>5. HeldSave(req'[t], graph'.body, files'[Here])
    BY <2>1, <2>3, <2>4 DEF HeldSave
  <2>6. Filing(req'[t]) /\ files'[Here] # NoFile
    BY <1>5, <2>1, <2>3 DEF Filing
  <2>7. Here' = Here
    BY <1>0, <2>1 DEF Placed, Here
  <2> QED
    BY <1>6, <2>1, <2>4, <2>5, <2>6, <2>7 DEF Unheard
<1>15. CASE TruncateBack(t)
  <2>0. /\ req[t].at = "back" /\ files[Here] = req[t].arg /\ req[t].seen = req[t].arg
        /\ SameText(graph.body, req[t].arg)
    BY <1>0, <1>15 DEF TruncateBack, At, HeldSave
  <2>1. /\ graph' = graph /\ files' = [files EXCEPT ![Here] = Blank] /\ Unheard /\ Others(t)
        /\ req'[t].op = "save" /\ req'[t].seen = req[t].seen /\ req'[t].arg = req[t].arg
        /\ req'[t].at = "back_write"
    BY <1>0, <1>2, <1>5, <1>15, <2>0, BackStep DEF Passes, Only
  <2>2. HeldSave(req'[t], graph.body, files'[Here])
    BY <2>0, <2>1 DEF HeldSave
  <2>3. Filing(req'[t])
    BY <2>1 DEF Filing
  <2>4. files'[Here] # NoFile
    BY <1>0, <2>1, ContentAssumption
  <2> QED
    BY <1>6, <1>7, <2>0, <2>1, <2>2, <2>3, <2>4 DEF Unheard
<1>16. CASE WriteBack(t)
  <2>0. req[t].at = "back_write" /\ req[t].seen = req[t].arg /\ SameText(graph.body, req[t].arg)
    BY <1>0, <1>16 DEF WriteBack, At, HeldSave
  <2>1. /\ graph' = graph /\ files' = Filled(t, req[t].seen) /\ Unheard /\ Others(t)
        /\ req'[t].op = "save" /\ req'[t].arg = req[t].arg /\ req'[t].at = "leave"
    BY <1>0, <1>16, WriteBackStep DEF Passes, Only
  <2>2. req[t].fd = Here /\ Here # NoFile
    BY <1>0, <1>2, <2>0, ContentAssumption DEF Placed
  <2>3. files'[Here] = req[t].arg
    BY <1>0, <2>0, <2>1, <2>2 DEF Filled
  <2>4. HeldSave(req'[t], graph.body, files'[Here])
    BY <2>1 DEF HeldSave
  <2>5. Settles(graph.live, graph.body, files'[Here])
    BY <1>5, <2>0, <2>3 DEF Settles
  <2> QED
    BY <1>5, <1>6, <1>7, <2>0, <2>1, <2>3, <2>4, <2>5 DEF Unheard
<1>17. CASE LeaveScope(t)
  <2>1. /\ graph' = graph /\ files' = files /\ Unheard /\ Others(t)
        /\ req'[t].op = "save" /\ req'[t].arg = req[t].arg /\ req'[t].ok = req[t].ok
        /\ req[t].at = "leave" /\ req'[t].at = "answer"
    BY <1>0, <1>17, LeaveStep DEF Unmoved, Passes, Only
  <2>2. HeldSave(req'[t], graph.body, files'[Here])
    BY <2>1 DEF HeldSave
  <2>3. ~Filing(req[t]) /\ (Acking(req'[t]) => Acking(req[t]))
    BY <1>0, <2>1 DEF Filing, Acking
  <2> QED
    BY <1>4, <1>6, <1>7, <2>1, <2>2, <2>3 DEF Unheard
<1>18. ~CommitFails(t)
  BY <1>0, <1>2, CommitFailsStep
<1> QED
  BY <1>1, <1>8, <1>9, <1>10, <1>11, <1>12, <1>13, <1>14, <1>15, <1>16, <1>17, <1>18
     DEF ServeStep, Load, EnterScope, Retitle, RenameFile, Snapshot, Adopt, RemoveFile, Drop, Answer, At

\* a step of a rename does, which takes the text along,
LEMMA RenameLast ==
    ASSUME Basic, Orderly, Last, NEW t \in Threads, ServeStep(t), ~parted', req[t].op = "rename",
           req[t].at \notin Outside
    PROVE  Last'
<1>0. /\ Typed /\ Sane(req[t]) /\ Placed(t)
      /\ HeldRename(req[t], graph.body, files[req[t].path])
      /\ \A u \in Threads \ {t} : req[u].at = "idle" /\ ~Filing(req[u])
      /\ \A u \in Threads \ {t} : req[u].at # "paragraphs" /\ req[u].at \in Outside
      /\ files \in [Places -> Contents] /\ Here \in Places /\ graph.body \in Bodies
  <2>1. Active(t) /\ req[t].op \in Displacing
    BY DEF Active, Displacing, Outside
  <2>2. \A u \in Threads \ {t} : /\ req[u].at \in Outside /\ ~Filing(req[u])
                                 /\ req[u].at # "paragraphs" /\ req[u].at = "idle"
    BY <2>1, Alone DEF Orderly
  <2>3. files \in [Places -> Contents] /\ Here \in Places /\ graph.body \in Bodies
    BY DEF Basic, Typed, GraphRecord, Here, Places
  <2> QED
    BY <2>2, <2>3 DEF Basic, Orderly, Last, Held
<1>1. req[t].at \in {"retitle", "rename_file", "truncate", "write", "snapshot"}
  BY <1>0 DEF Sane, Outside, Typed, ReqRecord, Steps
<1>2. graph.live /\ ~poisoned
  BY <1>0, <1>1 DEF Placed, Last
<1>3. NoStubs(graph.body) /\ Full(graph.body) \in allowed
  BY <1>0, <1>1, <1>2 DEF Last, Acked
<1>4. ~Filing(req[t]) => Settles(graph.live, graph.body, files[Here])
  BY <1>0 DEF Last, Settled
\* The paragraphs of the chapter stay as they are, and nobody is at a save.
<1>5. ASSUME allowed' = allowed, poisoned' = poisoned, req'[t].op = "rename",
             \A u \in Threads \ {t} : req'[u].at = "idle",
             \A p \in Paras : graph'.body[p] = graph.body[p],
             req'[t].at # "paragraphs",
             Filing(req'[t]) \/ Settles(graph'.live, graph.body, files'[Here']),
             HeldRename(req'[t], graph.body, files'[req'[t].path])
      PROVE  Last'
  <2>1. /\ Full(graph'.body) = Full(graph.body) /\ Listed(graph'.body) = Listed(graph.body)
        /\ NoStubs(graph'.body) <=> NoStubs(graph.body)
        /\ \A x : SameText(graph'.body, x) <=> SameText(graph.body, x)
    BY <1>5, SameBody
  <2>2. HeldRename(req'[t], graph'.body, files'[req'[t].path])
    BY <1>5, <2>1 DEF HeldRename
  <2>3. Held(t)'
    BY <1>5, <2>2 DEF Held
  <2>4. Filing(req'[t]) \/ Settles(graph'.live, graph'.body, files'[Here'])
    BY <1>5, <2>1 DEF Settles
  <2>5. \A u \in Threads : ~Acking(req'[u])
    BY <1>5 DEF Acking
  <2>6. NoStubs(graph'.body) /\ Full(graph'.body) \in allowed' /\ ~poisoned'
    BY <1>2, <1>3, <1>5, <2>1
  <2>7. \A u \in Threads \ {t} : Held(u)'
    BY <1>5 DEF Held, HeldOpen, HeldSave, HeldRename
  <2>8. Settled' /\ Acked'
    BY <2>4, <2>5, <2>6 DEF Settled, Acked
  <2> QED
    BY <2>3, <2>6, <2>7, <2>8 DEF Last
<1>6. CASE Retitle(t)
  <2>0. /\ req[t].at = "retitle" /\ req[t].ch.paras = Listed(graph.body)
        /\ req[t].path = Here /\ req[t].ch.act = graph.act /\ req[t].ch.title = graph.title
    BY <1>0, <1>6 DEF Retitle, At, HeldRename, Placed
  <2>1. /\ files' = files /\ Unheard
        /\ graph'.live /\ graph'.title = req[t].arg /\ graph'.act = req[t].ch.act
        /\ \A p \in Paras : graph'.body[p] = graph.body[p]
    BY <1>0, <1>6, <2>0, RetitleStep
  <2>2. Settles(graph.live, graph.body, files[Here])
    BY <1>0, <1>4, <2>0 DEF Filing
  <2>3. CASE req[t].arg = req[t].ch.title
    <3>1. Others(t) /\ req'[t].op = "rename" /\ req'[t].at = "answer"
      BY <1>0, <1>6, <2>0, <2>3, RetitleStep DEF Passes, Only
    <3>2. Here' = Here
      BY <2>0, <2>1, <2>3 DEF Here
    <3>3. Settles(graph'.live, graph.body, files'[Here'])
      BY <1>2, <2>1, <2>2, <3>2 DEF Settles
    <3>4. HeldRename(req'[t], graph.body, files'[req'[t].path])
      BY <3>1 DEF HeldRename
    <3> QED
      BY <1>0, <1>5, <2>1, <3>1, <3>3, <3>4 DEF Unheard, Others
  <2>4. CASE req[t].arg # req[t].ch.title
    <3>1. /\ Others(t) /\ req'[t].op = "rename" /\ req'[t].at = "rename_file"
          /\ req'[t].path = Here
      BY <1>0, <1>6, <2>0, <2>4, RetitleStep DEF Passes, Only
    <3>2. Filing(req'[t])
      BY <3>1 DEF Filing
    <3>3. HeldRename(req'[t], graph.body, files'[req'[t].path])
      BY <1>2, <2>1, <2>2, <3>1 DEF HeldRename, Settles
    <3> QED
      BY <1>0, <1>5, <2>1, <3>1, <3>2, <3>3 DEF Unheard, Others
  <2> QED
    BY <2>3, <2>4
<1>7. CASE RenameFile(t)
  <2>1. /\ req[t].at = "rename_file" /\ graph' = graph /\ Here' = Here
        /\ allowed' = allowed /\ poisoned' = poisoned
        /\ Here = <<graph.act, graph.title>>
    BY <1>7 DEF RenameFile, At, Here
  <2>2. /\ req[t].path = <<req[t].ch.act, req[t].ch.title>> /\ graph.title = req[t].arg
        /\ req[t].ch.act = graph.act /\ req[t].arg # req[t].ch.title
    BY <1>0, <2>1 DEF Placed
  <2>3. /\ req[t].path \in Places /\ <<req[t].ch.act, req[t].arg>> = Here
        /\ req[t].path # Here
    BY <1>0, <2>1, <2>2 DEF Typed, ReqRecord
  <2>4. files[Here] = NoFile
    BY <1>0, <2>1, <2>3 DEF Orderly, Homed, HomeOf, At
  <2>5. \A u \in Threads \ {t} : req'[u].at = "idle"
    <3>1. Serving(t)
      BY <1>0, StepServes
    <3> QED
      BY <1>0, <3>1 DEF Serving
  <2>6. CASE files[req[t].path] = NoFile
    <3>1. req'[t].at = "answer" /\ files' = files /\ req'[t].op = "rename"
      BY <1>0, <1>7, <2>6, RenameEffect DEF Only
    <3>2. HeldRename(req'[t], graph.body, files'[req'[t].path])
      BY <3>1 DEF HeldRename
    <3>3. Settles(graph'.live, graph.body, files'[Here'])
      BY <2>1, <2>4, <3>1 DEF Settles
    <3> QED
      BY <1>5, <2>1, <2>5, <3>1, <3>2, <3>3
  <2>7. CASE files[req[t].path] # NoFile
    <3>1. /\ req'[t].at = "truncate" /\ req'[t].op = "rename" /\ req'[t].text = files[req[t].path]
          /\ files' = [files EXCEPT ![Here] = files[req[t].path], ![req[t].path] = NoFile]
      BY <1>0, <1>7, <2>3, <2>4, <2>7, RenameEffect DEF Only
    <3>2. files[req[t].path] # Blank /\ SameText(graph.body, files[req[t].path])
      BY <1>0, <2>1, <2>7 DEF HeldRename
    <3>3. HeldRename(req'[t], graph.body, files'[req'[t].path])
      BY <3>1, <3>2 DEF HeldRename
    <3>4. files'[Here] = files[req[t].path]
      BY <1>0, <2>3, <3>1
    <3>5. Settles(graph'.live, graph.body, files'[Here'])
      BY <2>1, <3>2, <3>4 DEF Settles
    <3> QED
      BY <1>5, <2>1, <2>5, <3>1, <3>3, <3>5
  <2> QED
    BY <2>6, <2>7
<1>8. CASE Truncate(t)
  <2>1. /\ graph' = graph /\ Unheard /\ Others(t)
        /\ req'[t].op = "rename" /\ req'[t].text = req[t].text
        /\ req[t].at = "truncate" /\ req'[t].at = "write"
    BY <1>0, <1>8, TruncateStep DEF Passes, Only
  <2>2. HeldRename(req'[t], graph.body, files'[req'[t].path])
    BY <1>0, <2>1 DEF HeldRename
  <2>3. Filing(req'[t])
    BY <2>1 DEF Filing
  <2> QED
    BY <1>0, <1>5, <2>1, <2>2, <2>3 DEF Unheard, Others
<1>9. CASE Write(t)
  <2>1. /\ graph' = graph /\ files' = Filled(t, req[t].text) /\ Unheard /\ Others(t)
        /\ req'[t].op = "rename" /\ req[t].at = "write" /\ req'[t].at = "snapshot"
    BY <1>0, <1>9, WriteStep DEF Passes, Only, AfterWrite
  <2>2. /\ req[t].fd = Here /\ Here # NoFile /\ Here' = Here
        /\ req[t].text # Blank /\ SameText(graph.body, req[t].text)
    BY <1>0, <2>1, ContentAssumption DEF Placed, HeldRename, Here
  <2>3. files'[Here] = req[t].text
    BY <1>0, <2>1, <2>2 DEF Filled
  <2>4. Settles(graph'.live, graph.body, files'[Here'])
    BY <2>1, <2>2, <2>3 DEF Settles
  <2>5. HeldRename(req'[t], graph.body, files'[req'[t].path])
    BY <2>1 DEF HeldRename
  <2> QED
    BY <1>0, <1>5, <2>1, <2>4, <2>5 DEF Unheard, Others
<1>10. CASE Snapshot(t)
  <2>1. /\ graph' = graph /\ files' = files /\ Unheard /\ Others(t)
        /\ req'[t].op = "rename" /\ req[t].at = "snapshot" /\ req'[t].at = "answer"
    BY <1>0, <1>10, SnapshotStep DEF Unmoved, Passes, Only
  <2>2. Settles(graph'.live, graph.body, files'[Here'])
    <3>1. ~Filing(req[t]) /\ Here' = Here
      BY <2>1 DEF Filing, Here
    <3> QED
      BY <1>4, <2>1, <3>1
  <2>3. HeldRename(req'[t], graph.body, files'[req'[t].path])
    BY <2>1 DEF HeldRename
  <2> QED
    BY <1>0, <1>5, <2>1, <2>2, <2>3 DEF Unheard, Others
<1>11. ~CommitFails(t)
  BY <1>0, <1>2, CommitFailsStep
<1> QED
  BY <1>1, <1>6, <1>7, <1>8, <1>9, <1>10, <1>11 DEF ServeStep, Load, EnterScope, Choose, Read, DiffGone,
     DiffBlank, Diff, SaveParagraph, SaveChapter, TruncateBack, WriteBack, LeaveScope, Adopt,
     RemoveFile, Drop, Answer, At

\* and a step of a move or a delete does.
LEMMA AwayLast ==
    ASSUME Basic, Orderly, Last, NEW t \in Threads, ServeStep(t), ~parted',
           req[t].op \in {"move", "delete"}, req[t].at \notin Outside
    PROVE  Last'
<1>0. /\ Typed /\ Sane(req[t]) /\ Placed(t)
      /\ \A u \in Threads \ {t} : req[u].at = "idle" /\ ~Filing(req[u])
      /\ \A u \in Threads \ {t} : req[u].at # "paragraphs" /\ req[u].at \in Outside
      /\ files \in [Places -> Contents] /\ Here \in Places /\ graph.body \in Bodies
  <2>1. Active(t) /\ req[t].op \in Displacing
    BY DEF Active, Displacing, Outside
  <2>2. \A u \in Threads \ {t} : /\ req[u].at \in Outside /\ ~Filing(req[u])
                                 /\ req[u].at # "paragraphs" /\ req[u].at = "idle"
    BY <2>1, Alone DEF Orderly
  <2>3. files \in [Places -> Contents] /\ Here \in Places /\ graph.body \in Bodies
    BY DEF Basic, Typed, GraphRecord, Here, Places
  <2> QED
    BY <2>2, <2>3 DEF Basic, Orderly
<1>1. req[t].at \in {"adopt", "remove_file", "drop"}
  BY <1>0 DEF Sane, Outside, Typed, ReqRecord, Steps
<1>2. graph.live /\ ~poisoned
  BY <1>0, <1>1 DEF Placed, Last
<1>3. NoStubs(graph.body) /\ Full(graph.body) \in allowed
  BY <1>0, <1>1, <1>2 DEF Last, Acked
<1>4. Settles(graph.live, graph.body, files[Here])
  BY <1>0, <1>1 DEF Last, Settled, Filing
<1>5. ASSUME allowed' = allowed, poisoned' = poisoned, req'[t].op = req[t].op,
             \A u \in Threads \ {t} : req'[u] = req[u] \/ req'[u].at = "idle",
             graph' = graph \/ ~graph'.live,
             req'[t].at \in {"answer", "drop"},
             Settles(graph'.live, graph'.body, files'[Here'])
      PROVE  Last'
  <2>1. \A u \in Threads : Held(u)'
    <3>1. Held(t)'
      BY <1>5 DEF Held
    <3>2. \A u \in Threads \ {t} : req'[u].at = "idle"
      BY <1>0, <1>5
    <3>3. \A u \in Threads \ {t} : Held(u)'
      BY <3>2 DEF Held, HeldOpen, HeldSave, HeldRename
    <3> QED
      BY <3>1, <3>3
  <2>2. \A u \in Threads : ~Acking(req'[u])
    BY <1>0, <1>5 DEF Acking
  <2>3. Settled' /\ Acked'
    BY <1>3, <1>5, <2>2 DEF Settled, Acked
  <2>4. ~poisoned'
    BY <1>2, <1>5
  <2> QED
    BY <2>1, <2>3, <2>4 DEF Last
<1>6. CASE Adopt(t)
  <2>1. /\ graph' = graph /\ files' = files /\ Unheard /\ Others(t) /\ req'[t].op = req[t].op
        /\ req'[t].at = "answer" /\ Here' = Here
    BY <1>0, <1>6, AdoptStep DEF Passes, Only, Here
  <2> QED
    BY <1>4, <1>5, <2>1 DEF Unheard, Others
<1>7. CASE RemoveFile(t)
  <2>1. /\ req[t].at = "remove_file" /\ graph' = graph /\ Here' = Here
        /\ files' = [files EXCEPT ![req[t].path] = NoFile]
        /\ allowed' = allowed /\ poisoned' = poisoned
    BY <1>7 DEF RemoveFile, At, Here
  <2>2. req[t].path = Here
    BY <1>0, <2>1 DEF Placed
  <2>3. Settles(graph'.live, graph'.body, files'[Here'])
    BY <1>0, <2>1, <2>2 DEF Settles
  <2>4. /\ req'[t].at = "drop" /\ req'[t].op = req[t].op
        /\ \A u \in Threads \ {t} : req'[u].at = req[u].at
    BY <1>0, <1>7, RemoveEffect DEF Only
  <2> QED
    BY <1>0, <1>5, <2>1, <2>3, <2>4
<1>8. CASE Drop(t)
  <2>1. /\ files' = files /\ Unheard /\ Others(t) /\ req'[t].op = req[t].op
        /\ req'[t].at = "answer" /\ ~graph'.live
    BY <1>0, <1>8, DropStep DEF Passes, Only
  <2>2. Settles(graph'.live, graph'.body, files'[Here'])
    BY <2>1 DEF Settles
  <2> QED
    BY <1>5, <2>1, <2>2 DEF Unheard, Others
<1>9. ~CommitFails(t)
  BY <1>0, <1>2, CommitFailsStep
<1> QED
  BY <1>1, <1>6, <1>7, <1>8, <1>9 DEF ServeStep, Load, EnterScope, Choose, Truncate, Write, Read,
     DiffGone, DiffBlank, Diff, SaveParagraph, SaveChapter, TruncateBack, WriteBack, LeaveScope,
     Retitle, RenameFile, Snapshot, Answer, At

\* So does any step of a request that leaves chapter and file together,
LEMMA ServeLast ==
    ASSUME Basic, Orderly, Last, {} \notin Texts, NEW t \in Threads, ServeStep(t), ~parted'
    PROVE  Last'
<1>1. CASE Load(t) \/ EnterScope(t) \/ Answer(t)
  BY <1>1, OutsideLast
<1>2. CASE ~(Load(t) \/ EnterScope(t) \/ Answer(t))
  <2>1. req[t].at \in Steps /\ req[t].op \in Operations /\ Sane(req[t])
    BY DEF Basic, Typed, ReqRecord
  <2>2. req[t].at \notin Outside
    BY <1>2 DEF ServeStep, Choose, Truncate, Write, Read, DiffGone, DiffBlank, Diff, CommitFails,
       Commits, SaveParagraph, SaveChapter, TruncateBack, WriteBack, LeaveScope, Retitle,
       RenameFile, Snapshot, Adopt, RemoveFile, Drop, At, Outside
  <2>3. CASE req[t].op \in {"save", "open"}
    <3>1. InScope(req[t])
      BY <2>1, <2>2, <2>3 DEF Sane, InScope, Outside, Steps
    <3> QED
      BY <2>3, <3>1, OpenLast, SaveLast
  <2>4. CASE req[t].op = "rename"
    BY <2>2, <2>4, RenameLast
  <2>5. CASE req[t].op \in {"move", "delete"}
    BY <2>2, <2>5, AwayLast
  <2> QED
    BY <2>1, <2>3, <2>4, <2>5 DEF Operations
<1> QED
  BY <1>1, <1>2

\* and the beginning of one.
LEMMA BeginLast ==
    ASSUME Basic, Last, NEW t \in Threads, NEW op \in Operations, NEW arg \in Arguments,
           Begin(t, op, arg)
    PROVE  Last'
<1>1. /\ req'[t].op = op /\ req'[t].at = "load"
      /\ \A u \in Threads \ {t} : req'[u] = req[u]
  BY BeginEffect DEF Basic, Others
<1>2. /\ graph' = graph /\ files' = files /\ Here' = Here /\ req[t].at = "idle"
      /\ poisoned' = poisoned /\ allowed \subseteq allowed'
  BY DEF Begin, Here, Active
<1>3. \A u \in Threads \ {t} : overlap[u] \subseteq overlap'[u]
  BY DEF Begin, Basic, Typed
<1>4. Settled'
  BY <1>1, <1>2 DEF Last, Settled, Filing
<1>5. Acked'
  <2>1. ~Acking(req'[t]) /\ req[t].at # "paragraphs"
    BY <1>1, <1>2 DEF Acking
  <2> QED
    BY <1>1, <1>2, <1>3, <2>1 DEF Last, Acked
<1>6. \A u \in Threads : Held(u)'
  <2>1. Held(t)'
    BY <1>1 DEF Held, HeldOpen, HeldSave, HeldRename
  <2> QED
    BY <1>1, <1>2, <2>1 DEF Last, Held
<1> QED
  BY <1>2, <1>4, <1>5, <1>6 DEF Last

\* Last holds at first.
LEMMA InitLast == Init => Last
<1> SUFFICES ASSUME Init PROVE Last
  OBVIOUS
<1>0. graph \in GraphRecord
  BY InitBasic DEF Basic, Typed
<1>1. PICK text \in Texts, title \in Titles, act \in Acts, there \in BOOLEAN :
      /\ graph = [live |-> TRUE, title |-> title, act |-> act,
                  body |-> [p \in Paras |-> IF p \in text THEN "full" ELSE "absent"]]
      /\ files = [f \in Places |-> IF there /\ f = <<act, title>> THEN text ELSE NoFile]
      /\ allowed = {text}
  BY DEF Init
<1>2. \A u \in Threads : req[u].at = "idle"
  <2>1. IdleReq.at = "idle"
    BY DEF IdleReq
  <2>2. req = [u \in Threads |-> IdleReq]
    BY DEF Init
  <2> QED
    BY <2>1, <2>2
<1>3. text \in SUBSET Paras /\ graph.body \in Bodies
  BY <1>0, TextsAssumption DEF GraphRecord
<1>4. SameText(graph.body, text)
  BY <1>1 DEF SameText
<1>5. Full(graph.body) = text /\ NoStubs(graph.body)
  BY <1>3, <1>4, SameFull
<1>6. Here = <<act, title>> /\ Here \in Places
  BY <1>1 DEF Here, Places
<1>7. Settled
  BY <1>1, <1>3, <1>4, <1>6, ContentAssumption DEF Settled, Settles
<1>8. Acked
  BY <1>1, <1>2, <1>5 DEF Acked, Acking
<1>9. \A u \in Threads : Held(u)
  BY <1>2 DEF Held, HeldOpen, HeldSave, HeldRename
<1> QED
  BY <1>7, <1>8, <1>9 DEF Init, Last

LastInv == Basic /\ Together /\ (~parted => Last)

\* Between requests the graph and the file hold the text of the last acknowledged
\* save, or of one that overlapped it.  Excluded are hand edits and crashes, after
\* which chapter and file differ until the next open, and the save of a text
\* without paragraphs, which the CHANGED query does not carry out.
THEOREM TheLastSaveWins ==
    ASSUME ~Edits, MaxCrashes = 0, {} \notin Texts
    PROVE  Spec => []LastSaveWins
<1>1. Init => LastInv
  BY InitBasic, InitTogether, InitLast DEF LastInv
<1>2. LastInv /\ [Next]_vars => LastInv'
  <2> SUFFICES ASSUME LastInv, [Next]_vars PROVE LastInv'
    OBVIOUS
  <2>1. (Basic /\ Together)'
    BY StepBasic, StepTogether DEF LastInv
  <2> SUFFICES ASSUME ~parted' PROVE Last'
    BY <2>1 DEF LastInv
  <2>2. CASE UNCHANGED vars
    <3>1. /\ graph' = graph /\ files' = files /\ req' = req /\ parted' = parted /\ Here' = Here
          /\ poisoned' = poisoned /\ allowed' = allowed /\ overlap' = overlap
      BY <2>2 DEF vars, Here
    <3> QED
      BY <3>1 DEF LastInv, Last, Settled, Acked, Held
  <2>3. CASE Next
    <3>1. ~parted
      BY <2>3, PartedStays
    <3>2. Basic /\ Orderly /\ Last
      BY <3>1 DEF LastInv, Together, Orderly
    <3>3. ~Edit /\ ~Crash
      BY <3>2 DEF Edit, Crash, Basic, Typed
    <3>4. ASSUME NEW t \in Threads, Request(t) PROVE Last'
      <4>1. Typed
        BY <3>2 DEF Basic
      <4>2. PICK op \in Operations : \E arg \in Arguments : Begin(t, op, arg)
        BY <3>4, <4>1, RequestEffect
      <4>3. PICK arg \in Arguments : Begin(t, op, arg)
        BY <4>2
      <4> QED
        BY <3>2, <4>3, BeginLast
    <3>5. ASSUME NEW t \in Threads, ServeStep(t) PROVE Last'
      BY <3>2, <3>5, ServeLast
    <3> QED
      BY <2>3, <3>3, <3>4, <3>5 DEF Next
  <2> QED
    BY <2>2, <2>3
<1>3. LastInv => LastSaveWins
  <2> SUFFICES ASSUME LastInv, Quiet, graph.live, ~parted
               PROVE  /\ Full(graph.body) \in allowed
                      /\ files[Here] # NoFile =>
                           files[Here] # Blank /\ SameText(graph.body, files[Here])
    BY DEF LastSaveWins
  <2>1. \A u \in Threads : req[u].at = "idle"
    BY DEF Quiet, Active
  <2> QED
    BY <2>1 DEF LastInv, Last, Settled, Acked, Settles, Filing
<1> QED
  BY <1>1, <1>2, <1>3, PTL DEF Spec

-----------------------------------------------------------------------------
(***************************************************************************)
(* Where requests are served one at a time, whatever the writer's edits,   *)
(* crashes and moves left behind: Reconciled.                              *)
(***************************************************************************)
Solo == \A t, u \in Threads : Active(t) /\ Active(u) => t = u

\* What an open or a save leaves: nothing readable, or the text of the chapter.
Agree(body, x) == x \in {NoFile, Blank, {}} \/ SameText(body, x)

Absorbs(r, g, f) ==
    /\ r.at \in {"retitle", "adopt"} => r.ch.paras = Listed(g.body)
    /\ r.op \in {"save", "open"} =>
         /\ r.at \in {"write", "back_write"} => r.fd = r.path
         /\ r.op = "open" /\ r.at \in {"enter", "locked", "truncate", "write"}
              => r.text = Full(g.body)
         /\ r.at \in {"diff", "paragraphs", "back"} => r.seen = f
         /\ r.at = "paragraphs" => g.live /\ \A p \in r.seen : p \in r.todo \/ g.body[p] = "full"
         /\ r.at \in {"back", "back_write"} => r.seen = {} \/ SameText(g.body, r.seen)
         /\ r.at \in {"leave", "answer"} /\ r.ok => Agree(g.body, f)

Absorbed(t) == Absorbs(req[t], graph, files[req[t].path])

AbsorbInv == Solo /\ NoStubs(graph.body) /\ \A t \in Threads : Absorbed(t)

\* Where requests are served one at a time there is never a second.
LEMMA SoloStep ==
    ASSUME Serial, Typed, Solo, \A t \in Threads : Sane(req[t]), [Next]_vars
    PROVE  Solo'
<1>1. CASE UNCHANGED vars
  BY <1>1 DEF vars, Solo, Active
<1>2. CASE Edit
  BY <1>2 DEF Edit, Solo, Active
<1>3. CASE Crash
  <2>1. IdleReq.at = "idle"
    BY DEF IdleReq
  <2> QED
    BY <1>3, <2>1 DEF Crash, Solo, Active
<1>4. ASSUME NEW t \in Threads, Request(t) PROVE Solo'
  <2>1. PICK op \in Operations : \E arg \in Arguments : Begin(t, op, arg)
    BY <1>4, RequestEffect
  <2>2. PICK arg \in Arguments : Begin(t, op, arg)
    BY <2>1
  <2>3. \A u \in Threads : ~Active(u)
    BY <2>2 DEF Begin, Quiet
  <2>4. \A u \in Threads \ {t} : ~Active(u)'
    BY <2>2, <2>3, BeginEffect DEF Others, Active
  <2> QED
    BY <2>4 DEF Solo
<1>5. ASSUME NEW t \in Threads, ServeStep(t) PROVE Solo'
  <2>1. Serving(t)
    BY <1>5, StepServes
  <2> QED
    BY <2>1 DEF Serving, Solo, Active
<1> QED
  BY <1>1, <1>2, <1>3, <1>4, <1>5 DEF Next

\* The chapter's own list of paragraphs, written back, changes none of them.
LEMMA AdoptKeeps ==
    ASSUME Typed, NEW t \in Threads, Sane(req[t]), Adopt(t), req[t].ch.paras = Listed(graph.body)
    PROVE  \A p \in Paras : graph'.body[p] = graph.body[p]
<1>1. CASE req[t].arg = req[t].ch.act
  BY <1>1 DEF Adopt
<1>2. CASE req[t].arg # req[t].ch.act
  <2>1. ChapterChanged(req[t].ch.title, req[t].arg, req[t].ch.paras) /\ graph \in GraphRecord
    BY <1>2 DEF Adopt, Typed
  <2>2. req[t].arg \in Acts /\ req[t].ch.title \in Titles
    BY DEF Adopt, At, Sane, Typed, ReqRecord, ChapterRecord
  <2>3. PICK title \in Titles, act \in Acts, list \in {Listed(graph.body)} :
          title = req[t].ch.title /\ act = req[t].arg
    BY <2>2
  <2>4. ChapterChanged(title, act, list)
    BY <2>1, <2>3
  <2>5. \A p \in Paras : graph'.body[p] =
             IF list = {} THEN graph.body[p]
             ELSE IF p \notin list THEN "absent"
             ELSE IF graph.body[p] = "absent" THEN "stub" ELSE graph.body[p]
    BY <2>1, <2>4, ChapterChangedEffect
  <2>6. \A p \in Paras : p \in list <=> graph.body[p] # "absent"
    BY DEF Listed
  <2> QED
    BY <2>5, <2>6
<1> QED
  BY <1>1, <1>2

\* A step of the only request keeps what it is to absorb.
LEMMA ServeAbsorbs ==
    ASSUME Typed, NEW t \in Threads, Sane(req[t]), ServeStep(t), NoStubs(graph.body), Absorbed(t)
    PROVE  NoStubs(graph'.body) /\ Absorbs(req'[t], graph', files'[req'[t].path])
<1>0. /\ files \in [Places -> Contents] /\ graph.body \in Bodies /\ req[t].path \in Places
      /\ req[t].op \in Operations /\ NoFile \notin Places
      /\ req[t].seen \in (SUBSET Paras) \cup {Blank}
  BY ContentAssumption DEF Typed, GraphRecord, ReqRecord
<1>1. Absorbs(req[t], graph, files[req[t].path])
  BY DEF Absorbed
<1>2. CASE Load(t)
  <2>1. graph' = graph /\ files' = files
    BY <1>2, LoadStep DEF Unmoved
  <2>2. CASE graph.live
    <3>1. /\ req'[t].ch = [title |-> graph.title, act |-> graph.act,
                           paras |-> Listed(graph.body)]
          /\ req'[t].text = (IF req[t].op = "save" THEN req[t].arg ELSE Full(graph.body))
          /\ req'[t].at = FirstStep(req[t].op)
          /\ req'[t].op = req[t].op
      BY <1>2, <2>2, LoadEffect DEF Only
    <3>2. req'[t].at \in {"enter", "retitle", "adopt", "remove_file"}
          /\ req'[t].ch.paras = Listed(graph.body)
      BY <1>0, <3>1 DEF FirstStep, Operations
    <3> QED
      BY <2>1, <3>1, <3>2 DEF Absorbs
  <2>3. CASE ~graph.live
    <3>1. req'[t].at = "answer" /\ req'[t].ok = FALSE
      BY <1>2, <2>3, LoadEffect
    <3> QED
      BY <2>1, <3>1 DEF Absorbs
  <2> QED
    BY <2>2, <2>3
<1>3. CASE EnterScope(t)
  <2>1. /\ graph' = graph /\ req[t].at = "enter" /\ req'[t].at = "locked"
        /\ req'[t].op = req[t].op /\ req'[t].text = req[t].text
    BY <1>3, EnterStep DEF Unmoved, Passes, Only
  <2> QED
    BY <1>1, <2>1 DEF Absorbs
<1>4. CASE Choose(t)
  <2>1. /\ graph' = graph /\ req[t].at = "locked" /\ req'[t].at \in {"truncate", "read"}
        /\ req'[t].op = req[t].op /\ req'[t].text = req[t].text
    BY <1>4, ChooseStep DEF Unmoved, Passes, Only
  <2> QED
    BY <1>1, <2>1 DEF Absorbs
<1>5. CASE Truncate(t)
  <2>1. /\ graph' = graph /\ req[t].at = "truncate" /\ req'[t].at = "write"
        /\ req'[t].op = req[t].op /\ req'[t].text = req[t].text
        /\ req'[t].fd = req[t].path /\ req'[t].path = req[t].path
    BY <1>5, TruncateStep DEF Passes, Only
  <2> QED
    BY <1>1, <2>1 DEF Absorbs
<1>6. CASE Write(t)
  <2>1. /\ graph' = graph /\ req[t].at = "write" /\ req'[t].at = AfterWrite(req[t].op)
        /\ req'[t].op = req[t].op /\ req'[t].path = req[t].path
        /\ files' = Filled(t, req[t].text) /\ req[t].op \in {"save", "open", "rename"}
    BY <1>6, WriteStep DEF Passes, Only
  <2>2. CASE req[t].op = "open"
    <3>1. req'[t].at = "leave"
      BY <2>1, <2>2 DEF AfterWrite
    <3>2. req[t].fd = req[t].path /\ req[t].text = Full(graph.body)
      BY <1>1, <2>1, <2>2 DEF Absorbs
    <3>3. files'[req[t].path] = Full(graph.body)
      BY <1>0, <2>1, <3>2 DEF Filled
    <3>4. SameText(graph.body, Full(graph.body))
      BY <1>0, SameFull
    <3> QED
      BY <2>1, <2>2, <3>1, <3>3, <3>4 DEF Absorbs, Agree
  <2>3. CASE req[t].op # "open"
    <3>1. \/ req[t].op = "save" /\ req'[t].at = "read"
          \/ req[t].op = "rename" /\ req'[t].at = "snapshot"
      BY <2>1, <2>3 DEF AfterWrite
    <3> QED
      BY <2>1, <3>1 DEF Absorbs
  <2> QED
    BY <2>2, <2>3
<1>7. CASE Read(t)
  <2>1. graph' = graph /\ files' = files
    BY <1>7, ReadStep DEF Unmoved
  <2>2. CASE files[req[t].path] = NoFile
    <3>1. req'[t].at = "leave" /\ req'[t].ok = FALSE
      BY <1>7, <2>2, ReadStep DEF Passes, Fails
    <3> QED
      BY <2>1, <3>1 DEF Absorbs
  <2>3. CASE files[req[t].path] # NoFile
    <3>1. /\ req'[t].at = "diff" /\ req'[t].seen = files[req[t].path]
          /\ req'[t].path = req[t].path
      BY <1>7, <2>3, ReadStep DEF Passes, Only
    <3> QED
      BY <2>1, <3>1 DEF Absorbs
  <2> QED
    BY <2>2, <2>3
<1>8. CASE DiffGone(t) \/ DiffBlank(t)
  <2>1. graph' = graph /\ req'[t].at = "leave" /\ req'[t].ok = FALSE
    BY <1>8, DiffGoneStep, DiffBlankStep DEF Unmoved, Passes, Fails
  <2> QED
    BY <2>1 DEF Absorbs
<1>9. CASE Diff(t)
  <2>0. req[t].at = "diff" /\ req[t].op \in {"save", "open"}
    BY <1>9 DEF Diff, At, Sane
  <2>1. /\ graph' = graph /\ files' = files /\ graph.live
        /\ req'[t].op = req[t].op /\ req'[t].path = req[t].path /\ req'[t].seen = req[t].seen
        /\ req'[t].todo = req[t].seen \ Full(graph.body) /\ req[t].seen # Blank
    BY <1>9, DiffStep DEF Unmoved, Passes, Only
  <2>2. req[t].seen = files[req[t].path]
    BY <1>1, <2>0 DEF Absorbs
  <2>3. CASE SameText(graph.body, req[t].seen)
    <3>1. req'[t].at = "leave"
      BY <1>9, <2>3, DiffStep DEF Passes
    <3> QED
      BY <2>0, <2>1, <2>2, <2>3, <3>1 DEF Absorbs, Agree
  <2>4. CASE ~SameText(graph.body, req[t].seen)
    <3>1. req'[t].at = "paragraphs"
      BY <1>9, <2>4, DiffStep DEF Passes
    <3>2. \A p \in req'[t].seen : p \in req'[t].todo \/ graph.body[p] = "full"
      BY <1>0, <2>1 DEF Full
    <3> QED
      BY <2>1, <2>2, <3>1, <3>2 DEF Absorbs
  <2> QED
    BY <2>3, <2>4
<1>10. CASE CommitFails(t)
  <2>1. /\ graph' = graph /\ req'[t].at \in {"leave", "answer"} /\ req'[t].ok = FALSE
    BY <1>10, CommitFailsStep DEF Unmoved, Passes, Fails
  <2> QED
    BY <2>1 DEF Absorbs
<1>11. CASE SaveParagraph(t)
  <2>0. req[t].at = "paragraphs" /\ req[t].op \in {"save", "open"}
    BY <1>11 DEF SaveParagraph, At, Sane
  <2>1. /\ files' = files /\ graph'.live = graph.live
        /\ req'[t].at = "paragraphs" /\ req'[t].op = req[t].op
        /\ req'[t].path = req[t].path /\ req'[t].seen = req[t].seen
    BY <1>11, ParagraphStep DEF Passes, Only
  <2>2. PICK p \in req[t].todo :
                /\ p \in Paras
                /\ req'[t].todo = req[t].todo \ {p}
                /\ graph.live => graph'.body[p] = "full"
                /\ \A x \in Paras \ {p} : graph'.body[x] = graph.body[x]
    BY <1>11, ParagraphStep
  <2>3. /\ req[t].seen = files[req[t].path] /\ graph.live
        /\ \A x \in req[t].seen : x \in req[t].todo \/ graph.body[x] = "full"
    BY <1>1, <2>0 DEF Absorbs
  <2>4. req[t].seen \subseteq Paras
    BY <1>0, <2>0 DEF Sane
  <2>5. \A x \in req'[t].seen : x \in req'[t].todo \/ graph'.body[x] = "full"
    BY <2>1, <2>2, <2>3, <2>4
  <2>6. NoStubs(graph'.body)
    BY <2>2, <2>3 DEF NoStubs
  <2> QED
    BY <2>1, <2>3, <2>5, <2>6 DEF Absorbs
<1>12. CASE SaveChapter(t)
  <2>0. req[t].at = "paragraphs" /\ req[t].op \in {"save", "open"}
    BY <1>12 DEF SaveChapter, At, Sane
  <2>1. /\ files' = files /\ req[t].todo = {} /\ req'[t].at = "back" /\ req'[t].op = req[t].op
        /\ req'[t].path = req[t].path /\ req'[t].seen = req[t].seen
    BY <1>12, ChapterStep DEF Passes, Only
  <2>2. \A p \in Paras : graph'.body[p] =
                IF req[t].seen = {} THEN graph.body[p]
                ELSE IF p \notin req[t].seen THEN "absent"
                ELSE IF graph.body[p] = "absent" THEN "stub" ELSE graph.body[p]
    BY <1>12, ChapterStep
  <2>3. /\ req[t].seen = files[req[t].path]
        /\ \A x \in req[t].seen : x \in req[t].todo \/ graph.body[x] = "full"
    BY <1>1, <2>0 DEF Absorbs
  <2>4. NoStubs(graph'.body)
    BY <2>1, <2>2, <2>3 DEF NoStubs
  <2>5. req[t].seen = {} \/ SameText(graph'.body, req[t].seen)
    BY <2>1, <2>2, <2>3 DEF SameText
  <2> QED
    BY <2>1, <2>3, <2>4, <2>5 DEF Absorbs
<1>13. CASE TruncateBack(t)
  <2>0. graph' = graph /\ req[t].at = "back" /\ req[t].op \in {"save", "open"}
    BY <1>13, BackStep DEF Sane, TruncateBack, At
  <2>1. CASE files[req[t].path] = NoFile
    <3>1. req'[t].at = "leave" /\ req'[t].ok = FALSE
      BY <1>13, <2>1, BackStep DEF Passes, Fails
    <3> QED
      BY <2>0, <3>1 DEF Absorbs
  <2>2. CASE files[req[t].path] # NoFile
    <3>1. /\ req'[t].at = "back_write" /\ req'[t].op = req[t].op /\ req'[t].seen = req[t].seen
          /\ req'[t].fd = req[t].path /\ req'[t].path = req[t].path
      BY <1>13, <2>2, BackStep DEF Passes, Only
    <3> QED
      BY <1>1, <2>0, <3>1 DEF Absorbs
  <2> QED
    BY <2>1, <2>2
<1>14. CASE WriteBack(t)
  <2>1. /\ graph' = graph /\ req[t].at = "back_write" /\ req'[t].at = "leave"
        /\ req'[t].op = req[t].op /\ req'[t].path = req[t].path
        /\ files' = Filled(t, req[t].seen)
    BY <1>14, WriteBackStep DEF Passes, Only
  <2>2. req[t].op \in {"save", "open"}
    BY <2>1 DEF Sane
  <2>3. /\ req[t].fd = req[t].path
        /\ req[t].seen = {} \/ SameText(graph.body, req[t].seen)
    BY <1>1, <2>1, <2>2 DEF Absorbs
  <2>4. files'[req[t].path] = req[t].seen
    BY <1>0, <2>1, <2>3 DEF Filled
  <2> QED
    BY <2>1, <2>3, <2>4 DEF Absorbs, Agree
<1>15. CASE LeaveScope(t)
  <2>1. /\ graph' = graph /\ files' = files /\ req[t].at = "leave" /\ req'[t].at = "answer"
        /\ req'[t].op = req[t].op /\ req'[t].path = req[t].path /\ req'[t].ok = req[t].ok
    BY <1>15, LeaveStep DEF Unmoved, Passes, Only
  <2> QED
    BY <1>1, <2>1 DEF Absorbs
<1>16. CASE Retitle(t)
  <2>0. req[t].at = "retitle" /\ req[t].op = "rename" /\ req[t].ch.paras = Listed(graph.body)
    BY <1>1, <1>16 DEF Retitle, At, Sane, Absorbs
  <2>1. /\ req'[t].at \in {"answer", "rename_file"} /\ req'[t].op = "rename"
        /\ \A p \in Paras : graph'.body[p] = graph.body[p]
    BY <1>16, <2>0, RetitleStep DEF Passes, Only
  <2> QED
    BY <2>1, SameBody DEF Absorbs
<1>17. CASE RenameFile(t)
  <2>0. req[t].op = "rename" /\ graph' = graph
    BY <1>17 DEF RenameFile, At, Sane
  <2>1. req'[t].at \in {"answer", "truncate"} /\ req'[t].op = req[t].op
    BY <1>17, RenameEffect DEF Only
  <2> QED
    BY <2>0, <2>1 DEF Absorbs
<1>18. CASE Adopt(t)
  <2>0. req[t].at = "adopt" /\ req[t].op = "move" /\ req[t].ch.paras = Listed(graph.body)
    BY <1>1, <1>18 DEF Adopt, At, Sane, Absorbs
  <2>1. /\ req'[t].at = "answer" /\ req'[t].op = "move"
        /\ \A p \in Paras : graph'.body[p] = graph.body[p]
    BY <1>18, <2>0, AdoptStep, AdoptKeeps DEF Passes, Only
  <2> QED
    BY <2>1, SameBody DEF Absorbs
<1>19. CASE RemoveFile(t)
  <2>1. graph' = graph /\ req'[t].at = "drop"
    BY <1>19, RemoveEffect DEF RemoveFile
  <2> QED
    BY <2>1 DEF Absorbs
<1>20. CASE Drop(t)
  <2>1. /\ req'[t].at = "answer" /\ req'[t].op = "delete"
        /\ \A p \in Paras : graph'.body[p] = "absent"
    BY <1>20, DropStep DEF Passes, Only, Sane
  <2> QED
    BY <2>1 DEF Absorbs, NoStubs
<1>21. CASE Answer(t)
  <2>1. graph' = graph /\ req'[t].at = "idle"
    BY <1>21, AnswerStep, AnswerEffect DEF Unmoved
  <2> QED
    BY <2>1 DEF Absorbs
<1>22. CASE Snapshot(t)
  <2>0. req[t].op = "rename"
    BY <1>22 DEF Snapshot, At, Sane
  <2>1. graph' = graph /\ req'[t].at = "answer" /\ req'[t].op = "rename"
    BY <1>22, <2>0, SnapshotStep DEF Unmoved, Passes, Only
  <2> QED
    BY <2>1 DEF Absorbs
<1> QED
  BY <1>2, <1>3, <1>4, <1>5, <1>6, <1>7, <1>8, <1>9, <1>10, <1>11, <1>12, <1>13, <1>14, <1>15,
     <1>16, <1>17, <1>18, <1>19, <1>20, <1>21, <1>22 DEF ServeStep

\* The invariant of Reconciled holds at first,
LEMMA InitAbsorb == Init => AbsorbInv
<1> SUFFICES ASSUME Init PROVE AbsorbInv
  OBVIOUS
<1>1. NoStubs(graph.body)
  <2>1. PICK text \in Texts, title \in Titles, act \in Acts, there \in BOOLEAN :
      /\ graph = [live |-> TRUE, title |-> title, act |-> act,
                  body |-> [p \in Paras |-> IF p \in text THEN "full" ELSE "absent"]]
      /\ files = [f \in Places |-> IF there /\ f = <<act, title>> THEN text ELSE NoFile]
      /\ allowed = {text}
    BY DEF Init
  <2> QED
    BY <2>1 DEF NoStubs
<1>2. \A u \in Threads : req[u].at = "idle"
  <2>1. IdleReq.at = "idle"
    BY DEF IdleReq
  <2>2. req = [u \in Threads |-> IdleReq]
    BY DEF Init
  <2> QED
    BY <2>1, <2>2
<1> QED
  BY <1>1, <1>2 DEF AbsorbInv, Solo, Active, Absorbed, Absorbs

\* and every step keeps it.
LEMMA StepAbsorb ==
    ASSUME Serial, Basic, AbsorbInv, [Next]_vars
    PROVE  AbsorbInv'
<1>0. Solo'
  BY SoloStep DEF Basic, AbsorbInv
<1>1. CASE UNCHANGED vars
  BY <1>0, <1>1 DEF vars, AbsorbInv, Absorbed
<1>2. CASE Edit \/ Crash
  <2>1. graph' = graph
    BY <1>2 DEF Edit, Crash
  <2>2. \A u \in Threads : req'[u].at = "idle"
    <3>1. CASE Edit
      BY <3>1 DEF Edit, Quiet, Active
    <3>2. CASE Crash
      BY <3>2, CrashBasic DEF Active
    <3> QED
      BY <1>2, <3>1, <3>2
  <2> QED
    BY <1>0, <2>1, <2>2 DEF AbsorbInv, Absorbed, Absorbs
<1>3. ASSUME NEW t \in Threads, Request(t) PROVE AbsorbInv'
  <2>0. Typed
    BY DEF Basic
  <2>1. PICK op \in Operations : \E arg \in Arguments : Begin(t, op, arg)
    BY <1>3, <2>0, RequestEffect
  <2>2. PICK arg \in Arguments : Begin(t, op, arg)
    BY <2>1
  <2>3. graph' = graph /\ files' = files
    BY <2>2 DEF Begin
  <2>4. req'[t].at = "load" /\ \A u \in Threads \ {t} : req'[u] = req[u]
    BY <2>0, <2>2, BeginEffect DEF Others
  <2>5. \A u \in Threads \ {t} : Absorbed(u)'
    BY <2>3, <2>4 DEF AbsorbInv, Absorbed
  <2>6. Absorbed(t)'
    BY <2>4 DEF Absorbed, Absorbs
  <2> QED
    BY <1>0, <2>3, <2>5, <2>6 DEF AbsorbInv
<1>4. ASSUME NEW t \in Threads, ServeStep(t) PROVE AbsorbInv'
  <2>1. NoStubs(graph'.body) /\ Absorbs(req'[t], graph', files'[req'[t].path])
    BY <1>4, ServeAbsorbs DEF Basic, AbsorbInv
  <2>2. Serving(t)
    BY <1>4, StepServes DEF Basic
  <2>3. \A u \in Threads \ {t} : req'[u].at = "idle"
    BY <2>2 DEF Serving, AbsorbInv, Solo, Active
  <2>4. \A u \in Threads \ {t} : Absorbed(u)'
    BY <2>3 DEF Absorbed, Absorbs
  <2>5. Absorbed(t)'
    BY <2>1 DEF Absorbed
  <2> QED
    BY <1>0, <2>1, <2>4, <2>5 DEF AbsorbInv
<1> QED
  BY <1>1, <1>2, <1>3, <1>4 DEF Next

\* Which step answers a request, where requests are served one at a time.
LEMMA AnswersBy ==
    ASSUME Basic, Solo, [Next]_vars, NEW t \in Threads, Answers(t)
    PROVE  Answer(t) \/ req'[t].answer = NoText
<1>1. req[t].at = "answer" /\ req'[t].at = "idle" /\ Active(t)
  BY DEF Answers, At, Active
<1>2. CASE UNCHANGED vars
  BY <1>1, <1>2 DEF vars
<1>3. CASE Edit
  BY <1>1, <1>3 DEF Edit
<1>4. CASE Crash
  <2>1. req'[t] = IdleReq
    BY <1>4, CrashBasic
  <2> QED
    BY <2>1 DEF IdleReq
<1>5. ASSUME NEW u \in Threads, Request(u) PROVE FALSE
  <2>0. Typed
    BY DEF Basic
  <2>1. PICK op \in Operations : \E arg \in Arguments : Begin(u, op, arg)
    BY <1>5, <2>0, RequestEffect
  <2>2. PICK arg \in Arguments : Begin(u, op, arg)
    BY <2>1
  <2>3. u # t
    BY <1>1, <2>2 DEF Begin
  <2> QED
    BY <1>1, <2>0, <2>2, <2>3, BeginEffect DEF Others
<1>6. ASSUME NEW u \in Threads, ServeStep(u) PROVE Answer(t)
  <2>1. u = t
    BY <1>1, <1>6, StepServes DEF Basic, Serving, Solo
  <2> QED
    BY <1>1, <1>6, <2>1 DEF ServeStep, Load, EnterScope, Choose, Truncate, Write,
     Read, DiffGone, DiffBlank, Diff, CommitFails, Commits, SaveParagraph, SaveChapter,
     TruncateBack, WriteBack, LeaveScope, Retitle, RenameFile, Snapshot, Adopt, RemoveFile, Drop, At
<1> QED
  BY <1>2, <1>3, <1>4, <1>5, <1>6 DEF Next

\* Where requests are served one at a time, the text an open or a save answers is
\* that of the graph, whatever edits, crashes, renames and moves came before.
THEOREM ServedAloneIsReconciled ==
    ASSUME Serial
    PROVE  Spec => Reconciled
<1>1. Init => Basic /\ AbsorbInv
  BY InitBasic, InitAbsorb
<1>2. Basic /\ AbsorbInv /\ [Next]_vars => (Basic /\ AbsorbInv)'
  BY StepBasic, StepAbsorb
<1>3. Basic /\ AbsorbInv /\ [Next]_vars =>
        [\A t \in Threads :
           /\ Answers(t) /\ req'[t].answer \notin {NoText, {}, Blank}
           /\ \A u \in Threads \ {t} : ~Active(u)
           => SameText(graph.body, req'[t].answer)]_vars
  <2> SUFFICES ASSUME Basic, AbsorbInv, [Next]_vars, NEW t \in Threads,
                      Answers(t), req'[t].answer \notin {NoText, {}, Blank}
               PROVE  SameText(graph.body, req'[t].answer)
    OBVIOUS
  <2>1. Answer(t) /\ Typed
    BY AnswersBy DEF AbsorbInv, Basic
  <2>2. /\ req[t].ok /\ req[t].op \in {"save", "open"} /\ files[req[t].path] # NoFile
        /\ req'[t].answer = files[req[t].path]
    BY <2>1, AnswerEffect
  <2>3. req[t].at = "answer"
    BY <2>1 DEF Answer, At
  <2>4. Agree(graph.body, files[req[t].path])
    BY <2>2, <2>3 DEF AbsorbInv, Absorbed, Absorbs
  <2> QED
    BY <2>2, <2>4 DEF Agree
<1> QED
  BY <1>1, <1>2, <1>3, PTL DEF Spec, Reconciled

-----------------------------------------------------------------------------
(***************************************************************************)
(* Where requests are served one at a time, until chapter and file are     *)
(* parted: AnswersCurrentText.  Every file holds a text a reader may       *)
(* expect, or half of a write; without a file the graph does.              *)
(***************************************************************************)
Awaits(r, expected, here, f) ==
    /\ r.op = "save" =>
         /\ r.at \in {"enter", "locked", "truncate", "write"} => r.text = r.arg
         /\ r.at \in {"read", "diff", "paragraphs", "back"} => here = r.arg
         /\ r.at \in {"diff", "paragraphs", "back", "back_write"} => r.seen = r.arg
         /\ r.at \in {"leave", "answer"} /\ r.ok => f = r.arg
    /\ r.op = "open" =>
         /\ r.at \in {"enter", "locked"} /\ here = NoFile => r.text \in expected
         /\ r.at \in {"truncate", "write"} => r.text \in expected
         /\ r.at = "diff" => r.seen \in expected \cup {Blank}
         /\ r.at \in {"paragraphs", "back", "back_write"} => r.seen \in expected
         /\ r.at \in {"leave", "answer"} /\ r.ok => f \in expected
    /\ r.op = "rename" =>
         (r.at \in {"truncate", "write"} => r.text \in expected \cup {Blank})

\* A save that is to be acknowledged is at the chapter's place.
Awaited(t) ==
    /\ Awaits(req[t], allowed, files[Here], files[req[t].path])
    /\ req[t].op = "save" =>
         /\ overlap[t] = {}
         /\ req[t].at = "answer" /\ req[t].ok => req[t].path = Here

Readable == \A f \in Places : files[f] \in allowed \cup {NoFile, Blank}

\* What an open would write into the file that is missing.
Restorable ==
    /\ graph.live
    /\ \A f \in Places : files[f] = NoFile
    /\ \A t \in Threads : ~At(t, "drop")
    => Full(graph.body) \in allowed

Current == Readable /\ Restorable /\ \A t \in Threads : Awaited(t)

(***************************************************************************)
(* The step of the only request served.                                    *)
(***************************************************************************)
LEMMA CurrentFrame ==
    ASSUME Current, NEW t \in Threads,
           \A u \in Threads \ {t} : req'[u].at = "idle" /\ req'[u].op = req[u].op,
           overlap' = overlap, req'[t].op = req[t].op,
           Readable', Restorable',
           Awaits(req'[t], allowed', files'[Here'], files'[req'[t].path]),
           req'[t].op = "save" /\ req'[t].at = "answer" /\ req'[t].ok => req'[t].path = Here'
    PROVE  Current'
<1>1. Awaited(t)'
  BY DEF Current, Awaited
<1>2. \A u \in Threads \ {t} : Awaited(u)'
  <2> SUFFICES ASSUME NEW u \in Threads \ {t} PROVE Awaited(u)'
    OBVIOUS
  <2>1. req'[u].at = "idle" /\ req'[u].op = req[u].op
    OBVIOUS
  <2>2. Awaits(req'[u], allowed', files'[Here'], files'[req'[u].path])
    BY <2>1 DEF Awaits
  <2>3. req[u].op = "save" => overlap'[u] = {}
    BY DEF Current, Awaited
  <2> QED
    BY <2>1, <2>2, <2>3 DEF Awaited
<1> QED
  BY <1>1, <1>2 DEF Current

\* Where no call displaces the chapter its only file is at its place.
LEMMA OnlyHere ==
    ASSUME Homed, \A u \in Threads : ~Displaces(req[u]), NEW f \in Places, f # Here
    PROVE  files[f] = NoFile
  BY HomedPlainly

\* A step of the only request keeps Current;
LEMMA ServeCurrent ==
    ASSUME Basic, Orderly, AbsorbInv, Current, NEW t \in Threads, ServeStep(t), ~parted'
    PROVE  Current'
<1>0. /\ Typed /\ Sane(req[t]) /\ Placed(t) /\ Absorbs(req[t], graph, files[req[t].path])
      /\ files \in [Places -> Contents] /\ graph.body \in Bodies /\ req[t].path \in Places
      /\ Here \in Places /\ req[t].op \in Operations /\ NoFile \notin Places
      /\ req[t].seen \in (SUBSET Paras) \cup {Blank}
      /\ allowed \subseteq SUBSET Paras
  <2>1. graph.title \in Titles /\ graph.act \in Acts
    BY DEF Basic, Typed, GraphRecord
  <2>2. Here \in Places
    BY <2>1 DEF Here, Places
  <2> QED
    BY <2>2, ContentAssumption
       DEF Basic, Orderly, AbsorbInv, Absorbed, Typed, GraphRecord, ReqRecord
<1>1. Awaits(req[t], allowed, files[Here], files[req[t].path])
  BY DEF Current, Awaited
<1>2. /\ \A u \in Threads \ {t} : req'[u].at = "idle" /\ req'[u].op = req[u].op
      /\ req'[t].op = req[t].op /\ req'[t].arg = req[t].arg
      /\ \A u \in Threads \ {t} : ~Displaces(req[u]) /\ ~At(u, "drop")
  <2>1. Serving(t)
    BY <1>0, StepServes
  <2>2. \A u \in Threads \ {t} : req[u].at = "idle"
    BY <2>1 DEF Serving, AbsorbInv, Solo, Active
  <2> QED
    BY <2>1, <2>2 DEF Serving, Displaces, At
<1>3. overlap' = overlap
  BY RacedStep
<1>4. \A x \in allowed : x \notin {NoFile, Blank}
  BY <1>0, ContentAssumption
\* Steps that leave chapter and files where they are.
<1>5. ASSUME graph' = graph, files' = files, allowed' = allowed, req'[t].at # "idle",
             req[t].at # "drop",
             Awaits(req'[t], allowed, files[Here], files[req'[t].path]),
             req'[t].op = "save" /\ req'[t].at = "answer" /\ req'[t].ok => req'[t].path = Here
      PROVE  Current'
  <2>1. Here' = Here
    BY <1>5 DEF Here
  <2>2. Readable'
    BY <1>5 DEF Current, Readable
  <2>3. Restorable'
    BY <1>2, <1>5 DEF Current, Restorable, At
  <2> QED
    BY <1>2, <1>3, <1>5, <2>1, <2>2, <2>3, CurrentFrame
\* Steps that write one file and leave the graph.
<1>6. ASSUME graph' = graph, allowed' = allowed,
             NEW x \in allowed \cup {Blank}, files' = [files EXCEPT ![Here] = x],
             Awaits(req'[t], allowed, x, files'[req'[t].path]),
             req'[t].op = "save" /\ req'[t].at = "answer" /\ req'[t].ok => req'[t].path = Here
      PROVE  Current'
  <2>1. Here' = Here /\ files'[Here] = x
    BY <1>0, <1>6 DEF Here
  <2>2. Readable'
    BY <1>0, <1>6 DEF Current, Readable
  <2>3. x # NoFile
    BY <1>4, ContentAssumption
  <2>4. Restorable'
    BY <1>0, <2>1, <2>3 DEF Restorable
  <2> QED
    BY <1>2, <1>3, <1>6, <2>1, <2>2, <2>4, CurrentFrame
<1>7. CASE Load(t)
  <2>1. graph' = graph /\ files' = files /\ allowed' = allowed /\ req[t].at = "load"
    BY <1>7, LoadStep DEF Unmoved, Unheard
  <2>2. CASE graph.live
    <3>1. /\ req'[t].text = (IF req[t].op = "save" THEN req[t].arg ELSE Full(graph.body))
          /\ req'[t].at = FirstStep(req[t].op)
      BY <1>0, <1>7, <2>2, LoadEffect
    <3>2. req'[t].at \in {"enter", "retitle", "adopt", "remove_file"}
      BY <1>0, <3>1 DEF FirstStep, Operations
    <3>3. \A u \in Threads : ~Displaces(req[u]) /\ ~At(u, "drop")
      BY <1>2, <2>1 DEF Displaces, At
    <3>4. files[Here] = NoFile => Full(graph.body) \in allowed
      BY <2>2, <3>3, OnlyHere DEF Orderly, Current, Restorable
    <3>5. Awaits(req'[t], allowed, files[Here], files[req'[t].path])
      BY <1>2, <3>1, <3>2, <3>4 DEF Awaits
    <3> QED
      BY <1>5, <2>1, <3>2, <3>5
  <2>3. CASE ~graph.live
    <3>1. req'[t].at = "answer" /\ req'[t].ok = FALSE
      BY <1>0, <1>7, <2>3, LoadEffect
    <3>2. Awaits(req'[t], allowed, files[Here], files[req'[t].path])
      BY <3>1 DEF Awaits
    <3> QED
      BY <1>5, <2>1, <3>1, <3>2
  <2> QED
    BY <2>2, <2>3
<1>8. CASE EnterScope(t)
  <2>1. /\ graph' = graph /\ files' = files /\ allowed' = allowed
        /\ req[t].at = "enter" /\ req'[t].at = "locked" /\ req'[t].text = req[t].text
    BY <1>0, <1>8, EnterStep DEF Unmoved, Unheard, Passes, Only
  <2>2. Awaits(req'[t], allowed, files[Here], files[req'[t].path])
    BY <1>1, <1>2, <2>1 DEF Awaits
  <2> QED
    BY <1>5, <2>1, <2>2
<1>9. CASE Choose(t)
  <2>0. req[t].at = "locked" /\ req[t].path = Here /\ req[t].op \in {"save", "open"}
    BY <1>0, <1>9 DEF Choose, At, Placed, Sane
  <2>1. /\ graph' = graph /\ files' = files /\ allowed' = allowed
        /\ req'[t].text = req[t].text
        /\ \/ /\ req[t].op = "save" \/ files[Here] = NoFile
              /\ req'[t].at = "truncate"
           \/ req[t].op # "save" /\ req'[t].at = "read"
    BY <1>0, <1>9, <2>0, ChooseStep DEF Unmoved, Unheard, Passes, Only
  <2>2. Awaits(req'[t], allowed, files[Here], files[req'[t].path])
    BY <1>1, <1>2, <2>0, <2>1 DEF Awaits
  <2> QED
    BY <1>5, <2>0, <2>1, <2>2
<1>10. CASE Truncate(t)
  <2>1. /\ graph' = graph /\ files' = [files EXCEPT ![req[t].path] = Blank]
        /\ allowed' = allowed
        /\ req[t].at = "truncate" /\ req'[t].at = "write" /\ req'[t].text = req[t].text
    BY <1>0, <1>10, TruncateStep DEF Unheard, Passes, Only
  <2>2. req[t].path = Here
    BY <1>0, <2>1 DEF Placed
  <2>3. Awaits(req'[t], allowed, Blank, files'[req'[t].path])
    BY <1>1, <1>2, <2>1 DEF Awaits
  <2> QED
    BY <1>6, <2>1, <2>2, <2>3
<1>11. CASE Write(t)
  <2>1. /\ graph' = graph /\ files' = Filled(t, req[t].text) /\ allowed' = allowed
        /\ req[t].at = "write" /\ req'[t].at = AfterWrite(req[t].op)
        /\ req'[t].path = req[t].path /\ req[t].op \in {"save", "open", "rename"}
    BY <1>0, <1>11, WriteStep DEF Unheard, Passes, Only
  <2>2. req[t].path = Here /\ req[t].fd = Here
    BY <1>0, <2>1 DEF Placed
  <2>3. files' = [files EXCEPT ![Here] = req[t].text]
    BY <1>0, <2>1, <2>2 DEF Filled
  <2>4. req[t].op = "save" => req[t].arg \in allowed
    BY <2>1 DEF Basic, Raced, Saving, Active
  <2>5. PICK x \in allowed \cup {Blank} : x = req[t].text
    BY <1>1, <2>1, <2>4 DEF Awaits
  <2>6. files'[Here] = x
    BY <1>0, <2>3, <2>5
  <2>7. /\ req[t].op = "save" => req'[t].at = "read"
        /\ req[t].op = "open" => req'[t].at = "leave"
        /\ req[t].op = "rename" => req'[t].at = "snapshot"
    BY <2>1 DEF AfterWrite
  <2>8. Awaits(req'[t], allowed, x, files'[req'[t].path])
    BY <1>1, <1>2, <2>1, <2>2, <2>5, <2>6, <2>7 DEF Awaits
  <2> QED
    BY <1>2, <1>6, <2>1, <2>3, <2>5, <2>7, <2>8
<1>12. CASE Read(t)
  <2>1. /\ graph' = graph /\ files' = files /\ allowed' = allowed /\ req[t].at = "read"
    BY <1>0, <1>12, ReadStep DEF Unmoved, Unheard, Passes, Fails
  <2>2. req[t].path = Here /\ req[t].op \in {"save", "open"}
    BY <1>0, <2>1 DEF Placed, Sane
  <2>3. CASE files[Here] = NoFile
    <3>1. req'[t].at = "leave" /\ req'[t].ok = FALSE
      BY <1>0, <1>12, <2>2, <2>3, ReadStep DEF Passes, Fails
    <3>2. Awaits(req'[t], allowed, files[Here], files[req'[t].path])
      BY <1>2, <2>2, <3>1 DEF Awaits
    <3> QED
      BY <1>5, <2>1, <3>1, <3>2
  <2>4. CASE files[Here] # NoFile
    <3>1. req'[t].at = "diff" /\ req'[t].seen = files[Here]
      BY <1>0, <1>12, <2>2, <2>4, ReadStep DEF Passes
    <3>2. files[Here] \in allowed \cup {Blank}
      BY <1>0, <2>4 DEF Current, Readable
    <3>3. Awaits(req'[t], allowed, files[Here], files[req'[t].path])
      BY <1>1, <1>2, <2>1, <2>2, <3>1, <3>2 DEF Awaits
    <3> QED
      BY <1>5, <2>1, <3>1, <3>3
  <2> QED
    BY <2>3, <2>4
<1>13. CASE DiffGone(t) \/ DiffBlank(t)
  <2>1. /\ graph' = graph /\ files' = files /\ allowed' = allowed
        /\ req[t].at = "diff" /\ req'[t].at = "leave" /\ req'[t].ok = FALSE
    BY <1>0, <1>13, DiffGoneStep, DiffBlankStep DEF Unmoved, Unheard, Passes, Fails
  <2>2. Awaits(req'[t], allowed, files[Here], files[req'[t].path])
    BY <2>1 DEF Awaits, Sane
  <2> QED
    BY <1>5, <2>1, <2>2
<1>14. CASE Diff(t)
  <2>1. /\ graph' = graph /\ files' = files /\ allowed' = allowed /\ req[t].seen # Blank
        /\ req[t].at = "diff" /\ req'[t].at \in {"leave", "paragraphs"}
        /\ req'[t].path = req[t].path /\ req'[t].seen = req[t].seen
    BY <1>0, <1>14, DiffStep DEF Unmoved, Unheard, Passes, Only
  <2>2. req[t].path = Here /\ req[t].op \in {"save", "open"}
    BY <1>0, <2>1 DEF Placed, Sane
  <2>3. req[t].seen = files[Here]
    BY <1>0, <2>1, <2>2 DEF Absorbs
  <2>4. Awaits(req'[t], allowed, files[Here], files[req'[t].path])
    BY <1>1, <1>2, <2>1, <2>2, <2>3 DEF Awaits
  <2> QED
    BY <1>5, <2>1, <2>4
<1>15. CASE CommitFails(t) /\ req[t].at # "drop"
  <2>1. /\ graph' = graph /\ files' = files /\ allowed' = allowed
        /\ req'[t].at \in {"leave", "answer"} /\ req'[t].ok = FALSE
        /\ req[t].at \in {"paragraphs", "retitle", "adopt"}
    BY <1>0, <1>15, CommitFailsStep DEF Unmoved, Passes, Fails
  <2>2. Awaits(req'[t], allowed, files[Here], files[req'[t].path])
    BY <2>1 DEF Awaits
  <2> QED
    BY <1>5, <2>1, <2>2
<1>16. CASE CommitFails(t) /\ req[t].at = "drop"
  <2>1. /\ graph' = graph /\ files' = files /\ allowed' = allowed \cup {Full(graph.body)}
        /\ req'[t].at = "answer" /\ req'[t].ok = FALSE
    BY <1>0, <1>16, CommitFailsStep DEF Unmoved, Passes, Fails
  <2>2. Awaits(req'[t], allowed', files'[Here'], files'[req'[t].path])
    BY <2>1 DEF Awaits
  <2>3. Readable'
    BY <2>1 DEF Current, Readable
  <2>4. Restorable'
    BY <2>1 DEF Restorable
  <2> QED
    BY <1>2, <1>3, <2>1, <2>2, <2>3, <2>4, CurrentFrame
\* The graph changes under a file that is there.
<1>17. CASE SaveParagraph(t) \/ SaveChapter(t)
  <2>1. /\ files' = files /\ allowed' = allowed /\ req[t].at = "paragraphs"
        /\ req'[t].at \in {"paragraphs", "back"} /\ req'[t].path = req[t].path
        /\ req'[t].seen = req[t].seen
    BY <1>0, <1>17, ParagraphStep, ChapterStep DEF Unheard, Passes, Only
  <2>2. req[t].path = Here /\ req[t].op \in {"save", "open"}
    BY <1>0, <2>1 DEF Placed, Sane
  <2>3. Here' = Here
    BY <1>0, <2>2, WritesHere DEF Here
  <2>4. req[t].seen = files[Here] /\ req[t].seen # Blank
    BY <1>0, <2>1, <2>2 DEF Absorbs, Sane
  <2>5. files[Here] # NoFile
    BY <1>0, <2>4, ContentAssumption
  <2>6. Awaits(req'[t], allowed, files[Here], files[req'[t].path])
    BY <1>1, <1>2, <2>1, <2>2, <2>4 DEF Awaits
  <2>7. Readable'
    BY <2>1 DEF Current, Readable
  <2>8. Restorable'
    BY <1>0, <2>1, <2>5 DEF Restorable
  <2> QED
    BY <1>2, <1>3, <2>1, <2>3, <2>6, <2>7, <2>8, CurrentFrame
<1>18. CASE TruncateBack(t)
  <2>0. /\ graph' = graph /\ allowed' = allowed /\ req[t].at = "back"
    BY <1>0, <1>18, BackStep DEF Unheard, TruncateBack, At
  <2>1. req[t].path = Here /\ req[t].op \in {"save", "open"}
    BY <1>0, <2>0 DEF Placed, Sane
  <2>2. CASE files[Here] = NoFile
    <3>1. req'[t].at = "leave" /\ req'[t].ok = FALSE /\ files' = files
      BY <1>0, <1>18, <2>1, <2>2, BackStep DEF Passes, Fails
    <3>2. Awaits(req'[t], allowed, files[Here], files[req'[t].path])
      BY <1>2, <2>1, <3>1 DEF Awaits
    <3> QED
      BY <1>5, <2>0, <3>1, <3>2
  <2>3. CASE files[Here] # NoFile
    <3>1. /\ req'[t].at = "back_write" /\ req'[t].seen = req[t].seen
          /\ files' = [files EXCEPT ![Here] = Blank]
      BY <1>0, <1>18, <2>1, <2>3, BackStep DEF Passes, Only
    <3>2. Awaits(req'[t], allowed, Blank, files'[req'[t].path])
      BY <1>1, <1>2, <2>0, <2>1, <3>1 DEF Awaits
    <3> QED
      BY <1>6, <2>0, <3>1, <3>2
  <2> QED
    BY <2>2, <2>3
<1>19. CASE WriteBack(t)
  <2>1. /\ graph' = graph /\ files' = Filled(t, req[t].seen) /\ allowed' = allowed
        /\ req[t].at = "back_write" /\ req'[t].at = "leave"
        /\ req'[t].path = req[t].path
    BY <1>0, <1>19, WriteBackStep DEF Unheard, Passes, Only
  <2>2. req[t].path = Here /\ req[t].fd = Here /\ req[t].op \in {"save", "open"}
    BY <1>0, <2>1 DEF Placed, Sane
  <2>3. files' = [files EXCEPT ![Here] = req[t].seen]
    BY <1>0, <2>1, <2>2 DEF Filled
  <2>4. req[t].op = "save" => req[t].arg \in allowed
    BY <2>1 DEF Basic, Raced, Saving, Active
  <2>5. PICK x \in allowed \cup {Blank} : x = req[t].seen
    BY <1>1, <2>1, <2>2, <2>4 DEF Awaits
  <2>6. files'[Here] = x
    BY <1>0, <2>3, <2>5
  <2>7. Awaits(req'[t], allowed, x, files'[req'[t].path])
    BY <1>1, <1>2, <2>1, <2>2, <2>5, <2>6 DEF Awaits
  <2> QED
    BY <1>6, <2>1, <2>3, <2>5, <2>7
<1>20. CASE LeaveScope(t)
  <2>1. /\ graph' = graph /\ files' = files /\ allowed' = allowed
        /\ req[t].at = "leave" /\ req'[t].at = "answer"
        /\ req'[t].path = req[t].path /\ req'[t].ok = req[t].ok
    BY <1>0, <1>20, LeaveStep DEF Unmoved, Unheard, Passes, Only
  <2>2. req[t].path = Here
    BY <1>0, <2>1 DEF Placed
  <2>3. Awaits(req'[t], allowed, files[Here], files[req'[t].path])
    BY <1>1, <1>2, <2>1 DEF Awaits
  <2> QED
    BY <1>5, <2>1, <2>2, <2>3
<1>21. CASE Retitle(t)
  <2>0. req[t].at = "retitle" /\ req[t].op = "rename" /\ req[t].ch.paras = Listed(graph.body)
    BY <1>0, <1>21 DEF Retitle, At, Sane, Absorbs
  <2>1. /\ req'[t].at \in {"answer", "rename_file"} /\ files' = files /\ allowed' = allowed
        /\ \A p \in Paras : graph'.body[p] = graph.body[p]
    BY <1>0, <1>21, <2>0, RetitleStep DEF Passes, Unheard
  <2>2. Full(graph'.body) = Full(graph.body)
    BY <2>1, SameBody
  <2>3. graph.live
    BY <1>0, <2>0 DEF Placed
  <2>4. Readable'
    BY <2>1 DEF Current, Readable
  <2>5. \A u \in Threads : ~At(u, "drop")
    BY <1>2, <2>0 DEF At
  <2>6. Restorable'
    BY <2>1, <2>2, <2>3, <2>5 DEF Current, Restorable
  <2>7. Awaits(req'[t], allowed', files'[Here'], files'[req'[t].path])
    BY <1>2, <2>0, <2>1 DEF Awaits
  <2> QED
    BY <1>2, <1>3, <2>0, <2>4, <2>6, <2>7, CurrentFrame
<1>22. CASE RenameFile(t)
  <2>0. /\ req[t].at = "rename_file" /\ req[t].op = "rename" /\ graph' = graph
        /\ allowed' = allowed
    BY <1>0, <1>22 DEF RenameFile, At, Sane
  <2>1. CASE files' = files
    <3>1. req'[t].at = "answer"
      <4>1. PICK new \in Places : new = <<req[t].ch.act, req[t].arg>>
        BY <1>0, <2>0 DEF Sane, Typed, ReqRecord, ChapterRecord, Places
      <4>2. files[req[t].path] # NoFile /\ files[new] = NoFile => files'[new] # NoFile
        BY <1>0, <1>22, <4>1, RenameEffect
      <4> QED
        BY <1>0, <1>22, <2>1, <4>1, <4>2, RenameEffect
    <3>2. Awaits(req'[t], allowed, files[Here], files[req'[t].path])
      BY <1>2, <2>0, <3>1 DEF Awaits
    <3> QED
      BY <1>2, <1>5, <2>0, <2>1, <3>1, <3>2
  <2>2. CASE files' # files
    <3>1. PICK new \in Places : new = <<req[t].ch.act, req[t].arg>>
      BY <1>0, <2>0 DEF Sane, Typed, ReqRecord, ChapterRecord, Places
    <3>2. /\ files[req[t].path] # NoFile /\ req'[t].at = "truncate"
          /\ req'[t].text = files[req[t].path] /\ files[new] = NoFile
          /\ files' = [files EXCEPT ![new] = files[req[t].path], ![req[t].path] = NoFile]
      BY <1>0, <1>22, <2>2, <3>1, RenameEffect
    <3>3. files[req[t].path] \in allowed \cup {Blank} /\ new # req[t].path
      BY <1>0, <3>2 DEF Current, Readable
    <3>4. Readable'
      BY <1>0, <2>0, <3>2, <3>3 DEF Current, Readable
    <3>5. files'[new] # NoFile
      BY <1>0, <3>2, <3>3
    <3>6. Restorable'
      BY <3>5 DEF Restorable
    <3>7. Awaits(req'[t], allowed', files'[Here'], files'[req'[t].path])
      BY <1>2, <2>0, <3>2, <3>3 DEF Awaits
    <3> QED
      BY <1>2, <1>3, <2>0, <3>4, <3>6, <3>7, CurrentFrame
  <2> QED
    BY <2>1, <2>2
<1>23. CASE Adopt(t)
  <2>1. /\ graph' = graph /\ files' = files /\ allowed' = allowed
        /\ req[t].at = "adopt" /\ req[t].op = "move" /\ req'[t].at = "answer"
    BY <1>0, <1>23, AdoptStep DEF Passes, Unheard, Sane
  <2>2. Awaits(req'[t], allowed, files[Here], files[req'[t].path])
    BY <1>2, <2>1 DEF Awaits
  <2> QED
    BY <1>2, <1>5, <2>1, <2>2
<1>24. CASE RemoveFile(t)
  <2>1. /\ files' = [files EXCEPT ![req[t].path] = NoFile] /\ allowed' = allowed
        /\ req[t].at = "remove_file" /\ req[t].op = "delete"
    BY <1>0, <1>24 DEF RemoveFile, At, Sane
  <2>2. req'[t].at = "drop"
    BY <1>0, <1>24, RemoveEffect
  <2>3. Readable'
    BY <1>0, <2>1 DEF Current, Readable
  <2>4. Restorable'
    BY <2>2 DEF Restorable, At
  <2>5. Awaits(req'[t], allowed', files'[Here'], files'[req'[t].path])
    BY <1>2, <2>1, <2>2 DEF Awaits
  <2> QED
    BY <1>2, <1>3, <2>2, <2>3, <2>4, <2>5, CurrentFrame
<1>25. CASE Drop(t)
  <2>1. /\ files' = files /\ allowed' = allowed /\ ~graph'.live
        /\ req[t].op = "delete" /\ req'[t].at = "answer"
    BY <1>0, <1>25, DropStep DEF Passes, Unheard, Sane
  <2>2. Readable' /\ Restorable'
    BY <2>1 DEF Current, Readable, Restorable
  <2>3. Awaits(req'[t], allowed', files'[Here'], files'[req'[t].path])
    BY <1>2, <2>1 DEF Awaits
  <2> QED
    BY <1>2, <1>3, <2>1, <2>2, <2>3, CurrentFrame
<1>26. CASE Answer(t)
  <2>1. /\ graph' = graph /\ files' = files /\ Here' = Here /\ req[t].at = "answer"
        /\ req'[t].at = "idle"
        /\ allowed' = IF req[t].op = "save" /\ req[t].ok
                      THEN {req[t].arg} \cup overlap[t] ELSE allowed
    BY <1>0, <1>26, AnswerStep, AnswerEffect DEF Unmoved, Here
  <2>2. Awaits(req'[t], allowed', files'[Here'], files'[req'[t].path])
    BY <2>1 DEF Awaits
  <2>3. CASE req[t].op = "save" /\ req[t].ok
    <3>1. allowed' = {req[t].arg}
      BY <2>1, <2>3 DEF Current, Awaited
    <3>2. req[t].path = Here /\ files[Here] = req[t].arg
      BY <2>1, <2>3 DEF Current, Awaited, Awaits
    <3>3. \A u \in Threads : ~Displaces(req[u])
      BY <1>2, <2>1 DEF Displaces
    <3>4. \A f \in Places : f # Here => files[f] = NoFile
      BY <3>3, OnlyHere DEF Orderly
    <3>5. Readable'
      BY <2>1, <3>1, <3>2, <3>4 DEF Readable
    <3>6. files[Here] # NoFile
      BY <2>3, <3>2, TextsAssumption, ContentAssumption, <1>0 DEF Sane
    <3>7. Restorable'
      BY <1>0, <2>1, <3>6 DEF Restorable
    <3> QED
      BY <1>2, <1>3, <2>1, <2>2, <3>5, <3>7, CurrentFrame
  <2>4. CASE ~(req[t].op = "save" /\ req[t].ok)
    <3>1. allowed' = allowed
      BY <2>1, <2>4
    <3>2. Readable'
      BY <2>1, <3>1 DEF Current, Readable
    <3>3. Restorable'
      BY <1>2, <2>1, <3>1 DEF Current, Restorable, At
    <3> QED
      BY <1>2, <1>3, <2>1, <2>2, <3>2, <3>3, CurrentFrame
  <2> QED
    BY <2>3, <2>4
<1>27. CASE Snapshot(t)
  <2>0. req[t].op = "rename"
    BY <1>0, <1>27 DEF Snapshot, At, Sane
  <2>1. /\ graph' = graph /\ files' = files /\ allowed' = allowed
        /\ req[t].at = "snapshot" /\ req'[t].at = "answer"
    BY <1>0, <1>27, SnapshotStep DEF Passes, Unmoved, Unheard
  <2>2. Awaits(req'[t], allowed, files[Here], files[req'[t].path])
    BY <1>2, <2>0, <2>1 DEF Awaits
  <2> QED
    BY <1>2, <1>5, <2>0, <2>1, <2>2
<1> QED
  BY <1>7, <1>8, <1>9, <1>10, <1>11, <1>12, <1>13, <1>14, <1>15, <1>16, <1>17, <1>18, <1>19,
     <1>20, <1>21, <1>22, <1>23, <1>24, <1>25, <1>26, <1>27 DEF ServeStep

\* the beginning of one does,
LEMMA BeginCurrent ==
    ASSUME Serial, Basic, Current, NEW t \in Threads, NEW op \in Operations, NEW arg \in Arguments,
           Begin(t, op, arg)
    PROVE  Current'
<1>1. /\ req'[t].op = op /\ req'[t].at = "load"
      /\ \A u \in Threads \ {t} : req'[u] = req[u]
  BY BeginEffect DEF Basic, Others
<1>2. /\ graph' = graph /\ files' = files /\ Here' = Here /\ allowed \subseteq allowed'
      /\ \A u \in Threads : req[u].at = "idle"
  BY DEF Begin, Here, Quiet, Active
<1>3. Readable'
  BY <1>2 DEF Current, Readable
<1>4. Restorable'
  BY <1>2 DEF Current, Restorable, At
<1>5. \A u \in Threads : Awaits(req'[u], allowed', files'[Here'], files'[req'[u].path])
  BY <1>1, <1>2 DEF Awaits
<1>6. \A u \in Threads : req'[u].at \in {"idle", "load"}
  BY <1>1, <1>2
<1>7. \A u \in Threads \ {t} : overlap'[u] = overlap[u]
  BY <1>2 DEF Begin, Saving, Active, Basic, Typed
<1>8. op = "save" => overlap'[t] = {}
  BY <1>2 DEF Begin, Saving, Active
<1>9. \A u \in Threads : Awaited(u)'
  BY <1>1, <1>5, <1>6, <1>7, <1>8 DEF Current, Awaited
<1> QED
  BY <1>3, <1>4, <1>9 DEF Current

\* a crash does,
LEMMA CrashCurrent ==
    ASSUME Basic, Current, Crash, ~parted'
    PROVE  Current'
<1>1. \A u \in Threads : req'[u] = IdleReq /\ req'[u].at = "idle"
  BY CrashBasic DEF Active
<1>2. /\ graph' = graph /\ files' = files /\ Here' = Here /\ allowed' = allowed
      /\ overlap' = [u \in Threads |-> {}]
      /\ \A u \in Threads : Active(u) => req[u].op \notin Displacing
  BY DEF Crash, Here
<1>3. \A u \in Threads : ~At(u, "drop")
  BY <1>2 DEF Basic, Sane, At, Displacing, Active
<1>4. Readable' /\ Restorable'
  BY <1>2, <1>3 DEF Current, Readable, Restorable
<1>5. \A u \in Threads : Awaits(req'[u], allowed', files'[Here'], files'[req'[u].path])
  BY <1>1 DEF Awaits
<1>6. \A u \in Threads : Awaited(u)'
  BY <1>1, <1>2, <1>5 DEF Awaited
<1> QED
  BY <1>4, <1>6 DEF Current

\* and an edit does, after which the edited text is the one to expect.
LEMMA EditCurrent ==
    ASSUME Basic, Homed, Current, Edit
    PROVE  Current'
<1>1. /\ graph' = graph /\ req' = req /\ overlap' = overlap /\ Here' = Here
      /\ \A u \in Threads : req[u].at = "idle"
  BY DEF Edit, Here, Quiet, Active
<1>2. PICK x \in Texts : files' = [files EXCEPT ![Here] = x] /\ allowed' = {x}
  BY DEF Edit, Here
<1>3. files \in [Places -> Contents] /\ Here \in Places /\ x # NoFile
  <2>1. graph.title \in Titles /\ graph.act \in Acts
    BY DEF Basic, Typed, GraphRecord
  <2> QED
    BY <2>1, TextsAssumption, ContentAssumption DEF Basic, Typed, Here, Places
<1>4. \A f \in Places : f # Here => files[f] = NoFile
  BY <1>1, OnlyHere DEF Displaces
<1>5. Readable'
  BY <1>2, <1>3, <1>4 DEF Readable
<1>6. Restorable'
  BY <1>2, <1>3 DEF Restorable
<1>7. \A u \in Threads : Awaits(req'[u], allowed', files'[Here'], files'[req'[u].path])
  BY <1>1 DEF Awaits
<1>8. \A u \in Threads : Awaited(u)'
  BY <1>1, <1>7 DEF Current, Awaited
<1> QED
  BY <1>5, <1>6, <1>8 DEF Current

\* Current holds at first.
LEMMA InitCurrent == Init => Current
<1> SUFFICES ASSUME Init PROVE Current
  OBVIOUS
<1>0. graph \in GraphRecord
  BY InitBasic DEF Basic, Typed
<1>1. PICK text \in Texts, title \in Titles, act \in Acts, there \in BOOLEAN :
      /\ graph = [live |-> TRUE, title |-> title, act |-> act,
                  body |-> [p \in Paras |-> IF p \in text THEN "full" ELSE "absent"]]
      /\ files = [f \in Places |-> IF there /\ f = <<act, title>> THEN text ELSE NoFile]
      /\ allowed = {text}
  BY DEF Init
<1>2. \A u \in Threads : req[u].at = "idle" /\ overlap[u] = {}
  <2>1. IdleReq.at = "idle"
    BY DEF IdleReq
  <2>2. req = [u \in Threads |-> IdleReq] /\ overlap = [u \in Threads |-> {}]
    BY DEF Init
  <2> QED
    BY <2>1, <2>2
<1>3. text \in SUBSET Paras /\ graph.body \in Bodies
  BY <1>0, TextsAssumption DEF GraphRecord
<1>4. SameText(graph.body, text)
  BY <1>1 DEF SameText
<1>5. Full(graph.body) = text
  BY <1>3, <1>4, SameFull
<1>6. Readable /\ Restorable
  BY <1>1, <1>5 DEF Readable, Restorable
<1>7. \A u \in Threads : Awaited(u)
  BY <1>2 DEF Awaited, Awaits
<1> QED
  BY <1>6, <1>7 DEF Current

CurrentInv == Basic /\ Together /\ AbsorbInv /\ (~parted => Current)

\* Where requests are served one at a time, an open or a save answers a text its
\* reader may expect: the last one acknowledged or edited by hand, or one that a
\* failure left undecided; until a crash or a move parts chapter and file.
THEOREM AnswersAreCurrent ==
    ASSUME Serial
    PROVE  Spec => AnswersCurrentText
<1>1. Init => CurrentInv
  BY InitBasic, InitTogether, InitAbsorb, InitCurrent DEF CurrentInv
<1>2. CurrentInv /\ [Next]_vars => CurrentInv'
  <2> SUFFICES ASSUME CurrentInv, [Next]_vars PROVE CurrentInv'
    OBVIOUS
  <2>1. (Basic /\ Together /\ AbsorbInv)'
    BY StepBasic, StepTogether, StepAbsorb DEF CurrentInv
  <2> SUFFICES ASSUME ~parted' PROVE Current'
    BY <2>1 DEF CurrentInv
  <2>2. CASE UNCHANGED vars
    <3>1. /\ graph' = graph /\ files' = files /\ req' = req /\ parted' = parted /\ Here' = Here
          /\ allowed' = allowed /\ overlap' = overlap
      BY <2>2 DEF vars, Here
    <3> QED
      BY <3>1 DEF CurrentInv, Current, Readable, Restorable, Awaited, At
  <2>3. CASE Next
    <3>1. ~parted
      BY <2>3, PartedStays
    <3>2. Basic /\ Orderly /\ AbsorbInv /\ Current
      BY <3>1 DEF CurrentInv, Together, Orderly
    <3>3. ASSUME NEW t \in Threads, Request(t) PROVE Current'
      <4>1. Typed
        BY <3>2 DEF Basic
      <4>2. PICK op \in Operations : \E arg \in Arguments : Begin(t, op, arg)
        BY <3>3, <4>1, RequestEffect
      <4>3. PICK arg \in Arguments : Begin(t, op, arg)
        BY <4>2
      <4> QED
        BY <3>2, <4>3, BeginCurrent
    <3>4. ASSUME NEW t \in Threads, ServeStep(t) PROVE Current'
      BY <3>2, <3>4, ServeCurrent
    <3>5. CASE Edit
      BY <3>2, <3>5, EditCurrent DEF Orderly
    <3>6. CASE Crash
      BY <3>2, <3>6, CrashCurrent
    <3> QED
      BY <2>3, <3>3, <3>4, <3>5, <3>6 DEF Next
  <2> QED
    BY <2>2, <2>3
<1>3. CurrentInv /\ [Next]_vars =>
        [\A t \in Threads :
           Answers(t) /\ req'[t].answer # NoText /\ ~parted => req'[t].answer \in allowed]_vars
  <2> SUFFICES ASSUME CurrentInv, [Next]_vars, NEW t \in Threads,
                      Answers(t), req'[t].answer # NoText, ~parted
               PROVE  req'[t].answer \in allowed
    OBVIOUS
  <2>1. Answer(t) /\ Typed /\ Current
    BY AnswersBy DEF CurrentInv, AbsorbInv, Basic
  <2>2. /\ req[t].ok /\ req[t].op \in {"save", "open"}
        /\ req'[t].answer = files[req[t].path]
    BY <2>1, AnswerEffect
  <2>3. req[t].at = "answer"
    BY <2>1 DEF Answer, At
  <2>4. CASE req[t].op = "open"
    BY <2>1, <2>2, <2>3, <2>4 DEF Current, Awaited, Awaits
  <2>5. CASE req[t].op = "save"
    <3>1. files[req[t].path] = req[t].arg
      BY <2>1, <2>2, <2>3, <2>5 DEF Current, Awaited, Awaits
    <3>2. req[t].arg \in allowed
      BY <2>3, <2>5 DEF CurrentInv, Basic, Raced, Saving, Active
    <3> QED
      BY <2>2, <3>1, <3>2
  <2> QED
    BY <2>2, <2>4, <2>5
<1> QED
  BY <1>1, <1>2, <1>3, PTL DEF Spec, AnswersCurrentText
=============================================================================
