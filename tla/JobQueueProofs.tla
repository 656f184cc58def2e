--------------------------- MODULE JobQueueProofs ---------------------------
(***************************************************************************)
(* Proofs about the job queue, for every set of scripts, nodes and texts   *)
(* and every bound on the trouble.                                         *)
(*                                                                         *)
(* The queue needs no more of the edits than where each request is:        *)
(* QueueInv (the ids, the entries of the ReconstructJobs, the count) gives *)
(* JoinMeansDone and OneLiveReconstruct.  That no edit is forgotten is     *)
(* about what the models say and about order: the edits of one node go     *)
(* through request, queue, worker and unit of work one after the other     *)
(* (InOrder), so that the last of them is the last to be written, and      *)
(* while one that matters is on its way the last one is, too (Lasting).    *)
(*                                                                         *)
(* A commit writes its models one after the other: Written is a recursive  *)
(* function, and what it leaves at a node is shown by induction on a set   *)
(* of natural numbers, which the well-foundedness of < gives.              *)
(***************************************************************************)
EXTENDS JobQueue, FiniteSetTheorems, SequenceTheorems, WellFoundedInduction, TLAPS

\* What the variables range over; the jobs of this run; the jobs the worker has in hand.
Values   == Texts \cup {Gone, Blank}
Graphs   == [Nodes -> Values]
Models   == [state : {"_", "new", "changed", "deleted"}, dirty : BOOLEAN, words : Texts \cup {Blank}]
Pcs      == {"absent", "loop", "idle", "run", "settle", "dead"}
Asked    == (DOMAIN script) \X Range(Kinds)
Busy     == worker.pc \in {"run", "settle"}
Slot(j)  == IF j[2] = "delete" THEN 1 ELSE IF j[2] = "reconstruct" THEN 2 ELSE 3
Live(j)  == status[j] \in {"queued", "running"}
InFlight == {e \in Edits : step[e] \in {2, 4, 6}}

\* The types, with what the threads and the edits are bound to.
Types ==
    /\ script \in Scripts
    /\ step \in [Edits -> 0 .. 7]
    /\ \A e \in Edits : step[e] # 0 => e \in DOMAIN script
    /\ object \in [Edits -> Models]
    /\ status \in [Jobs -> {"queued", "running", "done", "cancelled", "failed"}]
    /\ jobs \subseteq Asked
    /\ recon \in [Nodes -> Asked \cup {NoJob}]
    /\ queue \in Seq(Asked)
    /\ pending \in Int
    /\ completed \in BOOLEAN
    /\ control \in {"off", "on", "set", "taken"}
    /\ worker \in [pc : Pcs, job : Asked \cup {NoJob}]
    /\ Busy => worker.job \in Asked
    /\ control = "off" => worker.pc \in {"absent", "dead"}
    /\ uow \in [Lists -> Seq(DOMAIN script)]
    /\ db \in Graphs
    /\ trouble \in 0 .. MaxTrouble
    /\ last \in [Nodes -> Edits \cup {0}]
    /\ overtaken \subseteq Nodes
    /\ leftover \in BOOLEAN

\* No id is twice in a queue.
Injective(q) == \A i, k \in DOMAIN q : q[i] = q[k] => i = k

\* An id is registered, then put in the queue, then taken, once; its request is past each of
\* those steps, and until it is taken a job is only queued, or replaced.
Ids ==
    /\ \A j \in jobs : 2 * Slot(j) <= step[j[1]]
    /\ \A j \in Range(queue) : 2 * Slot(j) < step[j[1]]
    /\ Injective(queue)
    /\ Busy => 2 * Slot(worker.job) < step[worker.job[1]] /\ worker.job \notin Range(queue)
    /\ \A n \in Nodes : recon[n] = NoJob \/ recon[n][2] = "reconstruct"
    /\ \A j \in Jobs : step[j[1]] <= 2 * Slot(j) \/ j \in Range(queue)
                         => \/ status[j] = "queued"
                            \/ status[j] = "cancelled" /\ j[2] = "reconstruct"

\* A ReconstructJob that is still to be carried out is the one its node has an entry for.
LatestIsLive ==
    \A j \in jobs : j[2] = "reconstruct" /\ Live(j) => recon[Node(j[1])] = j

\* _pending_count counts the ids in the queue, those on their way to it and the job in hand, and
\* a job that is not over is one of them.
CountsAgree ==
    /\ ~leftover => pending = Len(queue) + Cardinality(InFlight) + (IF Busy THEN 1 ELSE 0)
    /\ completed /\ ~leftover => pending = 0
    /\ \A j \in jobs : Live(j) => \/ j \in Range(queue)
                                  \/ step[j[1]] = 2 * Slot(j)
                                  \/ Busy /\ worker.job = j

\* An edit that has something to write; one whose model has been made; the state of its model.
Matters(e) == script[e].op = "delete" \/ (script[e].parented /\ script[e].text # Blank)
Edited(e)  == e \in DOMAIN script /\ step[e] # 0 /\ object[e].state # "_"
StateOf(e) == IF script[e].op = "create" THEN "new"
              ELSE IF script[e].op = "update" THEN "changed" ELSE "deleted"

\* A model is in the state its edit gave it, and says what its edit asked for once it is clean;
\* the lists hold models of their own state, the jobs models that are not deleted.
ModelsAgree ==
    /\ \A e \in Edits : step[e] = 0 => object[e] = NoObject
    /\ \A e \in Edits : Edited(e) =>
         /\ object[e].state = StateOf(e)
         /\ ~object[e].dirty /\ script[e].op # "delete" => object[e].words = script[e].text
    /\ \A l \in Lists : \A i \in DOMAIN uow[l] : Edited(uow[l][i]) /\ StateOf(uow[l][i]) = l
    /\ \A e \in Edits : step[e] \in 1 .. 6 => Edited(e) /\ script[e].op # "delete"
    /\ \A j \in Range(queue) : Edited(j[1]) /\ script[j[1]].op # "delete"
    /\ Busy => Edited(worker.job[1]) /\ script[worker.job[1]].op # "delete"

\* Where an edit can be between its request and the graph.
Queuing(e) == <<e, "commit">> \in Range(queue)
Running(e) == worker.pc = "run" /\ worker.job = <<e, "commit">>
Making(e)  == step[e] \in 1 .. 6
Listed(e)  == e \in Range(uow.new) \cup Range(uow.changed)

\* Two edits of one node.
SameNode(e, f) == Node(e) = Node(f)

\* The edits of a node pass from one place to the next in the order of their requests.
InOrder ==
    /\ \A e, f \in DOMAIN script :
        SameNode(e, f) =>
            /\ Listed(e) /\ (Running(f) \/ Queuing(f) \/ Making(f)) => e < f
            /\ Running(e) /\ (Queuing(f) \/ Making(f)) => e < f
            /\ Queuing(e) /\ Making(f) => e < f
            /\ Making(e) /\ Making(f) => e = f
            /\ step[f] = 0 => step[e] = 0 \/ e < f
    /\ \A i, k \in DOMAIN queue :
         queue[i][2] = "commit" /\ queue[k][2] = "commit" /\ SameNode(queue[i][1], queue[k][1]) /\ i < k
            => queue[i][1] < queue[k][1]
    /\ \A i, k \in DOMAIN uow.changed :
         SameNode(uow.changed[i], uow.changed[k]) /\ i < k => uow.changed[i] < uow.changed[k]

\* An edit whose model is on its way to the graph.
Waiting(e) == Making(e) \/ Queuing(e) \/ Running(e) \/ Listed(e)

\* last names an edit of its node that has something to write and an object ...
LastIsOne ==
    \A n \in Nodes : last[n] # 0 => /\ last[n] \in DOMAIN script /\ Node(last[n]) = n
                                    /\ Matters(last[n]) /\ Edited(last[n])

\* ... and no such edit is later.
LastIsLatest ==
    \A e \in DOMAIN script : Edited(e) /\ Matters(e) => e <= last[Node(e)]

\* A deletion that could not be carried out at once went past something.
DeletionsOvertake ==
    \A i \in DOMAIN uow.deleted : Node(uow.deleted[i]) \in overtaken

\* While an edit that matters is on its way so is the last one, and nothing follows a deletion.
LastIsBehind ==
    \A e \in DOMAIN script : Node(e) \notin overtaken /\ Waiting(e) =>
        /\ Matters(e) => Waiting(last[Node(e)])
        /\ last[Node(e)] # 0 => script[last[Node(e)]].op # "delete"

\* The last edit is in the graph or on its way.
LastArrives ==
    \A n \in Nodes \ overtaken : last[n] # 0 /\ db[n] # Target(last[n]) => Waiting(last[n])

\* A CommitJob that has yet to be taken is known to the queue.
CommitsAreKnown ==
    \A e \in DOMAIN script : Node(e) \notin overtaken /\ (step[e] = 6 \/ Queuing(e))
        => <<e, "commit">> \in jobs

\* Why the last edit of a node is not lost.
Lasting == /\ LastIsOne /\ LastIsLatest /\ DeletionsOvertake
           /\ LastIsBehind /\ LastArrives /\ CommitsAreKnown

\* The inductive invariant.
IInv == Types /\ Ids /\ LatestIsLive /\ CountsAgree /\ ModelsAgree /\ InOrder /\ Lasting

---------------------------------------------------------------------------
(* Induction, the scripts, and what a commit writes. *)

\* Induction over the natural numbers, for a set.
LEMMA SetInduction ==
    ASSUME NEW S, 0 \in S, \A n \in Nat : n \in S => n + 1 \in S
    PROVE  Nat \subseteq S
<1>1. SUFFICES ASSUME Nat \ S # {}
               PROVE  FALSE
    OBVIOUS
<1> DEFINE T == Nat \ S
<1>2. IsWellFoundedOn(OpToRel(<, Nat), Nat)
    BY NatLessThanWellFounded
<1>3. PICK x \in T : \A y \in T : ~(<<y, x>> \in OpToRel(<, Nat))
    BY <1>1, <1>2, WFMin
<1>4. x \in T
    OBVIOUS
<1>5. x # 0 /\ x - 1 \in Nat
    <2> HIDE <1>3
    <2> QED BY <1>4
<1>6. <<x - 1, x>> \in OpToRel(<, Nat)
    BY <1>4, <1>5 DEF OpToRel
<1>7. x - 1 \notin T
    BY <1>3, <1>6
<1>8. x \in S
    <2> HIDE <1>3
    <2> QED BY <1>5, <1>7
<1> QED BY <1>4, <1>8

\* The edits of a script are numbered from one, and each names a node and a text.
LEMMA ScriptTyped ==
    ASSUME NEW s \in Scripts
    PROVE  /\ DOMAIN s = 1 .. Len(s) /\ Len(s) \in Nat
           /\ DOMAIN s \subseteq Edits
           /\ Edits \subseteq Nat \ {0}
           /\ IsFiniteSet(DOMAIN s)
           /\ \A e \in DOMAIN s : /\ s[e] \in [op : {"create", "update", "delete"}, node : Nodes,
                                               text : Texts \cup {Blank}, parented : BOOLEAN]
                                  /\ s[e].op \in {"create", "update", "delete"}
                                  /\ s[e].node \in Nodes
                                  /\ s[e].text \in Texts \cup {Blank}
                                  /\ s[e].parented \in BOOLEAN
<1> DEFINE Edit1 == [op : {"create", "update", "delete"}, node : Nodes,
                     text : Texts \cup {Blank}, parented : BOOLEAN]
<1>1. \A t \in Scripts : DOMAIN t = 1 .. Len(t) /\ Len(t) \in Nat
    BY ScriptsAssumption
<1>2. Edits \subseteq Nat \ {0} /\ DOMAIN s \subseteq Edits
    BY <1>1 DEF Edits
<1>3. IsFiniteSet(DOMAIN s)
    BY <1>1, FS_Interval
<1>4. \A e \in DOMAIN s : s[e] \in Edit1
    <2>1. s \in Seq(Edit1)
        BY ScriptsAssumption
    <2> HIDE DEF Edit1
    <2> QED BY <2>1, ElementOfSeq, <1>1
<1> QED BY <1>1, <1>2, <1>3, <1>4

\* A save keeps the graph typed, leaves the other nodes alone, and writes what the model says.
LEMMA SavedTyped ==
    ASSUME script \in Scripts, NEW d \in Graphs, NEW e \in DOMAIN script, NEW o \in Models
    PROVE  Saved(d, e, o) \in Graphs
<1>1. Node(e) \in Nodes
    BY ScriptTyped DEF Node
<1>2. Merged(d, e, o.words) \in Graphs
    BY <1>1 DEF Merged, Graphs, Values, Models
<1>3. Removed(d, e) \in Graphs
    BY <1>1 DEF Removed, Graphs, Values
<1> QED BY <1>2, <1>3 DEF Saved

\* A model whose save leaves a node as it is: it is empty, or has no parent to be written through.
Harmless(e, o) == /\ o.state \in {"new", "changed"}
                  /\ o.words = script[e].text
                  /\ ~(script[e].parented /\ script[e].text # Blank)

\* What a save does at one node.
LEMMA SavedAt ==
    ASSUME script \in Scripts, NEW d \in Graphs, NEW e \in DOMAIN script, NEW o \in Models,
           NEW n \in Nodes
    PROVE  /\ Node(e) # n => Saved(d, e, o)[n] = d[n]
           /\ Node(e) = n /\ Harmless(e, o) /\ d[n] # Gone => Saved(d, e, o)[n] = d[n]
           /\ Node(e) = n /\ o.state \in {"new", "changed"} /\ script[e].parented /\ o.words # Blank
                => Saved(d, e, o)[n] = o.words
           /\ Node(e) = n /\ o.state = "deleted" => Saved(d, e, o)[n] = Gone
<1>1. Node(e) \in Nodes
    BY ScriptTyped DEF Node
<1>2. Node(e) # n => Merged(d, e, o.words)[n] = d[n] /\ Removed(d, e)[n] = d[n]
    BY <1>1 DEF Merged, Removed, Graphs
<1>3. Node(e) = n => Removed(d, e)[n] = Gone
    BY <1>1 DEF Removed, Graphs
<1>4. Node(e) = n /\ script[e].parented /\ o.words # Blank => Merged(d, e, o.words)[n] = o.words
    BY <1>1 DEF Merged, Graphs
<1>5. Node(e) = n /\ d[n] # Gone /\ (~script[e].parented \/ o.words = Blank)
        => Merged(d, e, o.words)[n] = d[n]
    BY <1>1 DEF Merged, Graphs
<1> QED BY <1>2, <1>3, <1>4, <1>5 DEF Saved, Harmless

\* The graphs a commit goes through.
Trace(after, order, os, n) ==
    /\ after \in [0 .. n -> Graphs]
    /\ after[0] = db
    /\ \A i \in 1 .. n : after[i] = Saved(after[i - 1], order[i], os[order[i]])

\* The first n saves of a commit pass through n + 1 graphs, the last of which Written returns.
LEMMA WrittenTrace ==
    ASSUME script \in Scripts, db \in Graphs, NEW order \in Seq(DOMAIN script),
           NEW os \in [Edits -> Models], NEW n \in 0 .. Len(order)
    PROVE  \E after : Trace(after, order, os, n) /\ Written(order, os, n) = after[n]
<1> DEFINE Step(f, i) == IF i = 0 THEN db ELSE Saved(f[i - 1], order[i], os[order[i]])
           S == {m \in Nat : m <= n => \E f : Trace(f, order, os, m)}
<1>0. n \in Nat /\ n <= Len(order) /\ Len(order) \in Nat
    OBVIOUS
<1>1. \A m \in 1 .. Len(order) : order[m] \in DOMAIN script /\ os[order[m]] \in Models
    BY ScriptTyped
<1>2. 0 \in S
    <2>1. Trace([i \in 0 .. 0 |-> db], order, os, 0)
        BY DEF Trace
    <2> QED BY <2>1
<1>3. ASSUME NEW m \in Nat, m \in S
      PROVE  m + 1 \in S
    <2>1. SUFFICES ASSUME m + 1 <= n
                   PROVE  \E f : Trace(f, order, os, m + 1)
        OBVIOUS
    <2>2. PICK f : Trace(f, order, os, m)
        BY <1>0, <1>3, <2>1
    <2> DEFINE g == [i \in 0 .. (m + 1) |-> IF i = m + 1 THEN Step(f, m + 1) ELSE f[i]]
    <2>3. f \in [0 .. m -> Graphs] /\ f[0] = db
          /\ \A i \in 1 .. m : f[i] = Saved(f[i - 1], order[i], os[order[i]])
        BY <2>2 DEF Trace
    <2>4. f[m] \in Graphs /\ m + 1 \in 1 .. Len(order) /\ m + 1 # 0 /\ (m + 1) - 1 = m
        BY <1>0, <2>1, <2>3
    <2>5. Step(f, m + 1) = Saved(f[m], order[m + 1], os[order[m + 1]])
        BY <2>4
    <2>6. Step(f, m + 1) \in Graphs
        BY <2>4, <2>5, <1>1, SavedTyped
    <2> HIDE DEF Step
    <2>7. g \in [0 .. (m + 1) -> Graphs]
        BY <2>3, <2>6
    <2>8. g[0] = db
        BY <2>3
    <2>9. \A i \in 1 .. (m + 1) : g[i] = Saved(g[i - 1], order[i], os[order[i]])
        <3> TAKE i \in 1 .. (m + 1)
        <3>1. CASE i = m + 1
            BY <3>1, <2>5, <2>4
        <3>2. CASE i # m + 1
            <4>1. i \in 1 .. m /\ i \in 0 .. (m + 1) /\ i - 1 \in 0 .. (m + 1) /\ i - 1 # m + 1
                BY <3>2
            <4> QED BY <4>1, <3>2, <2>3
        <3> QED BY <3>1, <3>2
    <2>10. Trace(g, order, os, m + 1)
        <3> HIDE DEF g
        <3> QED BY <2>7, <2>8, <2>9 DEF Trace
    <2> QED BY <2>10
<1>4. Nat \subseteq S
    <2> HIDE DEF S
    <2> QED BY <1>2, <1>3, SetInduction
<1>5. PICK f : Trace(f, order, os, n)
    BY <1>0, <1>4
<1>6. f = [i \in 0 .. n |-> Step(f, i)]
    <2>1. f \in [0 .. n -> Graphs] /\ f[0] = db
          /\ \A i \in 1 .. n : f[i] = Saved(f[i - 1], order[i], os[order[i]])
        BY <1>5 DEF Trace
    <2>2. \A i \in 0 .. n : f[i] = Step(f, i)
        BY <1>0, <2>1
    <2> HIDE DEF Step
    <2> QED BY <2>1, <2>2
<1> DEFINE after == CHOOSE h : h = [i \in 0 .. n |-> Step(h, i)]
<1>7. after = [i \in 0 .. n |-> Step(after, i)]
    <2> HIDE DEF Step
    <2> QED BY <1>6
<1>8. Written(order, os, n) = after[n]
    BY DEF Written
<1>9. after[0] = db /\ \A i \in 1 .. n : after[i] = Saved(after[i - 1], order[i], os[order[i]])
    <2> HIDE DEF after
    <2>1. \A i \in 0 .. n : after[i] = Step(after, i)
        <3> HIDE DEF Step
        <3> QED BY <1>7
    <2> QED BY <1>0, <2>1
<1>10. DOMAIN after = 0 .. n /\ after = [i \in 0 .. n |-> after[i]]
    <2> HIDE DEF after, Step
    <2> QED BY <1>7
<1> HIDE DEF after
<1> DEFINE U == {m \in Nat : m <= n => after[m] \in Graphs}
<1>11. Nat \subseteq U
    <2>1. 0 \in U
        BY <1>9
    <2>2. ASSUME NEW m \in Nat, m \in U
          PROVE  m + 1 \in U
        <3>1. SUFFICES ASSUME m + 1 <= n
                       PROVE  after[m + 1] \in Graphs
            OBVIOUS
        <3>2. m + 1 \in 1 .. n /\ (m + 1) - 1 = m /\ m <= n /\ m + 1 \in 1 .. Len(order)
            BY <1>0, <3>1
        <3>3. after[m] \in Graphs
            BY <2>2, <3>2
        <3>4. after[m + 1] = Saved(after[m], order[m + 1], os[order[m + 1]])
            BY <1>9, <3>2
        <3> QED BY <3>2, <3>3, <3>4, <1>1, SavedTyped
    <2> HIDE DEF U
    <2> QED BY <2>1, <2>2, SetInduction
<1>12. after \in [0 .. n -> Graphs]
    BY <1>0, <1>10, <1>11
<1> QED BY <1>8, <1>9, <1>12 DEF Trace

\* A model whose save leaves a given text at its node.
Writes(e, o, v) == /\ o.state \in {"new", "changed"}
                   /\ script[e].parented
                   /\ o.words = v
                   /\ v # Blank

\* From the p-th save on a node keeps its value, when the later saves of it are harmless or
\* write that value again.
LEMMA WrittenKept ==
    ASSUME script \in Scripts, NEW order \in Seq(DOMAIN script), NEW os \in [Edits -> Models],
           NEW n \in 0 .. Len(order), NEW after, Trace(after, order, os, n),
           NEW x \in Nodes, NEW p \in 0 .. n,
           \A i \in (p + 1) .. n : Node(order[i]) = x =>
               \/ Harmless(order[i], os[order[i]]) /\ after[p][x] # Gone
               \/ Writes(order[i], os[order[i]], after[p][x])
    PROVE  after[n][x] = after[p][x]
<1> DEFINE S == {m \in Nat : p <= m /\ m <= n => after[m][x] = after[p][x]}
<1>0. n \in Nat /\ p \in Nat /\ n <= Len(order) /\ Len(order) \in Nat
    OBVIOUS
<1>1. 0 \in S
    BY <1>0
<1>2. ASSUME NEW m \in Nat, m \in S
      PROVE  m + 1 \in S
    <2>1. SUFFICES ASSUME p <= m + 1, m + 1 <= n
                   PROVE  after[m + 1][x] = after[p][x]
        OBVIOUS
    <2>2. CASE p = m + 1
        BY <2>2
    <2>3. CASE p # m + 1
        <3>1. p <= m /\ m <= n /\ m + 1 \in 1 .. n /\ (m + 1) - 1 = m /\ m + 1 \in (p + 1) .. n
              /\ m + 1 \in 1 .. Len(order) /\ m \in 0 .. n
            BY <1>0, <2>1, <2>3
        <3>2. after[m][x] = after[p][x]
            BY <1>2, <3>1
        <3>3. after[m] \in Graphs /\ after[m + 1] = Saved(after[m], order[m + 1], os[order[m + 1]])
            BY <3>1 DEF Trace
        <3>4. order[m + 1] \in DOMAIN script /\ os[order[m + 1]] \in Models
            BY <3>1, ScriptTyped
        <3>5. CASE Writes(order[m + 1], os[order[m + 1]], after[p][x]) /\ Node(order[m + 1]) = x
            BY <3>3, <3>4, <3>5, SavedAt DEF Writes
        <3>6. CASE ~Writes(order[m + 1], os[order[m + 1]], after[p][x]) \/ Node(order[m + 1]) # x
            BY <3>1, <3>2, <3>3, <3>4, <3>6, SavedAt
        <3> QED BY <3>5, <3>6
    <2> QED BY <2>2, <2>3
<1>3. Nat \subseteq S
    <2> HIDE DEF S
    <2> QED BY <1>1, <1>2, SetInduction
<1> QED BY <1>0, <1>3

\* A commit leaves a node alone whose models have nothing to write.
LEMMA WrittenElsewhere ==
    ASSUME script \in Scripts, db \in Graphs, NEW order \in Seq(DOMAIN script),
           NEW os \in [Edits -> Models], NEW n \in 0 .. Len(order), NEW x \in Nodes,
           \A i \in 1 .. n : Node(order[i]) = x => Harmless(order[i], os[order[i]]) /\ db[x] # Gone
    PROVE  Written(order, os, n)[x] = db[x]
<1>1. PICK after : Trace(after, order, os, n) /\ Written(order, os, n) = after[n]
    BY WrittenTrace
<1>2. after[0] = db /\ n \in Nat /\ 0 \in 0 .. n /\ 0 + 1 = 1
    BY <1>1 DEF Trace
<1>3. \A i \in (0 + 1) .. n : Node(order[i]) = x => Harmless(order[i], os[order[i]]) /\ after[0][x] # Gone
    BY <1>2
<1>4. after[n][x] = after[0][x]
    BY <1>1, <1>2, <1>3, WrittenKept
<1> QED BY <1>1, <1>2, <1>4

\* A commit that goes through leaves at a node what one of its models says, when the later
\* ones have nothing to write or are the same.
LEMMA WrittenLast ==
    ASSUME script \in Scripts, db \in Graphs, NEW order \in Seq(DOMAIN script),
           NEW os \in [Edits -> Models], NEW x \in Nodes, NEW p \in 1 .. Len(order), NEW v,
           v # Gone, Node(order[p]) = x, Writes(order[p], os[order[p]], v),
           \A i \in (p + 1) .. Len(order) : Node(order[i]) = x =>
               Harmless(order[i], os[order[i]]) \/ order[i] = order[p]
    PROVE  Written(order, os, Len(order))[x] = v
<1> DEFINE n == Len(order)
<1>0. n \in Nat /\ n \in 0 .. Len(order) /\ p \in 1 .. n /\ p \in 0 .. n /\ p - 1 \in 0 .. n
    OBVIOUS
<1>1. PICK after : Trace(after, order, os, n) /\ Written(order, os, n) = after[n]
    BY <1>0, WrittenTrace
<1>2. after[p - 1] \in Graphs /\ after[p] = Saved(after[p - 1], order[p], os[order[p]])
    BY <1>0, <1>1 DEF Trace
<1>3. order[p] \in DOMAIN script /\ os[order[p]] \in Models
    BY ScriptTyped
<1>4. after[p][x] = v
    BY <1>2, <1>3, SavedAt DEF Writes
<1>5. \A i \in (p + 1) .. n : Node(order[i]) = x =>
               \/ Harmless(order[i], os[order[i]]) /\ after[p][x] # Gone
               \/ Writes(order[i], os[order[i]], after[p][x])
    BY <1>4
<1>6. after[n][x] = after[p][x]
    BY <1>0, <1>1, <1>5, WrittenKept
<1> QED BY <1>1, <1>4, <1>6

\* A commit that goes through and ends with a deletion leaves nothing at its node.
LEMMA WrittenGone ==
    ASSUME script \in Scripts, db \in Graphs, NEW order \in Seq(DOMAIN script),
           NEW os \in [Edits -> Models], NEW e \in DOMAIN script, Len(order) >= 1,
           order[Len(order)] = e, os[e].state = "deleted"
    PROVE  Written(order, os, Len(order))[Node(e)] = Gone
<1> DEFINE n == Len(order)
<1>0. n \in Nat /\ n \in 0 .. Len(order) /\ n \in 1 .. n /\ n - 1 \in 0 .. n
    OBVIOUS
<1>1. PICK after : Trace(after, order, os, n) /\ Written(order, os, n) = after[n]
    BY <1>0, WrittenTrace
<1>2. after[n - 1] \in Graphs /\ after[n] = Saved(after[n - 1], e, os[e])
    BY <1>0, <1>1 DEF Trace
<1>3. os[e] \in Models /\ Node(e) \in Nodes
    BY ScriptTyped DEF Node
<1> QED BY <1>1, <1>2, <1>3, SavedAt
---------------------------------------------------------------------------
(* The types. *)

\* A job is of an edit and is one of three kinds.
LEMMA JobTyped ==
    ASSUME NEW j \in Jobs
    PROVE  /\ j[1] \in Edits /\ j[2] \in {"delete", "reconstruct", "commit"}
           /\ j = <<j[1], j[2]>>
           /\ Slot(j) \in {1, 2, 3}
<1>1. Range(Kinds) = {"delete", "reconstruct", "commit"}
    BY DEF Kinds, Range
<1> QED BY <1>1 DEF Jobs, Slot

\* Each kind of job of an edit is a job.
LEMMA JobsAre ==
    ASSUME NEW e \in Edits, NEW k \in {"delete", "reconstruct", "commit"}
    PROVE  /\ <<e, k>> \in Jobs
           /\ e \in DOMAIN script => <<e, k>> \in Asked
<1>1. Range(Kinds) = {"delete", "reconstruct", "commit"}
    BY DEF Kinds, Range
<1> QED BY <1>1 DEF Jobs, Asked

\* The jobs of a run are jobs of its script.
LEMMA AskedTyped ==
    ASSUME script \in Scripts
    PROVE  /\ Asked \subseteq Jobs
           /\ \A j \in Asked : j[1] \in DOMAIN script /\ j[1] \in Edits /\ Node(j[1]) \in Nodes
BY ScriptTyped DEF Asked, Jobs, Node

\* The job a request is about to register or put in the queue.
LEMMA KindTyped ==
    ASSUME NEW n \in 1 .. 6
    PROVE  /\ n \in {1, 2} => KindAt(n) = "delete"
           /\ n \in {3, 4} => KindAt(n) = "reconstruct"
           /\ n \in {5, 6} => KindAt(n) = "commit"
           /\ KindAt(n) \in {"delete", "reconstruct", "commit"}
<1>1. (n \in {1, 2} => (n + 1) \div 2 = 1) /\ (n \in {3, 4} => (n + 1) \div 2 = 2)
      /\ (n \in {5, 6} => (n + 1) \div 2 = 3)
    OBVIOUS
<1> QED BY <1>1 DEF KindAt, Kinds

\* The four requests that go through the queue begin alike.
Request(e) == CreateParagraph(e) \/ CreateSentence(e) \/ UpdateParagraph(e) \/ UpdateSentence(e)

\* What the four have in common: the edit begins with a model that says what it asks for.
LEMMA RequestOpens ==
    ASSUME Types, NEW e \in Edits, Request(e)
    PROVE  /\ e \in DOMAIN script /\ step[e] = 0 /\ script[e].op # "delete"
           /\ script[e].op = "update" => db[Node(e)] # Gone
           /\ \A f \in 1 .. e - 1 : Node(f) = Node(e) => step[f] = 7
           /\ \E o \in Models : /\ object' = [object EXCEPT ![e] = o]
                                /\ o.state = StateOf(e)
                                /\ ~o.dirty => o.words = script[e].text
           /\ step' = [step EXCEPT ![e] = 1]
           /\ last' = IF Matters(e) THEN [last EXCEPT ![Node(e)] = e] ELSE last
           /\ UNCHANGED <<script, Queued, control, worker, uow, db, trouble, overtaken, leftover>>
<1>1. e \in DOMAIN script /\ step[e] = 0 /\ script[e].op \in {"create", "update"}
      /\ \A f \in 1 .. e - 1 : Node(f) = Node(e) => step[f] = 7
    BY DEF Request, CreateParagraph, CreateSentence, UpdateParagraph, UpdateSentence, Turn
<1>2. script[e].text \in Texts \cup {Blank} /\ Node(e) \in Nodes
    BY <1>1, ScriptTyped DEF Types, Node
<1>7. script[e].op = "update" => db[Node(e)] # Gone
    BY DEF Request, CreateParagraph, CreateSentence, UpdateParagraph, UpdateSentence, Turn
<1>3. CASE CreateParagraph(e)
    <2> DEFINE o == [state |-> "new", dirty |-> FALSE, words |-> script[e].text]
    <2>8. o \in Models /\ o.state = StateOf(e) /\ (~o.dirty => o.words = script[e].text)
        BY <1>2, <1>3 DEF CreateParagraph, Turn, Models, StateOf
    <2>9. Opened(e, o)
        BY <1>3 DEF CreateParagraph, Opened
    <2> HIDE DEF o
    <2> QED BY <1>1, <1>7, <2>8, <2>9 DEF Opened, Matters
<1>4. CASE CreateSentence(e)
    <2> DEFINE o == [state |-> "new", dirty |-> TRUE, words |-> Blank]
    <2>2. SetText(NoObject) = o
        BY DEF SetText, NoObject, OnChanged
    <2>8. o \in Models /\ o.state = StateOf(e) /\ (~o.dirty => o.words = script[e].text)
        BY <1>2, <1>4 DEF CreateSentence, Turn, Models, StateOf
    <2>9. Opened(e, o)
        BY <1>4, <2>2 DEF CreateSentence, Opened
    <2> HIDE DEF o
    <2> QED BY <1>1, <1>7, <2>8, <2>9 DEF Opened, Matters
<1>5. CASE UpdateParagraph(e)
    <2> DEFINE o == [state |-> "changed", dirty |-> FALSE, words |-> script[e].text]
    <2>8. o \in Models /\ o.state = StateOf(e) /\ (~o.dirty => o.words = script[e].text)
        BY <1>2, <1>5 DEF UpdateParagraph, Turn, Models, StateOf
    <2>9. Opened(e, o)
        BY <1>5 DEF UpdateParagraph, Opened
    <2> HIDE DEF o
    <2> QED BY <1>1, <1>7, <2>8, <2>9 DEF Opened, Matters
<1>6. CASE UpdateSentence(e)
    <2> DEFINE o == [state |-> "changed", dirty |-> TRUE, words |-> db[Node(e)]]
    <2>1. db[Node(e)] \in Texts \cup {Blank}
        BY <1>2, <1>6 DEF UpdateSentence, Types, Graphs, Values
    <2>2. SetText(Loaded(e)) = o
        BY DEF SetText, Loaded, OnChanged
    <2>8. o \in Models /\ o.state = StateOf(e) /\ (~o.dirty => o.words = script[e].text)
        BY <1>2, <1>6, <2>1 DEF UpdateSentence, Turn, Models, StateOf
    <2>9. Opened(e, o)
        BY <1>6, <2>2 DEF UpdateSentence, Opened
    <2> HIDE DEF o
    <2> QED BY <1>1, <1>7, <2>8, <2>9 DEF Opened, Matters
<1> QED BY <1>1, <1>3, <1>4, <1>5, <1>6 DEF Request

\* The cases of a step.
LEMMA StepCases ==
    ASSUME [Next]_vars
    PROVE  \/ \E e \in Edits : \/ Request(e) \/ Refuse(e) \/ Delete(e) \/ Enqueue(e) \/ Put(e)
                               \/ RunDelete(e) \/ RunReconstruct(e) \/ RunCommit(e)
           \/ Start \/ SetShutdown \/ TakeThread \/ ResetQueue \/ Timeout
           \/ Exit \/ Take \/ Empty \/ Flush \/ Settle
           \/ UNCHANGED vars
BY DEF Next, Work, Serve, Request

\* The order in which a commit or a flush saves its models.
LEMMA OrderTyped ==
    ASSUME NEW D, NEW u \in [Lists -> Seq(D)]
    PROVE  /\ u.new \in Seq(D) /\ u.changed \in Seq(D) /\ u.deleted \in Seq(D)
           /\ u.new \o u.changed \o u.deleted \in Seq(D)
           /\ u.deleted \o u.new \o u.changed \in Seq(D)
<1>1. u.new \in Seq(D) /\ u.changed \in Seq(D) /\ u.deleted \in Seq(D)
    BY DEF Lists
<1> QED BY <1>1

\* What persisting does to the graph, and that the models it saved were clean.
LEMMA PersistTyped ==
    ASSUME Types, NEW os \in [Edits -> Models], NEW order \in Seq(DOMAIN script),
           NEW n \in 0 .. Len(order), Persist(order, os, n)
    PROVE  /\ db' \in Graphs
           /\ trouble' \in 0 .. MaxTrouble
<1>0. script \in Scripts /\ db \in Graphs
    BY DEF Types
<1>1. PICK after : Trace(after, order, os, n) /\ Written(order, os, n) = after[n]
    BY <1>0, WrittenTrace
<1>2. after[n] \in Graphs
    BY <1>1 DEF Trace
<1>3. trouble' \in 0 .. MaxTrouble
    BY BoundAssumption DEF Persist, Trouble, Types
<1> QED BY <1>1, <1>2, <1>3 DEF Persist

\* A list takes a model of the script.
LEMMA RegisterTyped ==
    ASSUME NEW D, NEW u \in [Lists -> Seq(D)], NEW e \in D, NEW state
    PROVE  Register(u, e, state) \in [Lists -> Seq(D)]
BY DEF Register, Lists

\* Empty lists are lists.
LEMMA NoWorkTyped == \A D : NoWork \in [Lists -> Seq(D)]
BY DEF NoWork, Lists

\* A commit keeps the graph and the lists typed.
LEMMA CommitTyped ==
    ASSUME Types, object' \in [Edits -> Models], NEW u \in [Lists -> Seq(DOMAIN script)], Commit(u)
    PROVE  /\ db' \in Graphs
           /\ trouble' \in 0 .. MaxTrouble
           /\ uow' \in [Lists -> Seq(DOMAIN script)]
<1> DEFINE order == u.new \o u.changed \o u.deleted
<1>1. order \in Seq(DOMAIN script)
    BY OrderTyped
<1>2. PICK n \in 0 .. Len(order) : Persist(order, object', n) /\ uow' = IF n = Len(order) THEN NoWork ELSE u
    BY DEF Commit
<1>3. uow' \in [Lists -> Seq(DOMAIN script)]
    BY <1>2, NoWorkTyped
<1> HIDE DEF order
<1> QED BY <1>1, <1>2, <1>3, PersistTyped

\* The initial states are typed.
LEMMA TypesInit == Init => Types
<1> SUFFICES ASSUME Init
             PROVE  Types
    OBVIOUS
<1>2. db \in Graphs
    BY DEF Init, Graphs, Values
<1>3. uow \in [Lists -> Seq(DOMAIN script)]
    BY NoWorkTyped DEF Init
<1>4. worker = [pc |-> "absent", job |-> NoJob]
    BY DEF Init, Asleep
<1>5. worker \in [pc : Pcs, job : Asked \cup {NoJob}] /\ worker.pc = "absent"
    BY <1>4 DEF Pcs
<1>6. object \in [Edits -> Models]
    BY DEF Init, Models, NoObject
<1>7. script \in Scripts /\ step \in [Edits -> 0 .. 7] /\ (\A e \in Edits : step[e] = 0)
      /\ status \in [Jobs -> {"queued", "running", "done", "cancelled", "failed"}]
      /\ jobs = {} /\ recon \in [Nodes -> Asked \cup {NoJob}] /\ queue = << >>
    BY DEF Init
<1>8. pending = 0 /\ completed = FALSE /\ control = "off" /\ trouble = 0 /\ overtaken = {}
      /\ leftover = FALSE /\ last \in [Nodes -> Edits \cup {0}]
    BY DEF Init
<1>9. queue \in Seq(Asked) /\ jobs \subseteq Asked /\ pending \in Int /\ completed \in BOOLEAN
      /\ leftover \in BOOLEAN /\ overtaken \subseteq Nodes /\ trouble \in 0 .. MaxTrouble
    <2>1. queue \in Seq(Asked)
        BY <1>7, EmptySeq
    <2>2. jobs \subseteq Asked /\ overtaken \subseteq Nodes
        BY <1>7, <1>8
    <2>3. pending \in Int /\ trouble \in 0 .. MaxTrouble
        BY <1>8, BoundAssumption
    <2> QED BY <1>8, <2>1, <2>2, <2>3
<1> HIDE DEF Init
<1> QED BY <1>2, <1>3, <1>5, <1>6, <1>7, <1>8, <1>9 DEF Types, Busy

\* The flush rebuilds models and keeps them models.
LEMMA RebuiltTyped ==
    ASSUME Types
    PROVE  Rebuilt(object) \in [Edits -> Models]
<1>1. \A e \in Edits : e \in Range(uow.new) \cup Range(uow.changed) => e \in DOMAIN script
    <2>1. uow.new \in Seq(DOMAIN script) /\ uow.changed \in Seq(DOMAIN script)
        BY OrderTyped DEF Types
    <2> QED BY <2>1 DEF Range
<1>2. \A e \in Edits : e \in DOMAIN script => Tokenized(e, object[e]) \in Models
    BY ScriptTyped DEF Types, Models, Tokenized
<1> QED BY <1>1, <1>2 DEF Rebuilt, Types

\* Every step keeps the types.
LEMMA TypesStep ==
    ASSUME Types, [Next]_vars
    PROVE  Types'
<1>1. ASSUME NEW e \in Edits, Request(e)
      PROVE  Types'
    <2>1. PICK o \in Models : object' = [object EXCEPT ![e] = o]
        BY <1>1, RequestOpens
    <2>2. /\ e \in DOMAIN script
          /\ step' = [step EXCEPT ![e] = 1]
          /\ last' = IF Matters(e) THEN [last EXCEPT ![Node(e)] = e] ELSE last
          /\ UNCHANGED <<script, Queued, control, worker, uow, db, trouble, overtaken, leftover>>
        BY <1>1, RequestOpens
    <2>3. object' \in [Edits -> Models] /\ last' \in [Nodes -> Edits \cup {0}]
        BY <2>1, <2>2 DEF Types
    <2>4. step' \in [Edits -> 0 .. 7] /\ \A f \in Edits : step'[f] # 0 => f \in DOMAIN script
        BY <2>2 DEF Types
    <2> QED BY <2>2, <2>3, <2>4 DEF Types, Queued, Busy, Asked
<1>2. ASSUME NEW e \in Edits, Refuse(e)
      PROVE  Types'
    BY <1>2 DEF Types, Refuse, Turn, Queued, History, Busy, Asked
<1>3. ASSUME NEW e \in Edits, Delete(e)
      PROVE  Types'
    <2>1. e \in DOMAIN script /\ Node(e) \in Nodes
        BY <1>3, ScriptTyped DEF Delete, Turn, Types, Node
    <2>2. object' \in [Edits -> Models]
        BY <1>3 DEF Delete, Types, Models
    <2>3. Register(uow, e, "deleted") \in [Lists -> Seq(DOMAIN script)]
        BY <2>1, RegisterTyped DEF Types
    <2>4. db' \in Graphs /\ trouble' \in 0 .. MaxTrouble /\ uow' \in [Lists -> Seq(DOMAIN script)]
        BY <1>3, <2>2, <2>3, CommitTyped DEF Delete
    <2>5. step' \in [Edits -> 0 .. 7] /\ (\A f \in Edits : step'[f] # 0 => f \in DOMAIN script)
          /\ last' \in [Nodes -> Edits \cup {0}] /\ overtaken' \subseteq Nodes
        BY <1>3, <2>1 DEF Delete, Types
    <2>6. UNCHANGED <<script, status, jobs, recon, queue, pending, completed, control, worker, leftover>>
        BY <1>3 DEF Delete, Queued
    <2> QED BY <2>2, <2>4, <2>5, <2>6 DEF Types, Busy, Asked
<1>4. ASSUME NEW e \in Edits, Enqueue(e)
      PROVE  Types'
    <2> DEFINE j == <<e, KindAt(step[e])>>
    <2>1. e \in DOMAIN script /\ Node(e) \in Nodes
        BY <1>4, ScriptTyped DEF Enqueue, Types, Node
    <2>2. j \in Asked
        <3>1. step[e] \in 1 .. 6
            BY <1>4 DEF Enqueue
        <3> QED BY <2>1, <3>1, KindTyped, JobsAre
    <2>3. Replaced(Node(e)) \in [Jobs -> {"queued", "running", "done", "cancelled", "failed"}]
        BY <2>1, AskedTyped DEF Replaced, Cancelled, Types
    <2>4. /\ jobs' = jobs \cup {j} /\ pending' = pending + 1
          /\ status' \in {status, Replaced(Node(e))}
          /\ recon' \in {recon, [recon EXCEPT ![Node(e)] = j]}
        BY <1>4 DEF Enqueue, Counted
    <2>5. step' = [step EXCEPT ![e] = @ + 1] /\ step[e] \in {1, 3, 5} /\ completed' = FALSE
          /\ UNCHANGED <<script, object, queue, control, worker, uow, db, trouble, History>>
        BY <1>4 DEF Enqueue
    <2> HIDE DEF j
    <2>6. step' \in [Edits -> 0 .. 7] /\ \A f \in Edits : step'[f] # 0 => f \in DOMAIN script
        BY <2>1, <2>5 DEF Types
    <2>7. recon' \in [Nodes -> Asked \cup {NoJob}]
          /\ status' \in [Jobs -> {"queued", "running", "done", "cancelled", "failed"}]
          /\ jobs' \subseteq Asked /\ pending' \in Int
        BY <2>2, <2>3, <2>4 DEF Types
    <2>8. Asked' = Asked
        BY <2>5 DEF Asked
    <2> QED BY <2>2, <2>5, <2>6, <2>7, <2>8 DEF Types, History, Busy
<1>5. ASSUME NEW e \in Edits, Put(e)
      PROVE  Types'
    <2>0. e \in DOMAIN script
        BY <1>5 DEF Put, Types
    <2>1. <<e, KindAt(step[e])>> \in Asked
        <3>1. step[e] \in 1 .. 6
            BY <1>5 DEF Put
        <3> QED BY <2>0, <3>1, KindTyped, JobsAre
    <2>2. queue' \in Seq(Asked)
        BY <1>5, <2>1 DEF Put, Types
    <2>3. step' \in [Edits -> 0 .. 7] /\ \A f \in Edits : step'[f] # 0 => f \in DOMAIN script
        BY <1>5 DEF Put, Types
    <2>4. UNCHANGED <<script, object, status, jobs, recon, pending, completed, control, worker,
                      uow, db, trouble, History>>
        BY <1>5 DEF Put
    <2>5. Asked' = Asked
        BY <2>4 DEF Asked
    <2> QED BY <2>1, <2>2, <2>3, <2>4, <2>5 DEF Types, History, Busy
<1>6. CASE Start
    BY <1>6 DEF Start, Types, History, Busy, Looping, Pcs, Asked
<1>7. CASE SetShutdown
    BY <1>7, BoundAssumption DEF SetShutdown, Trouble, Types, History, Busy, Queued, Asked
<1>8. CASE TakeThread
    BY <1>8 DEF TakeThread, Types, History, Busy, Queued, Asked
<1>9. CASE ResetQueue
    <2>1. overtaken' \subseteq Nodes
        <3>1. \A j \in jobs : Node(j[1]) \in Nodes
            BY AskedTyped DEF Types
        <3> QED BY <1>9, <3>1 DEF ResetQueue, Types
    <2>2. recon' \in [Nodes -> Asked \cup {NoJob}] /\ jobs' = {} /\ completed' = FALSE /\ pending' = 0
          /\ control' = "off" /\ leftover' \in BOOLEAN /\ worker.pc \in {"absent", "dead"}
          /\ UNCHANGED <<script, step, object, status, queue, worker, uow, db, trouble, last>>
        BY <1>9 DEF ResetQueue, Types
    <2>3. Asked' = Asked
        BY <2>2 DEF Asked
    <2>4. jobs' \subseteq Asked
        BY <2>2
    <2>5. pending' \in Int
        BY <2>2
    <2>6. completed' \in BOOLEAN
        BY <2>2
    <2> QED BY <2>1, <2>2, <2>3, <2>4, <2>5, <2>6 DEF Types, Busy
<1>10. CASE Timeout
    <2>1. trouble' \in 0 .. MaxTrouble
        BY <1>10, BoundAssumption DEF Timeout, Trouble, Types
    <2>2. status' \in [Jobs -> {"queued", "running", "done", "cancelled", "failed"}]
        BY <1>10 DEF Timeout, Cancelled, Types
    <2> QED BY <1>10, <2>1, <2>2 DEF Timeout, Types, History, Busy, Asked
<1>11. CASE Exit
    BY <1>11 DEF Exit, Types, History, Queued, Busy, Asleep, Pcs, Asked
<1>12. CASE Take
    <2>1. queue # << >> /\ queue \in Seq(Asked)
        BY <1>12 DEF Take, Types
    <2>2. queue' \in Seq(Asked) /\ Head(queue) \in Asked
        BY <1>12, <2>1, HeadTailProperties DEF Take
    <2> DEFINE h == Head(queue)
    <2>3. \/ /\ status' = [status EXCEPT ![h] = "running"]
             /\ worker' = [pc |-> "run", job |-> h]
             /\ UNCHANGED pending
          \/ pending' = pending - 1 /\ UNCHANGED <<status, worker>>
        BY <1>12 DEF Take, Counting
    <2>4. worker.pc = "loop" /\ UNCHANGED <<script, step, object, jobs, recon, completed, control, uow, db,
                                            trouble, History>>
        BY <1>12 DEF Take
    <2> HIDE DEF h
    <2>5. h \in Asked /\ h \in Jobs /\ Asked' = Asked
        BY <2>2, <2>4, AskedTyped DEF h, Types, Asked
    <2>6. status' \in [Jobs -> {"queued", "running", "done", "cancelled", "failed"}] /\ pending' \in Int
        BY <2>3, <2>5 DEF Types
    <2>7. worker' \in [pc : Pcs, job : Asked \cup {NoJob}] /\ worker'.pc \in {"run", "loop"}
          /\ (worker'.pc = "run" => worker'.job \in Asked)
        BY <2>3, <2>4, <2>5 DEF Types, Pcs
    <2> QED BY <2>2, <2>4, <2>5, <2>6, <2>7 DEF Types, History, Busy, Asked
<1>13. CASE Empty
    BY <1>13 DEF Empty, Complete, Types, History, Busy, Looping, Pcs, Asked
<1>14. CASE Flush
    <2>1. object' \in [Edits -> Models]
        BY <1>14, RebuiltTyped DEF Flush
    <2> DEFINE order == Flushing
    <2>2. order \in Seq(DOMAIN script)
        BY OrderTyped DEF Types, Flushing
    <2>3. PICK n \in 0 .. Len(order) :
            /\ Persist(order, object', n)
            /\ uow' = IF n = Len(order) THEN NoWork
                      ELSE IF n < Len(uow.deleted) THEN uow ELSE [uow EXCEPT !["deleted"] = << >>]
            /\ worker' = [Looping EXCEPT !.pc = IF n = Len(order) THEN "loop" ELSE "dead"]
        BY <1>14 DEF Flush
    <2>4. uow' \in [Lists -> Seq(DOMAIN script)]
        BY <2>3, NoWorkTyped DEF Types, Lists
    <2>5. worker' \in [pc : Pcs, job : Asked \cup {NoJob}] /\ worker'.pc \in {"loop", "dead"}
        BY <2>3 DEF Looping, Pcs, Asked
    <2>6. UNCHANGED <<script, step, status, jobs, recon, queue, pending, completed, control, last,
                      overtaken, leftover>>
        BY <1>14 DEF Flush, Queued, History
    <2>7. worker.pc = "idle"
        BY <1>14 DEF Flush
    <2> HIDE DEF order
    <2>8. db' \in Graphs /\ trouble' \in 0 .. MaxTrouble
        BY <2>1, <2>2, <2>3, PersistTyped
    <2>9. Asked' = Asked
        BY <2>6 DEF Asked
    <2> QED BY <2>1, <2>4, <2>5, <2>6, <2>7, <2>8, <2>9 DEF Types, Busy, Asked
<1>15. CASE Settle
    <2>1. recon' \in [Nodes -> Asked \cup {NoJob}]
        BY <1>15 DEF Settle, Forgotten, Types
    <2> QED BY <1>15, <2>1 DEF Settle, Types, History, Busy, Looping, Pcs, Asked
<1>16. ASSUME NEW e \in Edits, NEW k \in {"delete", "reconstruct", "commit"},
              NEW outcome \in {"done", "cancelled", "failed"}, Ran(<<e, k>>, outcome),
              object' \in [Edits -> Models], db' \in Graphs, trouble' \in 0 .. MaxTrouble,
              uow' \in [Lists -> Seq(DOMAIN script)]
       PROVE  Types'
    <2>1. <<e, k>> \in Jobs /\ <<e, k>> \in Asked /\ Asked' = Asked
        BY <1>16, JobsAre DEF Ran, Asked, Types, Busy, Asked
    <2>2. status' \in [Jobs -> {"queued", "running", "done", "cancelled", "failed"}]
        BY <1>16, <2>1 DEF Ran, Types
    <2>3. worker' \in [pc : Pcs, job : Asked \cup {NoJob}] /\ worker'.pc = "settle" /\ worker'.job \in Asked
          /\ worker.pc = "run"
        BY <1>16, <2>1 DEF Ran, Types, Pcs
    <2>4. UNCHANGED <<script, step, jobs, recon, queue, pending, completed, control, last,
                      overtaken, leftover>>
        BY <1>16 DEF Ran, History
    <2> QED BY <1>16, <2>1, <2>2, <2>3, <2>4 DEF Types, Busy, Asked
<1>17. ASSUME NEW e \in Edits, RunDelete(e) \/ RunReconstruct(e)
       PROVE  Types'
    <2>1. PICK k \in {"delete", "reconstruct"}, outcome \in {"done", "cancelled"} : Ran(<<e, k>>, outcome)
        BY <1>17 DEF RunDelete, RunReconstruct
    <2>2. worker = [pc |-> "run", job |-> <<e, k>>]
        BY <2>1 DEF Ran
    <2>3. UNCHANGED <<uow, db, trouble, script>>
        BY <1>17, <2>1 DEF RunDelete, RunReconstruct, Ran
    <2>4. object' \in [Edits -> Models]
        <3>1. e \in DOMAIN script
            BY <2>2, AskedTyped DEF Types, Busy, Asked
        <3>2. Tokenized(e, object[e]) \in Models
            BY <3>1, ScriptTyped DEF Types, Models, Tokenized
        <3>3. [object EXCEPT ![e].words = Blank] \in [Edits -> Models] /\ object \in [Edits -> Models]
            BY DEF Types, Models
        <3>4. CASE RunDelete(e)
            BY <3>3, <3>4 DEF RunDelete
        <3>5. CASE RunReconstruct(e)
            BY <3>2, <3>3, <3>5 DEF RunReconstruct
        <3> QED BY <3>4, <3>5, <1>17
    <2> QED BY <2>1, <2>3, <2>4, <1>16 DEF Types
<1>18. ASSUME NEW e \in Edits, RunCommit(e)
       PROVE  Types'
    <2>1. PICK outcome \in {"done", "failed"} : Ran(<<e, "commit">>, outcome)
        BY <1>18 DEF RunCommit
    <2>2. worker = [pc |-> "run", job |-> <<e, "commit">>] /\ script' = script
        BY <2>1 DEF Ran
    <2>3. e \in DOMAIN script
        BY <2>2, AskedTyped DEF Types, Busy, Asked
    <2>4. Tracking(e) \in [Lists -> Seq(DOMAIN script)] /\ object' \in [Edits -> Models]
        BY <1>18, <2>3, RegisterTyped DEF Tracking, Types, RunCommit
    <2>5. db' \in Graphs /\ trouble' \in 0 .. MaxTrouble /\ uow' \in [Lists -> Seq(DOMAIN script)]
        <3>1. CASE object[e].dirty
            BY <3>1, <1>18, <2>4 DEF RunCommit, Types
        <3>2. CASE ~object[e].dirty
            BY <3>2, <1>18, <2>4, CommitTyped DEF RunCommit
        <3> QED BY <3>1, <3>2
    <2> QED BY <2>1, <2>2, <2>4, <2>5, <1>16
<1>19. CASE UNCHANGED vars
    BY <1>19 DEF vars, Types, Queued, Busy, Asked, History
<1> QED BY <1>1, <1>2, <1>3, <1>4, <1>5, <1>6, <1>7, <1>8, <1>9, <1>10, <1>11, <1>12, <1>13, <1>14,
           <1>15, <1>17, <1>18, <1>19, StepCases
---------------------------------------------------------------------------
(* The ids in the queue, the entries of the reconstructions and the count. *)

\* An edit begins, or is over at once.
Advanced(e) ==
    /\ step[e] = 0
    /\ step' \in {[step EXCEPT ![e] = 1], [step EXCEPT ![e] = 7]}
    /\ UNCHANGED <<status, jobs, recon, queue, pending, completed, worker, leftover>>

\* A step that leaves the ids alone.
Elsewhere ==
    /\ UNCHANGED <<step, status, jobs, recon, queue, pending, leftover>>
    /\ worker' = worker \/ (~Busy /\ ~Busy')
    /\ completed' \in {completed, FALSE, Complete}

\* A step as the queue sees it: an edit begins, a job is registered or put, the worker does
\* something with a job, or nothing of the queue changes.
LEMMA QueueCases ==
    ASSUME Types, [Next]_vars
    PROVE  /\ script' = script
           /\ \/ \E e \in DOMAIN script : Advanced(e)
              \/ \E e \in DOMAIN script : Enqueue(e) \/ Put(e)
              \/ ResetQueue \/ Take \/ Timeout \/ Settle
              \/ \E j \in Asked, outcome \in {"done", "cancelled", "failed"} : Ran(j, outcome)
              \/ Elsewhere
<1>1. ASSUME NEW e \in Edits, Request(e)
      PROVE  script' = script /\ e \in DOMAIN script /\ Advanced(e)
    <2>1. /\ e \in DOMAIN script /\ step[e] = 0 /\ step' = [step EXCEPT ![e] = 1]
          /\ UNCHANGED <<script, Queued, control, worker, uow, db, trouble, overtaken, leftover>>
        BY <1>1, RequestOpens
    <2> QED BY <2>1 DEF Advanced, Queued
<1>2. ASSUME NEW e \in Edits, Refuse(e) \/ Delete(e)
      PROVE  script' = script /\ e \in DOMAIN script /\ Advanced(e)
    BY <1>2 DEF Refuse, Delete, Turn, Advanced, Queued, History
<1>3. ASSUME NEW e \in Edits, Enqueue(e) \/ Put(e)
      PROVE  script' = script /\ e \in DOMAIN script
    BY <1>3 DEF Enqueue, Put, Types
<1>4. ASSUME NEW e \in Edits, RunDelete(e) \/ RunReconstruct(e) \/ RunCommit(e)
      PROVE  script' = script
             /\ \E j \in Asked, outcome \in {"done", "cancelled", "failed"} : Ran(j, outcome)
    <2>1. PICK k \in {"delete", "reconstruct", "commit"}, outcome \in {"done", "cancelled", "failed"} :
            Ran(<<e, k>>, outcome)
        BY <1>4 DEF RunDelete, RunReconstruct, RunCommit
    <2>2. script' = script /\ <<e, k>> \in Asked
        BY <2>1 DEF Ran, Types, Busy
    <2> QED BY <2>1, <2>2
<1>5. CASE Start
    BY <1>5 DEF Start, Types, History, Busy, Looping, Elsewhere
<1>6. CASE SetShutdown \/ TakeThread
    BY <1>6 DEF SetShutdown, TakeThread, History, Queued, Elsewhere
<1>7. CASE Exit \/ Empty
    <2>1. CASE Exit
        BY <2>1 DEF Exit, History, Queued, Busy, Asleep, Elsewhere
    <2>2. CASE Empty
        <3>1. worker.pc = "loop" /\ worker'.pc = "idle" /\ completed' = Complete
              /\ UNCHANGED <<script, step, status, jobs, recon, queue, pending, leftover>>
            BY <2>2 DEF Empty, Looping, History
        <3> QED BY <3>1 DEF Busy, Elsewhere
    <2> QED BY <1>7, <2>1, <2>2
<1>8. CASE Flush
    <2>1. /\ worker.pc = "idle" /\ worker'.pc \in {"loop", "dead"}
          /\ UNCHANGED <<script, step, Queued, control, History>>
        BY <1>8 DEF Flush, Looping
    <2> QED BY <2>1 DEF History, Queued, Busy, Elsewhere
<1>9. CASE ResetQueue \/ Take \/ Timeout \/ Settle
    BY <1>9 DEF ResetQueue, Take, Timeout, Settle
<1>10. CASE UNCHANGED vars
    BY <1>10 DEF vars, Elsewhere
<1> QED BY <1>1, <1>2, <1>3, <1>4, <1>5, <1>6, <1>7, <1>8, <1>9, <1>10, StepCases

\* The elements of a queue after a put and after a take.
LEMMA RangeAppend ==
    ASSUME NEW S, NEW q \in Seq(S), NEW x \in S
    PROVE  /\ Range(Append(q, x)) = Range(q) \cup {x}
           /\ Injective(q) /\ x \notin Range(q) => Injective(Append(q, x))
<1>1. /\ Len(Append(q, x)) = Len(q) + 1 /\ Append(q, x)[Len(q) + 1] = x
      /\ \A i \in 1 .. Len(q) : Append(q, x)[i] = q[i]
      /\ DOMAIN q = 1 .. Len(q) /\ DOMAIN Append(q, x) = 1 .. (Len(q) + 1) /\ Len(q) \in Nat
    BY AppendProperties
<1>2. 1 .. (Len(q) + 1) = (1 .. Len(q)) \cup {Len(q) + 1}
    BY <1>1
<1> HIDE DEF Injective
<1>3. Range(Append(q, x)) = Range(q) \cup {x}
    BY <1>1, <1>2 DEF Range
<1>4. ASSUME Injective(q), x \notin Range(q)
      PROVE  Injective(Append(q, x))
    <2>1. \A i \in 1 .. Len(q) : q[i] # x
        BY <1>1, <1>4 DEF Range
    <2> QED BY <1>1, <1>2, <1>4, <2>1 DEF Injective
<1> QED BY <1>3, <1>4

\* The elements of a queue after a take.
LEMMA RangeTail ==
    ASSUME NEW S, NEW q \in Seq(S), q # << >>
    PROVE  /\ Head(q) \in Range(q) /\ Head(q) = q[1] /\ Head(q) \in S
           /\ Range(q) = Range(Tail(q)) \cup {Head(q)}
           /\ Injective(q) => Head(q) \notin Range(Tail(q)) /\ Injective(Tail(q))
           /\ Len(Tail(q)) = Len(q) - 1 /\ DOMAIN Tail(q) = 1 .. (Len(q) - 1)
           /\ \A i \in 1 .. (Len(q) - 1) : Tail(q)[i] = q[i + 1]
<1>1. /\ Len(q) \in Nat /\ Len(q) >= 1 /\ DOMAIN q = 1 .. Len(q) /\ Head(q) = q[1]
      /\ Tail(q) \in Seq(S) /\ Len(Tail(q)) = Len(q) - 1
      /\ \A i \in 1 .. (Len(q) - 1) : Tail(q)[i] = q[i + 1]
    BY HeadTailProperties, EmptySeq
<1>2. DOMAIN Tail(q) = 1 .. (Len(q) - 1)
    BY <1>1
<1>3. \A i \in 1 .. Len(q) : i = 1 \/ (i - 1 \in 1 .. (Len(q) - 1) /\ (i - 1) + 1 = i)
    BY <1>1
<1>4. \A i \in 1 .. (Len(q) - 1) : i + 1 \in 1 .. Len(q) /\ i + 1 # 1
    BY <1>1
<1>5. 1 \in 1 .. Len(q)
    BY <1>1
<1> HIDE DEF Injective
<1>6. Range(q) \subseteq Range(Tail(q)) \cup {Head(q)}
    <2> SUFFICES ASSUME NEW i \in 1 .. Len(q)
                 PROVE  q[i] \in Range(Tail(q)) \cup {Head(q)}
        BY <1>1 DEF Range
    <2>1. CASE i = 1
        BY <2>1, <1>1
    <2>2. CASE i # 1
        <3>1. i - 1 \in DOMAIN Tail(q) /\ Tail(q)[i - 1] = q[i]
            BY <2>2, <1>1, <1>2, <1>3
        <3> QED BY <3>1 DEF Range
    <2> QED BY <2>1, <2>2
<1>7. Range(Tail(q)) \cup {Head(q)} \subseteq Range(q)
    BY <1>1, <1>2, <1>4, <1>5 DEF Range
<1>8. ASSUME Injective(q)
      PROVE  Head(q) \notin Range(Tail(q)) /\ Injective(Tail(q))
    <2>1. \A i \in DOMAIN Tail(q) : Tail(q)[i] # q[1]
        BY <1>8, <1>1, <1>2, <1>4, <1>5 DEF Injective
    <2>2. \A i, k \in DOMAIN Tail(q) : Tail(q)[i] = Tail(q)[k] => i = k
        BY <1>8, <1>1, <1>2, <1>4 DEF Injective
    <2> QED BY <1>1, <2>1, <2>2 DEF Range, Injective
<1> QED BY <1>1, <1>2, <1>5, <1>6, <1>7, <1>8 DEF Range

\* The slot of the job a request registers, and then puts, is where the request is.
LEMMA SlotIs ==
    ASSUME NEW e \in Edits, NEW n \in 1 .. 6
    PROVE  /\ n \in {2, 4, 6} => 2 * Slot(<<e, KindAt(n)>>) = n
           /\ n \in {1, 3, 5} => 2 * Slot(<<e, KindAt(n)>>) = n + 1
<1>1. CASE n \in {1, 2}
    BY <1>1, KindTyped DEF Slot
<1>2. CASE n \in {3, 4}
    BY <1>2, KindTyped DEF Slot
<1>3. CASE n \in {5, 6}
    BY <1>3, KindTyped DEF Slot
<1> QED BY <1>1, <1>2, <1>3

\* A request only goes forward.
LEMMA StepsGrow ==
    ASSUME Types, Types', [Next]_vars
    PROVE  \A j \in Jobs : /\ Slot(j) \in {1, 2, 3} /\ step[j[1]] \in 0 .. 7 /\ step'[j[1]] \in 0 .. 7
                           /\ step[j[1]] <= step'[j[1]]
<1>0. step \in [Edits -> 0 .. 7]
    BY DEF Types
<1>1. \A f \in Edits : step[f] <= step'[f]
    <2>1. CASE \E e \in DOMAIN script : Advanced(e)
        BY <2>1, <1>0 DEF Advanced
    <2>2. CASE \E e \in DOMAIN script : Enqueue(e) \/ Put(e)
        BY <2>2, <1>0 DEF Enqueue, Put
    <2>3. CASE ResetQueue \/ Take \/ Timeout \/ Settle
        BY <2>3, <1>0 DEF ResetQueue, Take, Timeout, Settle
    <2>4. CASE \E j \in Asked, outcome \in {"done", "cancelled", "failed"} : Ran(j, outcome)
        BY <2>4, <1>0 DEF Ran
    <2>5. CASE Elsewhere
        BY <2>5, <1>0 DEF Elsewhere
    <2> QED BY <2>1, <2>2, <2>3, <2>4, <2>5, QueueCases
<1> QED BY <1>1, JobTyped DEF Types

\* The ids agree at first.
LEMMA IdsInit == Init => Ids
BY DEF Init, Ids, Busy, Asleep, Injective, Range

\* The jobs named by the state are jobs.
LEMMA NamedJobs ==
    ASSUME Types
    PROVE  /\ jobs \subseteq Jobs /\ Range(queue) \subseteq Jobs /\ queue \in Seq(Jobs)
           /\ Busy => worker.job \in Jobs /\ worker.job[1] \in DOMAIN script
           /\ \A n \in Nodes : recon[n] = NoJob \/ recon[n] \in Jobs
<1>1. Asked \subseteq Jobs /\ \A j \in Asked : j[1] \in DOMAIN script
    BY AskedTyped DEF Types
<1>2. Range(queue) \subseteq Asked /\ queue \in Seq(Asked)
    BY RangeOfSeq DEF Types
<1>3. queue \in Seq(Jobs)
    BY <1>1, <1>2, SeqMonotonic
<1> QED BY <1>1, <1>2, <1>3 DEF Types

\* Every step keeps what is known of the ids.
LEMMA IdsStep ==
    ASSUME Types, Types', Ids, [Next]_vars
    PROVE  Ids'
<1> DEFINE Fresh(j) == \/ status[j] = "queued"
                       \/ status[j] = "cancelled" /\ j[2] = "reconstruct"
<1>0. script' = script /\ script \in Scripts
    BY QueueCases DEF Types
<1>1. \A j \in Jobs : /\ 2 * Slot(j) <= step[j[1]] => 2 * Slot(j) <= step'[j[1]]
                      /\ 2 * Slot(j) < step[j[1]] => 2 * Slot(j) < step'[j[1]]
                      /\ step'[j[1]] <= 2 * Slot(j) => step[j[1]] <= 2 * Slot(j)
    BY StepsGrow
<1>2. jobs \subseteq Jobs /\ Range(queue) \subseteq Jobs /\ queue \in Seq(Jobs)
      /\ (Busy => worker.job \in Jobs) /\ \A n \in Nodes : recon[n] = NoJob \/ recon[n] \in Jobs
    BY NamedJobs
<1>3. /\ \A j \in jobs : 2 * Slot(j) <= step[j[1]]
      /\ \A j \in Range(queue) : 2 * Slot(j) < step[j[1]]
      /\ Injective(queue)
      /\ Busy => 2 * Slot(worker.job) < step[worker.job[1]] /\ worker.job \notin Range(queue)
      /\ \A n \in Nodes : recon[n] = NoJob \/ recon[n][2] = "reconstruct"
      /\ \A j \in Jobs : step[j[1]] <= 2 * Slot(j) \/ j \in Range(queue) => Fresh(j)
    BY DEF Ids
<1>4. ASSUME NEW e \in DOMAIN script, Advanced(e)
      PROVE  Ids'
    <2>1. UNCHANGED <<status, jobs, recon, queue, worker>>
        BY <1>4 DEF Advanced
    <2> QED BY <2>1, <1>1, <1>2, <1>3 DEF Ids, Busy, Injective
<1>5. ASSUME NEW e \in DOMAIN script, Enqueue(e)
      PROVE  Ids'
    <2> DEFINE j == <<e, KindAt(step[e])>>
    <2>1. step[e] \in {1, 3, 5} /\ step' = [step EXCEPT ![e] = @ + 1] /\ e \in Edits /\ step \in [Edits -> 0 .. 7]
        BY <1>5, ScriptTyped DEF Enqueue, Types
    <2>2. step'[e] = step[e] + 1 /\ j[1] = e /\ 2 * Slot(j) = step'[e]
        <3>1. step[e] \in 1 .. 6
            BY <2>1
        <3> QED BY <2>1, <3>1, SlotIs
    <2>3. jobs' = jobs \cup {j} /\ UNCHANGED <<queue, worker>>
        BY <1>5 DEF Enqueue
    <2>4. \A n \in Nodes : recon'[n] = NoJob \/ recon'[n][2] = "reconstruct"
        <3>1. j[2] = KindAt(step[e])
            OBVIOUS
        <3>2. recon' = recon \/ (j[2] = "reconstruct" /\ recon' = [recon EXCEPT ![Node(e)] = j])
            BY <1>5 DEF Enqueue
        <3> HIDE DEF j
        <3> QED BY <3>2, <1>3 DEF Types
    <2>5. \A i \in Jobs : status'[i] = status[i] \/ (status'[i] = "cancelled" /\ i[2] = "reconstruct")
        <3>1. status' = status \/ status' = Replaced(Node(e))
            BY <1>5 DEF Enqueue
        <3>2. Node(e) \in Nodes
            BY AskedTyped, ScriptTyped DEF Types, Node
        <3>3. recon[Node(e)] # NoJob => recon[Node(e)][2] = "reconstruct"
            BY <3>2, <1>3
        <3> QED BY <3>1, <3>3 DEF Replaced, Cancelled, Types
    <2> HIDE DEF j
    <2>6. \A i \in jobs' : 2 * Slot(i) <= step'[i[1]]
        <3>1. ASSUME NEW i \in jobs', i = j
              PROVE  2 * Slot(i) <= step'[i[1]]
            BY <3>1, <2>2, <2>1
        <3> QED BY <2>3, <3>1, <1>1, <1>2, <1>3
    <2> QED BY <2>3, <2>4, <2>5, <2>6, <1>1, <1>2, <1>3 DEF Ids, Busy, Injective
<1>6. ASSUME NEW e \in DOMAIN script, Put(e)
      PROVE  Ids'
    <2> DEFINE j == <<e, KindAt(step[e])>>
    <2>1. step[e] \in {2, 4, 6} /\ step' = [step EXCEPT ![e] = @ + 1] /\ e \in Edits /\ step \in [Edits -> 0 .. 7]
        BY <1>6, ScriptTyped DEF Put, Types
    <2>2. step'[e] = step[e] + 1 /\ j[1] = e /\ 2 * Slot(j) = step[e] /\ j \in Jobs
        <3>1. step[e] \in 1 .. 6
            BY <2>1
        <3> QED BY <2>1, <3>1, SlotIs, KindTyped, JobsAre
    <2>3. queue' = Append(queue, j) /\ UNCHANGED <<status, jobs, recon, worker>>
        BY <1>6 DEF Put
    <2> HIDE DEF j
    <2>4. j \notin Range(queue)
        BY <2>1, <2>2, <1>3
    <2>5. Range(queue') = Range(queue) \cup {j} /\ Injective(queue')
        BY <2>2, <2>3, <2>4, <1>2, <1>3, RangeAppend
    <2>6. Busy => worker.job # j
        BY <2>1, <2>2, <1>3
    <2>7. 2 * Slot(j) < step'[j[1]] /\ Fresh(j)
        BY <2>1, <2>2, <1>3
    <2> QED BY <2>2, <2>3, <2>5, <2>6, <2>7, <1>1, <1>2, <1>3 DEF Ids, Busy, Injective
<1>7. CASE ResetQueue
    <2>1. jobs' = {} /\ recon' = [n \in Nodes |-> NoJob] /\ UNCHANGED <<step, status, queue, worker>>
        BY <1>7 DEF ResetQueue
    <2> QED BY <2>1, <1>3 DEF Ids, Busy, Injective
<1>8. CASE Take
    <2> DEFINE h == Head(queue)
    <2>1. queue # << >> /\ queue' = Tail(queue) /\ UNCHANGED <<step, jobs, recon>> /\ worker.pc = "loop"
        BY <1>8 DEF Take
    <2>2. \/ status' = [status EXCEPT ![h] = "running"] /\ worker' = [pc |-> "run", job |-> h]
          \/ UNCHANGED <<status, worker>>
        BY <1>8 DEF Take
    <2>3. h \in Range(queue) /\ Range(queue) = Range(queue') \cup {h} /\ h \notin Range(queue') /\ Injective(queue')
        BY <2>1, <1>2, <1>3, RangeTail
    <2> HIDE DEF h
    <2>4. 2 * Slot(h) < step[h[1]] /\ h \in Jobs
        BY <2>3, <1>2, <1>3
    <2>5. \A j \in Jobs : j # h => status'[j] = status[j]
        BY <2>2, <2>4 DEF Types
    <2>6. Busy' => worker'.job = h
        BY <2>1, <2>2 DEF Busy
    <2>7. \A j \in Jobs : step[j[1]] <= 2 * Slot(j) => j # h
        BY <2>4, StepsGrow
    <2> QED BY <2>1, <2>3, <2>4, <2>5, <2>6, <2>7, <1>1, <1>2, <1>3 DEF Ids, Injective
<1>9. ASSUME UNCHANGED <<step, jobs, queue>>,
             worker.pc = "run" => /\ worker' = worker \/ worker' = [worker EXCEPT !.pc = "settle"]
                                  /\ \A j \in Jobs : j # worker.job => status'[j] = status[j],
             worker.pc # "run" => (worker' = worker \/ ~Busy') /\ status' = status,
             \A n \in Nodes : recon'[n] = recon[n] \/ recon'[n] = NoJob
      PROVE  Ids'
    <2>1. Busy' => Busy /\ worker'.job = worker.job
        BY <1>9 DEF Busy, Types
    <2>2. \A j \in Jobs : step[j[1]] <= 2 * Slot(j) \/ j \in Range(queue) => status'[j] = status[j]
        BY <1>9, <1>3, StepsGrow DEF Busy
    <2> QED BY <1>9, <2>1, <2>2, <1>1, <1>2, <1>3 DEF Ids, Injective
<1>10. CASE Timeout
    <2>1. worker.pc = "run" /\ UNCHANGED <<step, jobs, queue, worker, recon>>
          /\ \A j \in Jobs : j # worker.job => status'[j] = status[j]
        BY <1>10, <1>2 DEF Timeout, Cancelled, Busy, Types
    <2> QED BY <2>1, <1>9
<1>11. CASE Settle
    <2>1. worker.pc = "settle" /\ worker' = Looping /\ UNCHANGED <<step, queue, status>>
          /\ jobs' = jobs \ {worker.job} /\ recon' \in {recon, Forgotten(worker.job)}
        BY <1>11 DEF Settle
    <2>2. \A n \in Nodes : recon'[n] = recon[n] \/ recon'[n] = NoJob
        BY <2>1 DEF Forgotten, Types
    <2>3. ~Busy'
        BY <2>1 DEF Busy, Looping
    <2>4. \A n \in Nodes : recon'[n] = NoJob \/ recon'[n][2] = "reconstruct"
        BY <2>2, <1>3
    <2> QED BY <2>1, <2>3, <2>4, <1>3 DEF Ids, Injective
<1>12. ASSUME NEW j \in Asked, NEW outcome, Ran(j, outcome)
       PROVE  Ids'
    <2>1. worker.pc = "run" /\ worker.job = j /\ worker' = [worker EXCEPT !.pc = "settle"]
          /\ UNCHANGED <<step, jobs, queue, recon>>
        BY <1>12 DEF Ran
    <2>2. \A i \in Jobs : i # j => status'[i] = status[i]
        BY <1>12 DEF Ran, Types
    <2> QED BY <2>1, <2>2, <1>9
<1>13. CASE Elsewhere
    <2>1. UNCHANGED <<step, status, jobs, recon, queue>> /\ (worker' = worker \/ ~Busy')
        BY <1>13 DEF Elsewhere
    <2> QED BY <2>1, <1>3 DEF Ids, Injective, Busy
<1> QED BY <1>4, <1>5, <1>6, <1>7, <1>8, <1>10, <1>11, <1>12, <1>13, QueueCases

\* No ReconstructJob is live at first.
LEMMA LatestInit == Init => LatestIsLive
BY DEF Init, LatestIsLive

\* Every step keeps the reconstruction to be carried out where enqueue finds it.
LEMMA LatestStep ==
    ASSUME Types, Types', Ids, LatestIsLive, [Next]_vars
    PROVE  LatestIsLive'
<1>0. script' = script /\ (\A j \in Asked : Node(j[1]) \in Nodes) /\ jobs \subseteq Asked /\ jobs \subseteq Jobs
      /\ \A f : Node(f)' = Node(f)
    BY QueueCases, AskedTyped, NamedJobs DEF Types, Node
<1>1. \A j \in jobs : j[2] = "reconstruct" /\ Live(j) => recon[Node(j[1])] = j
    BY DEF LatestIsLive
<1>2. ASSUME jobs' \subseteq jobs,
             \A j \in jobs' : j[2] = "reconstruct" /\ status'[j] \in {"queued", "running"}
                                => status[j] \in {"queued", "running"}
                                   /\ recon'[Node(j[1])] = recon[Node(j[1])]
      PROVE  LatestIsLive'
    BY <1>0, <1>1, <1>2 DEF LatestIsLive, Live
<1>3. ASSUME NEW e \in DOMAIN script, Advanced(e)
      PROVE  LatestIsLive'
    BY <1>2, <1>3 DEF Advanced
<1>4. ASSUME NEW e \in DOMAIN script, Enqueue(e)
      PROVE  LatestIsLive'
    <2> DEFINE j == <<e, KindAt(step[e])>>
               n == Node(e)
    <2>1. jobs' = jobs \cup {j} /\ j[1] = e /\ j \in Jobs /\ n \in Nodes
        <3>1. step[e] \in 1 .. 6 /\ e \in Edits /\ jobs' = jobs \cup {j} /\ n \in Nodes
            BY <1>4, ScriptTyped DEF Enqueue, Types, Node
        <3> QED BY <3>1, KindTyped, JobsAre
    <2>2. CASE j[2] # "reconstruct"
        <3>1. UNCHANGED <<status, recon>>
            BY <1>4, <2>2 DEF Enqueue
        <3> HIDE DEF j, n
        <3> QED BY <2>1, <2>2, <3>1, <1>0, <1>1 DEF LatestIsLive, Live
    <2>3. CASE j[2] = "reconstruct"
        <3>1. status' = Replaced(n) /\ recon' = [recon EXCEPT ![n] = j]
            BY <1>4, <2>3 DEF Enqueue
        <3> HIDE DEF j, n
        <3>2. recon'[n] = j /\ \A m \in Nodes : m # n => recon'[m] = recon[m]
            BY <2>1, <3>1 DEF Types
        <3>3. \A i \in jobs : status'[i] \in {"queued", "running"} =>
                status[i] \in {"queued", "running"} /\ recon[n] # i
            <4> TAKE i \in jobs
            <4> HAVE status'[i] \in {"queued", "running"}
            <4>1. i \in Jobs /\ i # NoJob
                BY <1>0, NobodyAssumption
            <4>2. recon[n] = NoJob \/ recon[n] \in Jobs
                BY NamedJobs, <2>1
            <4> QED BY <3>1, <4>1, <4>2 DEF Replaced, Cancelled, Types
        <3>4. \A i \in jobs : i[2] = "reconstruct" /\ status'[i] \in {"queued", "running"}
                                => Node(i[1]) # n /\ recon'[Node(i[1])] = i
            BY <1>0, <1>1, <3>2, <3>3 DEF Live
        <3>5. Node(j[1]) = n
            BY <2>1 DEF n
        <3> QED BY <1>0, <2>1, <3>2, <3>4, <3>5 DEF LatestIsLive, Live
    <2> QED BY <2>2, <2>3
<1>5. ASSUME NEW e \in DOMAIN script, Put(e)
      PROVE  LatestIsLive'
    BY <1>2, <1>5 DEF Put
<1>6. CASE ResetQueue
    BY <1>6 DEF ResetQueue, LatestIsLive
<1>7. CASE Take
    <2> DEFINE h == Head(queue)
    <2>1. queue # << >> /\ UNCHANGED <<jobs, recon>>
          /\ (UNCHANGED status \/ (h \in jobs /\ status[h] # "cancelled" /\ status' = [status EXCEPT ![h] = "running"]))
        BY <1>7 DEF Take
    <2>2. h \in Range(queue)
        BY <2>1, NamedJobs, RangeTail
    <2> HIDE DEF h
    <2>3. h \in Jobs /\ (status[h] = "queued" \/ status[h] = "cancelled")
        BY <2>2, NamedJobs DEF Ids
    <2>4. \A j \in jobs : status'[j] \in {"queued", "running"} => status[j] \in {"queued", "running"}
        BY <1>0, <2>1, <2>3 DEF Types
    <2> QED BY <2>1, <2>4, <1>2
<1>8. CASE Timeout
    <2>1. UNCHANGED <<jobs, recon>> /\ status' = Cancelled(status, worker.job) /\ worker.job \in Jobs
        BY <1>8, NamedJobs DEF Timeout, Busy
    <2>2. \A j \in jobs : status'[j] \in {"queued", "running"} => status[j] \in {"queued", "running"}
        BY <1>0, <2>1 DEF Cancelled, Types
    <2> QED BY <2>1, <2>2, <1>2
<1>9. CASE Settle
    <2>1. UNCHANGED status /\ jobs' = jobs \ {worker.job}
          /\ (recon' = recon \/ (worker.job[2] = "reconstruct" /\ worker.job \in jobs
                                 /\ recon' = Forgotten(worker.job)))
        BY <1>9 DEF Settle
    <2>2. ASSUME NEW j \in jobs', j[2] = "reconstruct", Live(j)
          PROVE  recon'[Node(j[1])] = recon[Node(j[1])]
        <3>1. j # worker.job /\ recon[Node(j[1])] = j /\ Node(j[1]) \in Nodes
            BY <2>1, <2>2, <1>0, <1>1
        <3> QED BY <2>1, <3>1 DEF Forgotten, Types
    <2> QED BY <2>1, <2>2, <1>2 DEF Live
<1>10. ASSUME NEW j \in Asked, NEW outcome \in {"done", "cancelled", "failed"}, Ran(j, outcome)
       PROVE  LatestIsLive'
    <2>1. UNCHANGED <<jobs, recon>> /\ j \in Jobs
        BY <1>10, AskedTyped DEF Ran, Types
    <2>2. \A i \in jobs : status'[i] \in {"queued", "running"} => status[i] \in {"queued", "running"}
        BY <1>0, <1>10, <2>1 DEF Ran, Types
    <2> QED BY <2>1, <2>2, <1>2
<1>11. CASE Elsewhere
    BY <1>11, <1>2 DEF Elsewhere
<1> QED BY <1>3, <1>4, <1>5, <1>6, <1>7, <1>8, <1>9, <1>10, <1>11, QueueCases

\* One live reconstruction of each node: the one enqueue would cancel.
LEMMA LatestIsOne == Types /\ LatestIsLive => OneLiveReconstruct
<1> SUFFICES ASSUME Types, LatestIsLive, NEW n \in Nodes
             PROVE  Cardinality({j \in jobs : /\ j[2] = "reconstruct" /\ Node(j[1]) = n
                                              /\ status[j] \in {"queued", "running"}}) <= 1
    BY DEF OneLiveReconstruct
<1> DEFINE L == {j \in jobs : /\ j[2] = "reconstruct" /\ Node(j[1]) = n
                              /\ status[j] \in {"queued", "running"}}
<1>1. L \subseteq {recon[n]}
    BY DEF LatestIsLive, Live
<1> HIDE DEF L
<1>2. IsFiniteSet({recon[n]}) /\ Cardinality({recon[n]}) = 1
    BY FS_Singleton
<1>3. Cardinality(L) <= 1
    BY <1>1, <1>2, FS_Subset
<1> QED BY <1>3 DEF L

\* The requests between the two halves of an enqueue are finitely many.
LEMMA InFlightFinite ==
    ASSUME Types
    PROVE  IsFiniteSet(InFlight) /\ Cardinality(InFlight) \in Nat /\ (InFlight # {} => Cardinality(InFlight) > 0)
<1>1. InFlight \subseteq DOMAIN script
    BY DEF InFlight, Types
<1>2. IsFiniteSet(InFlight)
    BY <1>1, ScriptTyped, FS_Subset DEF Types
<1>3. Cardinality(InFlight) \in Nat /\ (Cardinality(InFlight) = 0 <=> InFlight = {})
    BY <1>2, FS_CardinalityType, FS_EmptySet
<1> QED BY <1>2, <1>3

\* Jobs that run: one, or none.
Serving == IF Busy THEN 1 ELSE 0

\* The count agrees at first.
LEMMA CountsInit == Init => CountsAgree
<1> SUFFICES ASSUME Init
             PROVE  CountsAgree
    OBVIOUS
<1>1. InFlight = {} /\ ~Busy /\ queue = << >> /\ pending = 0 /\ jobs = {} /\ completed = FALSE
    BY DEF Init, InFlight, Busy, Asleep
<1>2. Cardinality(InFlight) = 0 /\ Len(queue) = 0
    BY <1>1, FS_EmptySet, EmptySeq
<1> QED BY <1>1, <1>2 DEF CountsAgree

\* Every step keeps the count.
LEMMA CountsStep ==
    ASSUME Types, Types', Ids, Ids', CountsAgree, [Next]_vars
    PROVE  CountsAgree'
<1> DEFINE C == Cardinality(InFlight)
           Waits(j) == j \in Range(queue) \/ step[j[1]] = 2 * Slot(j) \/ (Busy /\ worker.job = j)
<1>0. /\ Len(queue) \in Nat /\ C \in Nat /\ pending \in Int /\ Serving \in {0, 1}
      /\ leftover \in BOOLEAN /\ completed \in BOOLEAN /\ queue \in Seq(Jobs)
      /\ IsFiniteSet(InFlight) /\ jobs \subseteq Jobs /\ step \in [Edits -> 0 .. 7]
      /\ DOMAIN script \subseteq Edits /\ step' \in [Edits -> 0 .. 7] /\ script' = script
    BY InFlightFinite, NamedJobs, ScriptTyped, QueueCases DEF Types, Serving
<1>1. ~leftover => pending = Len(queue) + C + Serving
    BY DEF CountsAgree, Serving
<1>2. completed /\ ~leftover => pending = 0
    BY DEF CountsAgree
<1>3. \A j \in jobs : Live(j) => Waits(j)
    BY DEF CountsAgree
<1>5. ASSUME NEW e \in DOMAIN script, Advanced(e)
      PROVE  CountsAgree'
    <2>1. UNCHANGED <<status, jobs, recon, queue, pending, completed, worker, leftover>> /\ step[e] = 0
          /\ step' \in {[step EXCEPT ![e] = 1], [step EXCEPT ![e] = 7]}
        BY <1>5 DEF Advanced
    <2>2. \A f \in Edits : step'[f] \in {2, 4, 6} <=> step[f] \in {2, 4, 6}
        BY <2>1, <1>0
    <2>3. InFlight' = InFlight
        BY <2>2 DEF InFlight
    <2>4. \A j \in jobs : step[j[1]] = 2 * Slot(j) => step'[j[1]] = 2 * Slot(j)
        <3> TAKE j \in jobs
        <3>1. j[1] \in Edits /\ Slot(j) \in {1, 2, 3}
            BY <1>0, JobTyped
        <3> QED BY <2>1, <3>1, <1>0
    <2> HIDE DEF C
    <2> QED BY <2>1, <2>3, <2>4, <1>1, <1>2, <1>3 DEF CountsAgree, Serving, Busy, Live, C
<1>6. ASSUME NEW e \in DOMAIN script, Enqueue(e)
      PROVE  CountsAgree'
    <2> DEFINE j == <<e, KindAt(step[e])>>
    <2>1. step[e] \in {1, 3, 5} /\ step' = [step EXCEPT ![e] = @ + 1] /\ jobs' = jobs \cup {j}
          /\ pending' = pending + 1 /\ completed' = FALSE /\ UNCHANGED <<queue, worker, leftover>>
        BY <1>6 DEF Enqueue, Counted, History
    <2>2. InFlight' = InFlight \cup {e} /\ e \notin InFlight
        BY <2>1, <1>0 DEF InFlight
    <2>3. Cardinality(InFlight') = C + 1
        BY <2>2, <1>0, FS_AddElement
    <2>4. j[1] = e /\ step'[e] = 2 * Slot(j)
        <3>1. step[e] \in 1 .. 6 /\ e \in Edits
            BY <2>1, <1>0
        <3> QED BY <2>1, <3>1, <1>0, SlotIs
    <2>5. \A i \in jobs : status'[i] \in {"queued", "running"} => Live(i)
        <3>1. status' = status \/ status' = Replaced(Node(e))
            BY <1>6 DEF Enqueue
        <3>2. Node(e) \in Nodes
            BY ScriptTyped DEF Types, Node
        <3>3. recon[Node(e)] # NoJob => recon[Node(e)] \in Jobs
            BY <3>2, NamedJobs
        <3> QED BY <3>1, <3>3, <1>0 DEF Replaced, Cancelled, Live, Types
    <2>6. \A i \in jobs : step[i[1]] = 2 * Slot(i) => step'[i[1]] = 2 * Slot(i)
        <3> TAKE i \in jobs
        <3>1. i[1] \in Edits /\ Slot(i) \in {1, 2, 3} /\ e \in Edits
            BY <1>0, JobTyped
        <3>2. step[i[1]] = 2 * Slot(i) => i[1] # e
            BY <2>1, <3>1
        <3> QED BY <2>1, <3>1, <3>2, <1>0
    <2> HIDE DEF j, C
    <2> QED BY <2>1, <2>3, <2>4, <2>5, <2>6, <1>0, <1>1, <1>3 DEF CountsAgree, Serving, Busy, Live
<1>7. ASSUME NEW e \in DOMAIN script, Put(e)
      PROVE  CountsAgree'
    <2> DEFINE j == <<e, KindAt(step[e])>>
    <2>1. step[e] \in {2, 4, 6} /\ step' = [step EXCEPT ![e] = @ + 1] /\ queue' = Append(queue, j)
          /\ UNCHANGED <<status, jobs, pending, completed, worker, leftover>>
        BY <1>7 DEF Put, History
    <2>2. InFlight' = InFlight \ {e} /\ e \in InFlight
        BY <2>1, <1>0 DEF InFlight
    <2>3. Cardinality(InFlight') = C - 1
        BY <2>2, <1>0, FS_RemoveElement
    <2>4. j[1] = e /\ j \in Jobs /\ step[e] = 2 * Slot(j)
        <3>1. step[e] \in 1 .. 6 /\ e \in Edits
            BY <2>1, <1>0
        <3> QED BY <2>1, <3>1, <1>0, SlotIs, KindTyped, JobsAre
    <2>5. Len(queue') = Len(queue) + 1 /\ Range(queue') = Range(queue) \cup {j}
        <3> HIDE DEF j
        <3> QED BY <2>1, <2>4, <1>0, AppendProperties, RangeAppend
    <2>6. \A i \in jobs : step[i[1]] = 2 * Slot(i) => step'[i[1]] = 2 * Slot(i) \/ i = j
        <3> TAKE i \in jobs
        <3>1. i[1] \in Edits /\ Slot(i) \in {1, 2, 3} /\ e \in Edits /\ i = <<i[1], i[2]>>
              /\ i[2] \in {"delete", "reconstruct", "commit"}
            BY <1>0, JobTyped
        <3>2. CASE i[1] # e
            BY <3>1, <3>2, <2>1, <1>0
        <3>3. CASE i[1] = e
            <4> HAVE step[i[1]] = 2 * Slot(i)
            <4>1. step[e] \in 1 .. 6 /\ j[2] = KindAt(step[e]) /\ 2 * Slot(i) = step[e]
                BY <2>1, <3>3
            <4>2. i[2] = KindAt(step[e])
                BY <4>1, <3>1, KindTyped DEF Slot
            <4> QED BY <3>1, <3>3, <4>2
        <3> QED BY <3>2, <3>3
    <2> HIDE DEF j, C
    <2>7. ~leftover' => pending' = Len(queue') + Cardinality(InFlight') + Serving'
        BY <2>1, <2>3, <2>5, <1>0, <1>1 DEF Serving, Busy
    <2>8. \A i \in jobs' : Live(i)' => Waits(i)'
        BY <2>1, <2>5, <2>6, <1>3 DEF Busy, Live
    <2> QED BY <2>1, <2>7, <2>8, <1>2 DEF CountsAgree, Serving
<1>8. CASE ResetQueue
    <2>1. jobs' = {} /\ completed' = FALSE /\ pending' = 0 /\ UNCHANGED <<step, queue, worker>>
          /\ leftover' = (leftover \/ queue # << >> \/ \E e \in Edits : step[e] \in {2, 4, 6})
          /\ worker.pc \in {"absent", "dead"}
        BY <1>8 DEF ResetQueue
    <2>2. ~leftover' => queue = << >> /\ InFlight = {}
        BY <2>1 DEF InFlight
    <2>3. ~leftover' => Len(queue') = 0 /\ Cardinality(InFlight') = 0 /\ Serving' = 0
        <3>1. InFlight' = InFlight /\ ~Busy'
            BY <2>1 DEF InFlight, Busy
        <3> QED BY <2>1, <2>2, <3>1, FS_EmptySet, EmptySeq DEF Serving
    <2> QED BY <2>1, <2>3 DEF CountsAgree, Serving
<1>9. CASE Take
    <2> DEFINE h == Head(queue)
    <2>1. queue # << >> /\ queue' = Tail(queue) /\ UNCHANGED <<step, jobs, completed, leftover>> /\ ~Busy
        BY <1>9 DEF Take, History, Busy
    <2>2. \/ /\ h \in jobs /\ status' = [status EXCEPT ![h] = "running"] /\ UNCHANGED pending
             /\ worker' = [pc |-> "run", job |-> h]
          \/ /\ h \notin jobs \/ status[h] = "cancelled"
             /\ pending' = pending - 1 /\ UNCHANGED <<status, worker>>
        BY <1>9 DEF Take, Counting
    <2>3. h \in Range(queue) /\ Range(queue) = Range(queue') \cup {h} /\ Len(queue') = Len(queue) - 1
          /\ Len(queue) >= 1
        BY <2>1, <1>0, RangeTail, EmptySeq
    <2> HIDE DEF h
    <2>4. h \in Jobs /\ (status[h] = "queued" \/ status[h] = "cancelled")
        BY <2>3, NamedJobs DEF Ids
    <2>5. InFlight' = InFlight
        BY <2>1 DEF InFlight
    <2> HIDE DEF C
    <2>6. ~leftover' => pending' = Len(queue') + Cardinality(InFlight') + Serving'
        BY <2>1, <2>2, <2>3, <2>5, <1>0, <1>1 DEF Serving, Busy, C
    <2>7. leftover \/ ~completed
        BY <2>3, <1>0, <1>1, <1>2
    <2>8. \A i \in jobs : Live(i)' => Waits(i)'
        <3> TAKE i \in jobs
        <3> HAVE Live(i)'
        <3>1. CASE i = h
            BY <3>1, <2>1, <2>2, <2>4 DEF Live, Busy
        <3>2. CASE i # h
            <4>1. Live(i)
                BY <3>2, <2>2, <2>4, <1>0 DEF Live, Types
            <4>2. i \in Range(queue) \/ step[i[1]] = 2 * Slot(i)
                BY <4>1, <1>3, <2>1
            <4> QED BY <3>2, <4>2, <2>1, <2>3
        <3> QED BY <3>1, <3>2
    <2> QED BY <2>1, <2>6, <2>7, <2>8 DEF CountsAgree, Serving
<1>10. ASSUME UNCHANGED <<step, jobs, queue, pending, leftover>>, worker.pc = "run",
              worker' = worker \/ worker' = [worker EXCEPT !.pc = "settle"],
              completed' = completed,
              \A i \in jobs : status'[i] \in {"queued", "running"} => Live(i)
       PROVE  CountsAgree'
    <2>1. Busy /\ Busy' /\ worker'.job = worker.job
        BY <1>10 DEF Busy, Types
    <2>2. InFlight' = InFlight
        BY <1>10 DEF InFlight
    <2> HIDE DEF C
    <2>3. ~leftover' => pending' = Len(queue') + Cardinality(InFlight') + Serving'
        BY <1>10, <2>1, <2>2, <1>1 DEF Serving, C
    <2>4. \A i \in jobs' : Live(i)' => Waits(i)'
        BY <1>10, <2>1, <1>3 DEF Live
    <2> QED BY <1>10, <2>3, <2>4, <1>2 DEF CountsAgree, Serving
<1>11. CASE Timeout
    <2>1. UNCHANGED <<step, jobs, queue, pending, leftover, worker, completed>> /\ worker.pc = "run"
          /\ status' = Cancelled(status, worker.job) /\ worker.job \in Jobs
        BY <1>11, NamedJobs DEF Timeout, History, Busy
    <2>2. \A i \in jobs : status'[i] \in {"queued", "running"} => Live(i)
        BY <2>1, <1>0 DEF Cancelled, Live, Types
    <2> QED BY <2>1, <2>2, <1>10
<1>12. CASE Settle
    <2>1. pending' = pending - 1 /\ jobs' = jobs \ {worker.job} /\ worker.pc = "settle" /\ worker' = Looping
          /\ UNCHANGED <<step, status, queue, completed, leftover>>
        BY <1>12 DEF Settle, History
    <2>2. Busy /\ ~Busy' /\ InFlight' = InFlight
        BY <2>1 DEF Busy, Looping, InFlight
    <2> HIDE DEF C
    <2>3. ~leftover' => pending' = Len(queue') + Cardinality(InFlight') + Serving'
        BY <2>1, <2>2, <1>0, <1>1 DEF Serving, C
    <2>4. leftover \/ ~completed
        BY <2>2, <1>0, <1>1, <1>2 DEF Serving
    <2>5. \A i \in jobs' : Live(i)' => Waits(i)'
        BY <2>1, <2>2, <1>3 DEF Live
    <2> QED BY <2>1, <2>3, <2>4, <2>5 DEF CountsAgree, Serving
<1>13. ASSUME NEW j \in Asked, NEW outcome \in {"done", "cancelled", "failed"}, Ran(j, outcome)
       PROVE  CountsAgree'
    <2>1. UNCHANGED <<step, jobs, queue, pending, leftover, completed>> /\ worker.pc = "run"
          /\ worker' = [worker EXCEPT !.pc = "settle"]
        BY <1>13 DEF Ran, History
    <2>2. \A i \in jobs : status'[i] \in {"queued", "running"} => Live(i)
        BY <1>13, <1>0 DEF Ran, Live, Types
    <2> QED BY <2>1, <2>2, <1>10
<1>14. CASE Elsewhere
    <2>1. UNCHANGED <<step, status, jobs, recon, queue, pending, leftover>>
          /\ (worker' = worker \/ (~Busy /\ ~Busy')) /\ completed' \in {completed, FALSE, Complete}
        BY <1>14 DEF Elsewhere
    <2>2. InFlight' = InFlight /\ Serving' = Serving
        BY <2>1 DEF InFlight, Serving, Busy
    <2>3. completed' /\ ~leftover' => pending' = 0
        BY <2>1, <1>2 DEF Complete
    <2> HIDE DEF C
    <2>4. \A i \in jobs' : Live(i)' => Waits(i)'
        BY <2>1, <1>3 DEF Live, Busy
    <2> QED BY <2>1, <2>2, <2>3, <2>4, <1>1 DEF CountsAgree, Serving, C
<1> QED BY <1>5, <1>6, <1>7, <1>8, <1>9, <1>11, <1>12, <1>13, <1>14, QueueCases

\* The part of the inductive invariant that is about the queue.
QueueInv == Types /\ Ids /\ LatestIsLive /\ CountsAgree

\* In every state the ids, the jobs, the entries of the reconstructions and the count agree.
THEOREM QueueInvariance == Spec => []QueueInv
<1>1. Init => QueueInv
    BY TypesInit, IdsInit, LatestInit, CountsInit DEF QueueInv
<1>2. QueueInv /\ [Next]_vars => QueueInv'
    <2> SUFFICES ASSUME QueueInv, [Next]_vars
                 PROVE  QueueInv'
        OBVIOUS
    <2>1. Types /\ Ids /\ LatestIsLive /\ CountsAgree
        BY DEF QueueInv
    <2>2. Types'
        BY <2>1, TypesStep
    <2>3. Ids'
        BY <2>1, <2>2, IdsStep
    <2>4. LatestIsLive'
        BY <2>1, <2>2, LatestStep
    <2>5. CountsAgree'
        BY <2>1, <2>2, <2>3, CountsStep
    <2> QED BY <2>2, <2>3, <2>4, <2>5 DEF QueueInv
<1> QED BY <1>1, <1>2, PTL DEF Spec

\* The count is a number of things, so the types of the module follow.
LEMMA TypesAreOK == QueueInv => TypeOK
<1> SUFFICES ASSUME QueueInv
             PROVE  TypeOK
    OBVIOUS
<1> USE DEF QueueInv
<1>1. step \in [Edits -> 0 .. 7] /\ completed \in BOOLEAN /\ trouble \in 0 .. MaxTrouble
      /\ status \in [Jobs -> {"queued", "running", "done", "cancelled", "failed"}]
      /\ pending \in Int /\ control \in {"off", "on", "set", "taken"}
    BY DEF Types
<1>2. object \in [Edits -> [state : {"_", "new", "changed", "deleted"}, dirty : BOOLEAN,
                            words : Texts \cup {Blank}]]
    BY DEF Types, Models
<1>3. jobs \subseteq Jobs /\ queue \in Seq(Jobs)
    BY NamedJobs
<1>4. recon \in [Nodes -> Jobs \cup {NoJob}] /\ worker.job \in Jobs \cup {NoJob} /\ worker.pc \in Pcs
    BY AskedTyped DEF Types
<1>5. uow \in [Lists -> Seq(Edits)]
    <2>1. \A l \in Lists : uow[l] \in Seq(Edits)
        BY ScriptTyped, SeqMonotonic DEF Types
    <2> QED BY <2>1 DEF Types
<1>6. db \in [Nodes -> Texts \cup {Gone, Blank}]
    BY DEF Types, Graphs, Values
<1>7. leftover \/ pending >= 0
    <2>1. Len(queue) \in Nat /\ Cardinality(InFlight) \in Nat /\ Serving \in {0, 1}
        BY <1>3, InFlightFinite DEF Serving
    <2>2. ~leftover => pending = Len(queue) + Cardinality(InFlight) + Serving
        BY DEF CountsAgree, Serving
    <2> QED BY <2>1, <2>2
<1> QED BY <1>1, <1>2, <1>3, <1>4, <1>5, <1>6, <1>7 DEF TypeOK, Pcs

\* Where the count is zero nobody holds, waits for or is about to queue a job.
LEMMA CompletedIsDone == QueueInv => JoinMeansDone
<1> SUFFICES ASSUME QueueInv
             PROVE  JoinMeansDone
    OBVIOUS
<1>1. TypeOK
    BY TypesAreOK
<1>2. ASSUME completed, ~leftover, NEW j \in jobs, Live(j)
      PROVE  FALSE
    <2>1. pending = 0 /\ pending = Len(queue) + Cardinality(InFlight) + Serving
        BY <1>2 DEF QueueInv, CountsAgree, Serving
    <2>2. Types /\ queue \in Seq(Jobs) /\ j \in Jobs
        BY NamedJobs DEF QueueInv
    <2>3. Len(queue) \in Nat /\ Cardinality(InFlight) \in Nat /\ Serving \in {0, 1}
          /\ (InFlight # {} => Cardinality(InFlight) > 0)
        BY <2>2, InFlightFinite DEF Serving
    <2>4. Len(queue) = 0 /\ InFlight = {} /\ ~Busy
        BY <2>1, <2>3 DEF Serving
    <2>5. Range(queue) = {}
        BY <2>2, <2>4, EmptySeq DEF Range
    <2>6. step[j[1]] = 2 * Slot(j)
        BY <1>2, <2>4, <2>5 DEF QueueInv, CountsAgree
    <2>7. j[1] \in InFlight
        BY <2>2, <2>6, JobTyped DEF InFlight
    <2> QED BY <2>4, <2>7
<1> QED BY <1>1, <1>2 DEF JoinMeansDone, Live

\* The variables of the job queue keep their types, its count at zero or above until a shutdown
\* leaves ids in the queue, and once completed is set no job of _jobs waits or runs (join).
THEOREM JoinWaitsForAll == Spec => []JoinMeansDone
BY QueueInvariance, CompletedIsDone, PTL

\* enqueue leaves at most one ReconstructJob of a node to be carried out, through any number of
\* edits, cancellations, timeouts, shutdowns and restarts.
THEOREM OneReconstruct == Spec => []OneLiveReconstruct
BY QueueInvariance, LatestIsOne, PTL DEF QueueInv
---------------------------------------------------------------------------
(* The models behind the ids. *)

\* The jobs that change a model and write nothing.
Redo(e) == RunDelete(e) \/ RunReconstruct(e)

\* A step that leaves the edits and the graph alone.
Aside ==
    /\ UNCHANGED <<step, object, queue, uow, db, last, overtaken>>
    /\ worker' = worker \/ (worker.pc # "run" /\ ~Busy')
    /\ jobs' = jobs \/ (Busy /\ jobs' = jobs \ {worker.job})

\* A step as the edits see it.
LEMMA PipeCases ==
    ASSUME Types, [Next]_vars
    PROVE  /\ script' = script
           /\ \/ \E e \in DOMAIN script : Request(e) \/ Refuse(e) \/ Delete(e) \/ Enqueue(e) \/ Put(e)
              \/ \E e \in DOMAIN script : Redo(e) \/ RunCommit(e)
              \/ ResetQueue \/ Take \/ Flush \/ Aside
<1>1. script' = script
    BY QueueCases
<1>2. \A e \in Edits : Request(e) \/ Refuse(e) \/ Delete(e) \/ Enqueue(e) \/ Put(e) => e \in DOMAIN script
    BY RequestOpens DEF Refuse, Delete, Enqueue, Put, Turn, Types
<1>3. \A e \in Edits : Redo(e) \/ RunCommit(e) => e \in DOMAIN script
    <2>1. \A e \in Edits : Redo(e) \/ RunCommit(e) => worker.pc = "run" /\ worker.job[1] = e
        BY DEF Redo, RunDelete, RunReconstruct, RunCommit, Ran
    <2> QED BY <2>1, NamedJobs DEF Busy
<1>4. CASE Start
    BY <1>4 DEF Start, Types, History, Busy, Looping, Aside
<1>5. CASE SetShutdown \/ TakeThread \/ Timeout
    BY <1>5 DEF SetShutdown, TakeThread, Timeout, History, Queued, Aside
<1>6. CASE Exit
    BY <1>6 DEF Exit, History, Queued, Busy, Asleep, Aside
<1>7. CASE Empty
    <2>1. worker.pc = "loop" /\ worker'.pc = "idle"
          /\ UNCHANGED <<step, object, jobs, queue, uow, db, last, overtaken>>
        BY <1>7 DEF Empty, Looping, History
    <2>2. worker.pc # "run" /\ ~Busy'
        BY <2>1 DEF Busy
    <2>3. Aside
        BY <2>1, <2>2 DEF Aside
    <2> QED BY <1>1, <2>3
<1>8. CASE Settle
    BY <1>8 DEF Settle, History, Busy, Looping, Aside
<1>9. CASE UNCHANGED vars
    BY <1>9 DEF vars, Aside
<1> QED BY <1>1, <1>2, <1>3, <1>4, <1>5, <1>6, <1>7, <1>8, <1>9, StepCases DEF Redo

\* A model that is registered keeps its state; it is made clean by its reconstruction only.
LEMMA ModelFrame ==
    ASSUME Types, Types', Ids, ModelsAgree, [Next]_vars
    PROVE  \A f \in Edits :
             /\ step[f] # 0 =>
                  /\ step'[f] # 0 /\ object'[f].state = object[f].state
                  /\ ~object'[f].dirty => \/ ~object[f].dirty /\ object'[f].words = object[f].words
                                          \/ object'[f].words = script[f].text
             /\ step'[f] = 0 => object'[f] = object[f]
<1> DEFINE Kept(f) == /\ object'[f].state = object[f].state
                      /\ ~object'[f].dirty => \/ ~object[f].dirty /\ object'[f].words = object[f].words
                                              \/ object'[f].words = script[f].text
<1>0. step \in [Edits -> 0 .. 7] /\ step' \in [Edits -> 0 .. 7] /\ DOMAIN script \subseteq Edits
      /\ object \in [Edits -> Models] /\ object' \in [Edits -> Models]
    BY ScriptTyped DEF Types
<1>1. \A f \in Edits : step[f] # 0 => step'[f] # 0
    <2>1. \A f \in Edits : <<f, "commit">> \in Jobs
        BY JobsAre
    <2>2. \A f \in Edits : step[f] <= step'[f]
        BY <2>1, StepsGrow
    <2> QED BY <2>2, <1>0
<1>2. SUFFICES \A f \in Edits : (step[f] # 0 => Kept(f)) /\ (step'[f] = 0 => object'[f] = object[f])
    BY <1>1
<1>3. ASSUME NEW e \in DOMAIN script, Request(e)
      PROVE  \A f \in Edits : (step[f] # 0 => Kept(f)) /\ (step'[f] = 0 => object'[f] = object[f])
    <2>1. PICK o \in Models : object' = [object EXCEPT ![e] = o]
        BY <1>0, <1>3, RequestOpens
    <2>2. step[e] = 0 /\ step' = [step EXCEPT ![e] = 1]
        BY <1>0, <1>3, RequestOpens
    <2> QED BY <2>1, <2>2, <1>0
<1>4. ASSUME NEW e \in DOMAIN script, Refuse(e) \/ Enqueue(e) \/ Put(e)
      PROVE  \A f \in Edits : (step[f] # 0 => Kept(f)) /\ (step'[f] = 0 => object'[f] = object[f])
    <2>1. object' = object
        BY <1>4 DEF Refuse, Enqueue, Put
    <2> QED BY <2>1
<1>5. ASSUME NEW e \in DOMAIN script, Delete(e)
      PROVE  \A f \in Edits : (step[f] # 0 => Kept(f)) /\ (step'[f] = 0 => object'[f] = object[f])
    <2>1. step[e] = 0 /\ step' = [step EXCEPT ![e] = 7] /\ object' = [object EXCEPT ![e].state = "deleted"]
        BY <1>5 DEF Delete, Turn
    <2> QED BY <2>1, <1>0
<1>6. ASSUME NEW e \in DOMAIN script, Redo(e)
      PROVE  \A f \in Edits : (step[f] # 0 => Kept(f)) /\ (step'[f] = 0 => object'[f] = object[f])
    <2>1. worker.pc = "run" /\ worker.job[1] = e /\ step' = step
        BY <1>6 DEF Redo, RunDelete, RunReconstruct, Ran
    <2>2. step[e] # 0
        BY <2>1, NamedJobs, JobTyped DEF Ids, Busy
    <2>3. \/ object' = object
          \/ object[e].dirty /\ object' = [object EXCEPT ![e].words = Blank]
          \/ object' = [object EXCEPT ![e] = Tokenized(e, @)]
        BY <1>6 DEF Redo, RunDelete, RunReconstruct
    <2>4. CASE object[e].dirty /\ object' = [object EXCEPT ![e].words = Blank]
        BY <2>1, <2>2, <2>4, <1>0 DEF Models
    <2>5. CASE object' = [object EXCEPT ![e] = Tokenized(e, @)]
        BY <2>1, <2>2, <2>5, <1>0 DEF Tokenized
    <2> QED BY <2>3, <2>4, <2>5
<1>7. CASE Flush
    <2>1. object' = Rebuilt(object) /\ step' = step
        BY <1>7 DEF Flush
    <2>2. \A f \in Range(uow.new) \cup Range(uow.changed) : step[f] # 0
        BY DEF ModelsAgree, Edited, Range, Lists
    <2>3. \A f \in Edits : \/ object'[f] = object[f]
                           \/ step[f] # 0 /\ object'[f] = Tokenized(f, object[f])
        BY <2>1, <2>2 DEF Rebuilt
    <2>4. \A f \in Edits : Tokenized(f, object[f]).state = object[f].state
                           /\ Tokenized(f, object[f]).words = script[f].text
        BY DEF Tokenized
    <2>5. \A f \in Edits : step'[f] = step[f]
        BY <2>1
    <2> QED BY <2>3, <2>4, <2>5
<1>8. ASSUME UNCHANGED object
      PROVE  \A f \in Edits : (step[f] # 0 => Kept(f)) /\ (step'[f] = 0 => object'[f] = object[f])
    BY <1>8
<1>9. ResetQueue \/ Take \/ Aside \/ (\E e \in DOMAIN script : RunCommit(e)) => UNCHANGED object
    BY DEF ResetQueue, Take, Aside, RunCommit
<1> QED BY <1>3, <1>4, <1>5, <1>6, <1>7, <1>8, <1>9, PipeCases

\* The models agree at first.
LEMMA ModelsInit == Init => ModelsAgree
<1> SUFFICES ASSUME Init
             PROVE  ModelsAgree
    OBVIOUS
<1>1. \A e \in Edits : step[e] = 0 /\ object[e] = NoObject /\ ~Edited(e)
    BY DEF Init, Edited
<1>2. \A l \in Lists : uow[l] = << >> /\ DOMAIN uow[l] = {}
    BY EmptySeq DEF Init, NoWork
<1>3. Range(queue) = {} /\ ~Busy
    BY DEF Init, Range, Busy, Asleep
<1> QED BY <1>1, <1>2, <1>3 DEF ModelsAgree

\* A model that is edited stays so.
LEMMA EditedStays ==
    ASSUME Types, Types', Ids, ModelsAgree, [Next]_vars
    PROVE  /\ \A e \in DOMAIN script : Edited(e) => step'[e] # 0 /\ object'[e].state # "_"
           /\ script' = script
<1>1. script' = script
    BY PipeCases
<1>2. \A e \in DOMAIN script : Edited(e) => step'[e] # 0 /\ object'[e].state # "_"
    BY ModelFrame, ScriptTyped DEF Edited, Types
<1> QED BY <1>1, <1>2

\* What register does to the lists.
LEMMA RegisterDoes ==
    ASSUME NEW D, NEW u \in [Lists -> Seq(D)], NEW e \in D, NEW state \in Lists
    PROVE  /\ Register(u, e, state)[state] = Append(u[state], e)
           /\ \A l \in Lists : l # state => Register(u, e, state)[l] = u[l]
BY DEF Register

\* The lists after a step are those before it, with the model of a commit job or of a delete
\* added at the end of one of them, or without its deletions, or empty.
ListsAre(w) ==
    \/ w = uow \/ w = NoWork \/ w = [uow EXCEPT !["deleted"] = << >>]

\* The lists after a step.
LEMMA ListCases ==
    ASSUME Types, Ids, ModelsAgree, [Next]_vars
    PROVE  \/ ListsAre(uow')
           \/ \E e \in DOMAIN script : /\ RunCommit(e) /\ worker.pc = "run" /\ worker.job = <<e, "commit">>
                                       /\ Edited(e) /\ script[e].op # "delete"
                                       /\ uow' = Register(uow, e, StateOf(e))
           \/ \E e \in DOMAIN script : /\ Delete(e) /\ StateOf(e) = "deleted"
                                       /\ uow' = Register(uow, e, "deleted")
<1>1. ASSUME NEW e \in DOMAIN script, Request(e) \/ Refuse(e) \/ Enqueue(e) \/ Put(e) \/ Redo(e)
      PROVE  uow' = uow
    <2>1. CASE Request(e)
        <3>1. e \in Edits
            BY ScriptTyped DEF Types
        <3> QED BY <2>1, <3>1, RequestOpens
    <2> QED BY <1>1, <2>1 DEF Refuse, Enqueue, Put, Redo, RunDelete, RunReconstruct
<1>2. ResetQueue \/ Take \/ Aside => uow' = uow
    BY DEF ResetQueue, Take, Aside
<1>3. CASE Flush
    BY <1>3 DEF Flush, ListsAre
<1>4. ASSUME NEW e \in DOMAIN script, Delete(e)
      PROVE  \/ ListsAre(uow')
             \/ Delete(e) /\ StateOf(e) = "deleted" /\ uow' = Register(uow, e, "deleted")
    BY <1>4 DEF Delete, Turn, StateOf, Commit, ListsAre
<1>5. ASSUME NEW e \in DOMAIN script, RunCommit(e)
      PROVE  \/ ListsAre(uow')
             \/ /\ RunCommit(e) /\ worker.pc = "run" /\ worker.job = <<e, "commit">>
                /\ Edited(e) /\ script[e].op # "delete"
                /\ uow' = Register(uow, e, StateOf(e))
    <2>1. worker = [pc |-> "run", job |-> <<e, "commit">>]
        BY <1>5 DEF RunCommit, Ran
    <2>2. Edited(e) /\ script[e].op # "delete"
        BY <2>1 DEF ModelsAgree, Busy
    <2>3. object[e].state = StateOf(e)
        BY <2>2, ScriptTyped DEF ModelsAgree, Types
    <2>4. uow' = NoWork \/ uow' = Tracking(e)
        BY <1>5 DEF RunCommit, Commit
    <2> QED BY <1>5, <2>1, <2>2, <2>3, <2>4 DEF Tracking, ListsAre
<1> QED BY <1>1, <1>2, <1>3, <1>4, <1>5, PipeCases DEF ListsAre

\* Every step keeps the models as their edits say.
LEMMA ModelsStep ==
    ASSUME Types, Types', Ids, Ids', ModelsAgree, [Next]_vars
    PROVE  ModelsAgree'
<1> DEFINE After(e) == e \in DOMAIN script /\ step'[e] # 0 /\ object'[e].state # "_"
<1>0. script' = script /\ DOMAIN script \subseteq Edits /\ step \in [Edits -> 0 .. 7] /\ script \in Scripts
    BY ScriptTyped, PipeCases DEF Types
<1>1. \A e : Edited(e) => After(e)
    BY EditedStays DEF Edited
<1> HIDE DEF After
<1>2. \A e \in Edits : step'[e] = 0 => step[e] = 0 /\ object'[e] = object[e]
    BY ModelFrame
<1>3. \A e \in Edits : step'[e] = 0 => object'[e] = NoObject
    BY <1>2 DEF ModelsAgree
<1>4. ASSUME NEW e \in Edits, After(e)
      PROVE  /\ object'[e].state = StateOf(e)
             /\ ~object'[e].dirty /\ script[e].op # "delete" => object'[e].words = script[e].text
    <2>0. e \in DOMAIN script /\ object'[e].state # "_"
        BY <1>0, <1>4 DEF Edited, After
    <2>1. CASE step[e] # 0
        <3>1. object'[e].state = object[e].state
              /\ (~object'[e].dirty => \/ ~object[e].dirty /\ object'[e].words = object[e].words
                                      \/ object'[e].words = script[e].text)
            BY <2>1, ModelFrame
        <3>2. Edited(e)
            BY <2>0, <2>1, <3>1 DEF Edited
        <3> QED BY <3>1, <3>2 DEF ModelsAgree
    <2>2. CASE step[e] = 0
        <3>1. object[e] = NoObject
            BY <2>2 DEF ModelsAgree
        <3>0. NoObject.state = "_"
            BY DEF NoObject
        <3>2. object'[e] # object[e] /\ e \in Edits
            BY <2>0, <3>0, <3>1
        <3>3. ASSUME NEW f \in DOMAIN script, Request(f)
              PROVE  /\ object'[e].state = StateOf(e)
                     /\ ~object'[e].dirty /\ script[e].op # "delete" => object'[e].words = script[e].text
            <4>1. PICK o \in Models : /\ object' = [object EXCEPT ![f] = o] /\ o.state = StateOf(f)
                                      /\ ~o.dirty => o.words = script[f].text
                BY <1>0, <3>3, RequestOpens
            <4>2. e = f /\ object'[e] = o
                BY <3>2, <4>1 DEF Types
            <4> QED BY <4>1, <4>2
        <3>4. ASSUME NEW f \in DOMAIN script, Delete(f)
              PROVE  /\ object'[e].state = StateOf(e)
                     /\ ~object'[e].dirty /\ script[e].op # "delete" => object'[e].words = script[e].text
            <4>1. object' = [object EXCEPT ![f].state = "deleted"] /\ script[f].op = "delete"
                BY <3>4 DEF Delete, Turn
            <4>2. e = f /\ object'[e].state = "deleted"
                BY <3>2, <4>1 DEF Types, Models
            <4> QED BY <4>1, <4>2 DEF StateOf
        <3>5. ASSUME NEW f \in DOMAIN script, Redo(f)
              PROVE  FALSE
            <4>1. worker.pc = "run" /\ worker.job[1] = f
                BY <3>5 DEF Redo, RunDelete, RunReconstruct, Ran
            <4>2. step[f] # 0
                BY <4>1 DEF ModelsAgree, Busy, Edited
            <4>3. \A i \in Edits : i # f => object'[i] = object[i]
                BY <3>5 DEF Redo, RunDelete, RunReconstruct, Types
            <4> QED BY <4>2, <4>3, <2>2, <3>2
        <3>6. CASE Flush
            <4>1. \A f \in Range(uow.new) \cup Range(uow.changed) : step[f] # 0
                BY DEF ModelsAgree, Edited, Range, Lists
            <4>2. object'[e] = object[e]
                BY <3>6, <4>1, <2>2, <3>2 DEF Flush, Rebuilt
            <4> QED BY <4>2, <3>2
        <3>7. ~UNCHANGED object
            BY <3>2
        <3>8. \A f \in DOMAIN script : Refuse(f) \/ Enqueue(f) \/ Put(f) \/ RunCommit(f) => UNCHANGED object
            BY DEF Refuse, Enqueue, Put, RunCommit
        <3>9. ResetQueue \/ Take \/ Aside => UNCHANGED object
            BY DEF ResetQueue, Take, Aside
        <3> QED BY <3>3, <3>4, <3>5, <3>6, <3>7, <3>8, <3>9, PipeCases
    <2> QED BY <2>1, <2>2
<1>5. \A l \in Lists : \A i \in DOMAIN uow'[l] : After(uow'[l][i]) /\ StateOf(uow'[l][i]) = l
    <2>0. \A l \in Lists : uow[l] \in Seq(DOMAIN script)
        BY DEF Types
    <2>10. \A l \in Lists : \A i \in DOMAIN uow[l] : uow[l][i] \in DOMAIN script
        BY <2>0
    <2>1. \A l \in Lists : \A i \in DOMAIN uow[l] : After(uow[l][i]) /\ StateOf(uow[l][i]) = l
        BY <1>1, <2>10 DEF ModelsAgree
    <2>2. CASE ListsAre(uow')
        <3>1. \A l \in Lists : uow'[l] = uow[l] \/ uow'[l] = << >>
            BY <2>2 DEF ListsAre, NoWork, Types
        <3>2. DOMAIN << >> = {}
            OBVIOUS
        <3> QED BY <2>1, <3>1, <3>2
    <2>3. ASSUME NEW e \in DOMAIN script, NEW state \in Lists, StateOf(e) = state, After(e),
                 uow' = Register(uow, e, state)
          PROVE  \A l \in Lists : \A i \in DOMAIN uow'[l] : After(uow'[l][i]) /\ StateOf(uow'[l][i]) = l
        <3>1. uow'[state] = Append(uow[state], e) /\ \A l \in Lists : l # state => uow'[l] = uow[l]
            <4>1. uow \in [Lists -> Seq(DOMAIN script)] /\ e \in DOMAIN script /\ state \in Lists
                BY DEF Types
            <4> HIDE DEF Types
            <4> QED BY <2>3, <4>1, RegisterDoes
        <3>2. \A i \in DOMAIN uow'[state] :
                \/ i \in DOMAIN uow[state] /\ uow'[state][i] = uow[state][i]
                \/ uow'[state][i] = e
            <4>1. uow[state] \in Seq(DOMAIN script)
                BY <2>0
            <4> QED BY <3>1, <4>1, AppendProperties
        <3>3. \A i \in DOMAIN uow'[state] : After(uow'[state][i]) /\ StateOf(uow'[state][i]) = state
            BY <2>1, <2>3, <3>2
        <3> QED BY <2>1, <3>1, <3>3
    <2>4. ASSUME NEW e \in DOMAIN script, Edited(e), uow' = Register(uow, e, StateOf(e))
          PROVE  \A l \in Lists : \A i \in DOMAIN uow'[l] : After(uow'[l][i]) /\ StateOf(uow'[l][i]) = l
        <3>1. StateOf(e) \in Lists
            BY DEF StateOf, Lists
        <3> QED BY <2>3, <2>4, <3>1, <1>1
    <2>5. ASSUME NEW e \in DOMAIN script, Delete(e), StateOf(e) = "deleted", uow' = Register(uow, e, "deleted")
          PROVE  \A l \in Lists : \A i \in DOMAIN uow'[l] : After(uow'[l][i]) /\ StateOf(uow'[l][i]) = l
        <3>1. step' = [step EXCEPT ![e] = 7] /\ object' = [object EXCEPT ![e].state = "deleted"]
            BY <2>5 DEF Delete
        <3>2. After(e)
            <4>1. object \in [Edits -> Models] /\ e \in Edits /\ step'[e] = 7
                BY <3>1, <1>0 DEF Types
            <4>2. object'[e].state = "deleted"
                BY <3>1, <4>1 DEF Models
            <4> QED BY <4>1, <4>2 DEF After
        <3> QED BY <2>3, <2>5, <3>2 DEF Lists
    <2> QED BY <2>2, <2>4, <2>5, ListCases
<1>6. \A e \in Edits : step'[e] \in 1 .. 6 => After(e) /\ script[e].op # "delete"
    <2> SUFFICES ASSUME NEW e \in Edits, step'[e] \in 1 .. 6
                 PROVE  After(e) /\ script[e].op # "delete"
        OBVIOUS
    <2>1. CASE step[e] \in 1 .. 6
        <3>1. Edited(e) /\ script[e].op # "delete" /\ e \in DOMAIN script
            BY <2>1 DEF ModelsAgree, Edited
        <3> QED BY <3>1, <1>1
    <2>2. CASE step[e] \notin 1 .. 6
        <3>1. step'[e] # step[e]
            BY <2>2
        <3>2. ASSUME NEW f \in DOMAIN script, Request(f)
              PROVE  After(e) /\ script[e].op # "delete"
            <4>1. f \in DOMAIN script /\ step' = [step EXCEPT ![f] = 1] /\ script[f].op # "delete"
                BY <1>0, <3>2, RequestOpens
            <4>2. PICK o \in Models : object' = [object EXCEPT ![f] = o] /\ o.state = StateOf(f)
                BY <1>0, <3>2, RequestOpens
            <4>3. e = f /\ object'[e] = o
                BY <4>1, <4>2, <3>1, <1>0 DEF Types
            <4>4. o.state # "_"
                BY <4>2 DEF StateOf
            <4> QED BY <4>1, <4>3, <4>4, <1>0, <2>2 DEF Edited, After
        <3>3. ASSUME NEW f \in DOMAIN script, Refuse(f) \/ Delete(f)
              PROVE  FALSE
            <4>1. step' = [step EXCEPT ![f] = 7]
                BY <3>3 DEF Refuse, Delete
            <4> QED BY <4>1, <3>1, <1>0
        <3>4. ASSUME NEW f \in DOMAIN script, Enqueue(f) \/ Put(f)
              PROVE  FALSE
            <4>1. step[f] \in 1 .. 6 /\ step' = [step EXCEPT ![f] = @ + 1]
                BY <3>4 DEF Enqueue, Put
            <4> QED BY <4>1, <3>1, <1>0, <2>2
        <3>5. \A f \in DOMAIN script : Redo(f) \/ RunCommit(f) => UNCHANGED step
            BY DEF Redo, RunDelete, RunReconstruct, RunCommit, Ran
        <3>6. ResetQueue \/ Take \/ Flush \/ Aside => UNCHANGED step
            BY DEF ResetQueue, Take, Flush, Aside
        <3> QED BY <3>1, <3>2, <3>3, <3>4, <3>5, <3>6, PipeCases
    <2> QED BY <2>1, <2>2
<1>7. /\ \A j \in Range(queue) : After(j[1]) /\ script[j[1]].op # "delete"
      /\ Busy => After(worker.job[1]) /\ script[worker.job[1]].op # "delete"
    <2>1. (\A j \in Range(queue) : Edited(j[1]) /\ script[j[1]].op # "delete" /\ j[1] \in DOMAIN script)
          /\ (Busy => Edited(worker.job[1]) /\ script[worker.job[1]].op # "delete" /\ worker.job[1] \in DOMAIN script)
        BY DEF ModelsAgree, Edited
    <2> QED BY <1>1, <2>1
<1>8. \A j \in Range(queue') : After(j[1]) /\ script[j[1]].op # "delete"
    <2>1. ASSUME NEW e \in DOMAIN script, Put(e)
          PROVE  \A j \in Range(queue') : After(j[1]) /\ script[j[1]].op # "delete"
        <3> DEFINE j == <<e, KindAt(step[e])>>
        <3>1. queue' = Append(queue, j) /\ step[e] \in 1 .. 6
            BY <2>1 DEF Put
        <3>2. After(e) /\ script[e].op # "delete" /\ j[1] = e
            BY <3>1, <1>0, <1>1 DEF ModelsAgree
        <3>3. j \in Jobs
            BY <3>1, <1>0, KindTyped, JobsAre
        <3> HIDE DEF j
        <3>4. Range(queue') = Range(queue) \cup {j}
            BY <3>1, <3>3, NamedJobs, RangeAppend
        <3> QED BY <1>7, <3>2, <3>4
    <2>2. CASE Take
        <3>1. queue # << >> /\ queue' = Tail(queue)
            BY <2>2 DEF Take
        <3>2. Range(queue') \subseteq Range(queue)
            BY <3>1, NamedJobs, RangeTail
        <3> QED BY <1>7, <3>2
    <2>3. \A e \in DOMAIN script : Request(e) => queue' = queue
        BY RequestOpens, <1>0 DEF Queued
    <2>4. \A e \in DOMAIN script :
            Refuse(e) \/ Delete(e) \/ Enqueue(e) \/ Redo(e) \/ RunCommit(e) => queue' = queue
        BY DEF Refuse, Delete, Enqueue, Redo, RunDelete, RunReconstruct, RunCommit, Ran, Queued
    <2>5. ResetQueue \/ Flush \/ Aside => queue' = queue
        BY DEF ResetQueue, Flush, Aside, Queued
    <2> QED BY <1>7, <2>1, <2>2, <2>3, <2>4, <2>5, PipeCases
<1>9. Busy' => After(worker'.job[1]) /\ script[worker'.job[1]].op # "delete"
    <2>1. CASE Take
        <3>1. queue # << >> /\ (worker' = worker \/ worker' = [pc |-> "run", job |-> Head(queue)])
            BY <2>1 DEF Take
        <3>2. Head(queue) \in Range(queue)
            BY <3>1, NamedJobs, RangeTail
        <3>3. worker' = worker => worker'.job = worker.job /\ (Busy' => Busy)
            BY DEF Busy
        <3>4. worker' = [pc |-> "run", job |-> Head(queue)] => worker'.job = Head(queue)
            OBVIOUS
        <3> QED BY <1>7, <3>1, <3>2, <3>3, <3>4
    <2>2. \A e \in DOMAIN script : Request(e) => worker' = worker
        BY RequestOpens, <1>0
    <2>3. \A e \in DOMAIN script : Refuse(e) \/ Delete(e) \/ Enqueue(e) \/ Put(e) => worker' = worker
        BY DEF Refuse, Delete, Enqueue, Put
    <2>4. \A e \in DOMAIN script : Redo(e) \/ RunCommit(e) =>
            worker.pc = "run" /\ worker' = [worker EXCEPT !.pc = "settle"]
        BY DEF Redo, RunDelete, RunReconstruct, RunCommit, Ran
    <2>5. ResetQueue \/ Flush \/ Aside => worker' = worker \/ ~Busy'
        BY DEF ResetQueue, Flush, Aside, Busy, Looping
    <2>6. worker' = worker \/ (worker.pc = "run" /\ worker' = [worker EXCEPT !.pc = "settle"]) => worker'.job = worker.job /\ (Busy' => Busy)
        BY DEF Busy, Types
    <2> QED BY <1>7, <2>1, <2>2, <2>3, <2>4, <2>5, <2>6, PipeCases
<1>10. \A e : StateOf(e)' = StateOf(e)
    BY <1>0 DEF StateOf
<1> QED BY <1>3, <1>4, <1>5, <1>6, <1>8, <1>9, <1>0, <1>10 DEF ModelsAgree, Edited, After

\* Nothing is out of order at first.
LEMMA InOrderInit == Init => InOrder
<1> SUFFICES ASSUME Init
             PROVE  InOrder
    OBVIOUS
<1>1. \A e \in DOMAIN script : step[e] = 0
    BY ScriptTyped DEF Init
<1>2. Range(uow.new) = {} /\ Range(uow.changed) = {} /\ DOMAIN uow.changed = {}
    BY EmptySeq DEF Init, NoWork, Lists, Range
<1>3. Range(queue) = {} /\ DOMAIN queue = {} /\ worker.pc # "run"
    BY DEF Init, Range, Asleep
<1> QED BY <1>1, <1>2, <1>3 DEF InOrder, Listed, Running, Queuing, Making

\* What a step does to the list of changed models and to those that wait to be written.
LEMMA ListedNext ==
    ASSUME Types, Ids, ModelsAgree, [Next]_vars
    PROVE  /\ \A f \in DOMAIN script : f \in Range(uow'.new) \cup Range(uow'.changed) =>
                \/ Listed(f)
                \/ worker.pc = "run" /\ worker.job = <<f, "commit">> /\ RunCommit(f)
           /\ \/ uow'.changed = uow.changed
              \/ uow'.changed = << >>
              \/ \E e \in DOMAIN script : /\ worker.pc = "run" /\ worker.job = <<e, "commit">>
                                          /\ uow'.changed = Append(uow.changed, e)
<1>0. uow \in [Lists -> Seq(DOMAIN script)] /\ {"new", "changed", "deleted"} \subseteq Lists
      /\ uow.new \in Seq(DOMAIN script) /\ uow.changed \in Seq(DOMAIN script)
    BY OrderTyped DEF Types, Lists
<1>1. CASE ListsAre(uow')
    <2>1. (uow'.new = uow.new \/ uow'.new = << >>) /\ (uow'.changed = uow.changed \/ uow'.changed = << >>)
        BY <1>0, <1>1 DEF ListsAre, NoWork
    <2>2. Range(<< >>) = {}
        BY DEF Range
    <2> QED BY <2>1, <2>2 DEF Listed
<1>2. ASSUME NEW e \in DOMAIN script, RunCommit(e), worker.pc = "run", worker.job = <<e, "commit">>,
             Edited(e), script[e].op # "delete", uow' = Register(uow, e, StateOf(e))
      PROVE  /\ \A f \in DOMAIN script : f \in Range(uow'.new) \cup Range(uow'.changed) =>
                  Listed(f) \/ f = e
             /\ uow'.changed = uow.changed \/ uow'.changed = Append(uow.changed, e)
    <2>1. StateOf(e) \in {"new", "changed"}
        BY <1>2, ScriptTyped DEF StateOf, Types
    <2>2. CASE StateOf(e) = "new"
        <3>1. uow'.new = Append(uow.new, e) /\ uow'.changed = uow.changed
            <4>1. uow' = Register(uow, e, "new")
                BY <1>2, <2>2
            <4>2. /\ Register(uow, e, "new")["new"] = Append(uow["new"], e)
                  /\ \A l \in Lists : l # "new" => Register(uow, e, "new")[l] = uow[l]
                BY <1>0, RegisterDoes
            <4> QED BY <4>1, <4>2, <1>0
        <3>2. Range(uow'.new) = Range(uow.new) \cup {e}
            BY <1>0, <3>1, RangeAppend
        <3> QED BY <3>1, <3>2 DEF Listed
    <2>3. CASE StateOf(e) = "changed"
        <3>1. uow'.changed = Append(uow.changed, e) /\ uow'.new = uow.new
            BY <1>0, <1>2, <2>3, RegisterDoes
        <3>2. Range(uow'.changed) = Range(uow.changed) \cup {e}
            BY <1>0, <3>1, RangeAppend
        <3> QED BY <3>1, <3>2 DEF Listed
    <2> QED BY <2>1, <2>2, <2>3
<1>3. ASSUME NEW e \in DOMAIN script, uow' = Register(uow, e, "deleted")
      PROVE  uow'.new = uow.new /\ uow'.changed = uow.changed
    <2>0. "deleted" \in Lists
        BY <1>0
    <2>1. /\ Register(uow, e, "deleted")["deleted"] = Append(uow["deleted"], e)
          /\ \A l \in Lists : l # "deleted" => Register(uow, e, "deleted")[l] = uow[l]
        BY <1>0, <2>0, RegisterDoes
    <2>2. uow'["new"] = uow["new"] /\ uow'["changed"] = uow["changed"]
        BY <1>0, <1>3, <2>1
    <2> QED BY <2>2
<1>4. ASSUME NEW e \in DOMAIN script, RunCommit(e), worker.pc = "run", worker.job = <<e, "commit">>,
             Edited(e), script[e].op # "delete", uow' = Register(uow, e, StateOf(e))
      PROVE  /\ \A f \in DOMAIN script : f \in Range(uow'.new) \cup Range(uow'.changed) =>
                \/ Listed(f)
                \/ worker.pc = "run" /\ worker.job = <<f, "commit">> /\ RunCommit(f)
             /\ \/ uow'.changed = uow.changed
                \/ uow'.changed = << >>
                \/ \E i \in DOMAIN script : /\ worker.pc = "run" /\ worker.job = <<i, "commit">>
                                            /\ uow'.changed = Append(uow.changed, i)
    BY <1>2, <1>4
<1>5. ASSUME NEW e \in DOMAIN script, uow' = Register(uow, e, "deleted")
      PROVE  /\ \A f \in DOMAIN script : f \in Range(uow'.new) \cup Range(uow'.changed) => Listed(f)
             /\ uow'.changed = uow.changed
    BY <1>3, <1>5 DEF Listed
<1> QED BY <1>1, <1>4, <1>5, ListCases

\* What a step does to the jobs that wait to commit, and to the one that runs.
LEMMA QueuingNext ==
    ASSUME Types, Types', Ids, Ids', [Next]_vars
    PROVE  /\ \A f \in DOMAIN script : <<f, "commit">> \in Range(queue') =>
                Queuing(f) \/ (step[f] = 6 /\ step'[f] = 7 /\ Put(f))
           /\ \A f \in DOMAIN script : worker'.pc = "run" /\ worker'.job = <<f, "commit">> =>
                Running(f) \/ (Take /\ queue # << >> /\ Head(queue) = <<f, "commit">> /\ queue' = Tail(queue)
                               /\ worker.pc = "loop" /\ step' = step)
           /\ \A e \in DOMAIN script : RunCommit(e) => worker'.pc # "run"
<1>0. step \in [Edits -> 0 .. 7] /\ DOMAIN script \subseteq Edits
    BY ScriptTyped DEF Types
<1>1. ASSUME NEW e \in DOMAIN script, Put(e), NEW f \in DOMAIN script, <<f, "commit">> \in Range(queue')
      PROVE  Queuing(f) \/ (step[f] = 6 /\ step'[f] = 7 /\ Put(f))
    <2> DEFINE j == <<e, KindAt(step[e])>>
    <2>1. queue' = Append(queue, j) /\ step[e] \in 1 .. 6 /\ step[e] \in {2, 4, 6} /\ step' = [step EXCEPT ![e] = @ + 1]
        BY <1>1 DEF Put
    <2>2. j \in Jobs /\ j[1] = e /\ j[2] = KindAt(step[e])
        BY <2>1, <1>0, KindTyped, JobsAre
    <2>3. KindAt(step[e]) = "commit" => step[e] = 6
        BY <2>1, KindTyped
    <2> HIDE DEF j
    <2>4. Range(queue') = Range(queue) \cup {j}
        BY <2>1, <2>2, NamedJobs, RangeAppend
    <2>5. CASE <<f, "commit">> \in Range(queue)
        BY <2>5 DEF Queuing
    <2>6. CASE <<f, "commit">> = j
        <3>1. f = e /\ step[e] = 6
            BY <2>2, <2>3, <2>6
        <3>2. step'[f] = 7
            BY <3>1, <2>1, <1>0
        <3> QED BY <1>1, <3>1, <3>2
    <2> QED BY <1>1, <2>4, <2>5, <2>6
<1>2. CASE Take
    <2>1. queue # << >> /\ queue' = Tail(queue) /\ worker.pc = "loop" /\ step' = step
          /\ (worker' = worker \/ worker' = [pc |-> "run", job |-> Head(queue)])
        BY <1>2 DEF Take
    <2>2. Range(queue') \subseteq Range(queue)
        BY <2>1, NamedJobs, RangeTail
    <2>3. worker'.pc = "run" => worker' = [pc |-> "run", job |-> Head(queue)]
        BY <2>1
    <2>4. \A f \in DOMAIN script : <<f, "commit">> \in Range(queue') => Queuing(f)
        BY <2>2 DEF Queuing
    <2>5. worker'.pc = "run" => worker'.job = Head(queue)
        BY <2>3
    <2>6. \A e \in DOMAIN script : ~RunCommit(e)
        <3>1. \A e \in DOMAIN script : RunCommit(e) => worker.pc = "run"
            BY DEF RunCommit, Ran
        <3> QED BY <2>1, <3>1
    <2> QED BY <1>2, <2>1, <2>4, <2>5, <2>6
<1>3. ASSUME queue' = queue, worker' = worker \/ worker'.pc # "run"
      PROVE  /\ \A f \in DOMAIN script : <<f, "commit">> \in Range(queue') => Queuing(f)
             /\ \A f \in DOMAIN script : worker'.pc = "run" /\ worker'.job = <<f, "commit">> => Running(f)
    BY <1>3 DEF Queuing, Running
<1>4. \A e \in DOMAIN script : Request(e) => queue' = queue /\ worker' = worker
    BY RequestOpens, <1>0 DEF Queued
<1>5. \A e \in DOMAIN script : Refuse(e) \/ Delete(e) \/ Enqueue(e) => queue' = queue /\ worker' = worker
    BY DEF Refuse, Delete, Enqueue, Queued
<1>6. \A e \in DOMAIN script : Redo(e) \/ RunCommit(e) =>
        queue' = queue /\ worker.pc = "run" /\ worker' = [worker EXCEPT !.pc = "settle"]
    BY DEF Redo, RunDelete, RunReconstruct, RunCommit, Ran, Queued
<1>7. worker.pc = "run" /\ worker' = [worker EXCEPT !.pc = "settle"] => worker'.pc # "run"
    BY DEF Types
<1>8. ResetQueue \/ Flush \/ Aside => queue' = queue /\ (worker' = worker \/ worker'.pc # "run")
    BY DEF ResetQueue, Flush, Aside, Queued, Busy, Looping
<1>9. \A e \in DOMAIN script : Put(e) => worker' = worker
    BY DEF Put
<1>10. \A e \in DOMAIN script : RunCommit(e) => worker'.pc # "run"
    BY <1>6, <1>7
<1>11. ASSUME NEW e \in DOMAIN script, Put(e)
       PROVE  \A f \in DOMAIN script : worker'.pc = "run" /\ worker'.job = <<f, "commit">> => Running(f)
    BY <1>9, <1>11 DEF Running
<1> QED BY <1>1, <1>2, <1>3, <1>4, <1>5, <1>6, <1>7, <1>8, <1>10, <1>11, PipeCases

\* What is listed has been edited.
LEMMA ListedEdited == ModelsAgree => \A f : Listed(f) => Edited(f)
<1> SUFFICES ASSUME ModelsAgree, NEW f, Listed(f)
             PROVE  Edited(f)
    OBVIOUS
<1>1. \A l \in {"new", "changed"} : \A i \in DOMAIN uow[l] : Edited(uow[l][i])
    BY DEF ModelsAgree, Lists
<1> QED BY <1>1 DEF Listed, Range

\* Where the requests are after a step.
LEMMA StepNext ==
    ASSUME Types, Types', Ids, ModelsAgree, [Next]_vars
    PROVE  \/ step' = step
           \/ \E e \in DOMAIN script : /\ step[e] = 0 /\ step' = [step EXCEPT ![e] = 1]
                                       /\ Request(e)
                                       /\ UNCHANGED <<queue, worker, uow>>
                                       /\ \A f \in 1 .. e - 1 : Node(f) = Node(e) => step[f] = 7
           \/ \E e \in DOMAIN script : /\ step[e] = 0 /\ step' = [step EXCEPT ![e] = 7]
                                       /\ Refuse(e) \/ Delete(e)
                                       /\ \A f \in 1 .. e - 1 : Node(f) = Node(e) => step[f] = 7
           \/ \E e \in DOMAIN script : /\ step[e] \in 1 .. 6 /\ step' = [step EXCEPT ![e] = @ + 1]
                                       /\ Enqueue(e) \/ Put(e)
                                       /\ UNCHANGED <<object, worker, uow>>
<1>0. DOMAIN script \subseteq Edits
    BY ScriptTyped DEF Types
<1>1. ASSUME NEW e \in DOMAIN script, Request(e)
      PROVE  /\ step[e] = 0 /\ step' = [step EXCEPT ![e] = 1]
             /\ UNCHANGED <<queue, worker, uow>>
             /\ \A f \in 1 .. e - 1 : Node(f) = Node(e) => step[f] = 7
    BY <1>0, <1>1, RequestOpens DEF Queued
<1>2. ASSUME NEW e \in DOMAIN script, Refuse(e) \/ Delete(e)
      PROVE  /\ step[e] = 0 /\ step' = [step EXCEPT ![e] = 7]
             /\ \A f \in 1 .. e - 1 : Node(f) = Node(e) => step[f] = 7
    BY <1>2 DEF Refuse, Delete, Turn
<1>3. ASSUME NEW e \in DOMAIN script, Enqueue(e) \/ Put(e)
      PROVE  /\ step[e] \in 1 .. 6 /\ step' = [step EXCEPT ![e] = @ + 1]
             /\ UNCHANGED <<object, worker, uow>>
    BY <1>3 DEF Enqueue, Put
<1>4. \A e \in DOMAIN script : Redo(e) \/ RunCommit(e) => step' = step
    BY DEF Redo, RunDelete, RunReconstruct, RunCommit, Ran
<1>5. ResetQueue \/ Take \/ Flush \/ Aside => step' = step
    BY DEF ResetQueue, Take, Flush, Aside
<1> QED BY <1>1, <1>2, <1>3, <1>4, <1>5, PipeCases

\* The edits of a node go through the queue and the lists one after the other.
LEMMA OrderStep ==
    ASSUME Types, Types', Ids, Ids', ModelsAgree, ModelsAgree', InOrder, [Next]_vars
    PROVE  InOrder'
<1> DEFINE D == DOMAIN script
           MN(f) == step'[f] \in 1 .. 6
           QN(f) == <<f, "commit">> \in Range(queue')
           RN(f) == worker'.pc = "run" /\ worker'.job = <<f, "commit">>
           LN(f) == f \in Range(uow'.new) \cup Range(uow'.changed)
<1>0. step \in [Edits -> 0 .. 7] /\ D \subseteq Edits /\ script' = script /\ D \subseteq Nat \ {0}
    BY ScriptTyped, PipeCases DEF Types
<1>1. \A e, f \in D : SameNode(e, f) =>
            /\ Listed(e) /\ (Running(f) \/ Queuing(f) \/ Making(f)) => e < f
            /\ Running(e) /\ (Queuing(f) \/ Making(f)) => e < f
            /\ Queuing(e) /\ Making(f) => e < f
            /\ Making(e) /\ Making(f) => e = f
            /\ step[f] = 0 => step[e] = 0 \/ e < f
    BY DEF InOrder
<1>2. \A f \in D : (Listed(f) \/ Running(f) \/ Queuing(f) \/ Making(f)) => step[f] # 0
    <2>1. \A f \in D : Listed(f) => step[f] # 0
        BY ListedEdited DEF Edited
    <2>2. \A f \in D : Running(f) => step[f] # 0
        <3>1. Busy => step[worker.job[1]] # 0
            BY DEF ModelsAgree, Edited
        <3>2. \A f \in D : Running(f) => Busy /\ worker.job[1] = f
            BY DEF Running, Busy
        <3> QED BY <3>1, <3>2
    <2>3. \A f \in D : Queuing(f) => step[f] # 0
        BY DEF ModelsAgree, Queuing, Edited
    <2> QED BY <2>1, <2>2, <2>3, <1>0 DEF Making
<1>3. \A f \in D : LN(f) => Listed(f) \/ (Running(f) /\ RunCommit(f))
    BY ListedNext DEF Running
<1>4. /\ \A f \in D : QN(f) => Queuing(f) \/ (step[f] = 6 /\ step'[f] = 7 /\ Put(f))
      /\ \A f \in D : RN(f) => \/ Running(f)
                               \/ /\ Queuing(f) /\ Head(queue) = <<f, "commit">> /\ queue' = Tail(queue)
                                  /\ queue # << >> /\ worker.pc = "loop" /\ step' = step
      /\ \A e \in D : RunCommit(e) => worker'.pc # "run"
    <2>1. queue # << >> => Head(queue) \in Range(queue)
        BY NamedJobs, RangeTail
    <2> QED BY <2>1, QueuingNext DEF Queuing
<1>5. \A e, f \in D : SameNode(e, f) /\ QN(f) /\ Head(queue) = <<e, "commit">> /\ queue # << >> /\ queue' = Tail(queue)
                        => e < f
    <2> SUFFICES ASSUME NEW e \in D, NEW f \in D, SameNode(e, f), QN(f), Head(queue) = <<e, "commit">>,
                        queue # << >>, queue' = Tail(queue)
                 PROVE  e < f
        OBVIOUS
    <2>1. /\ Head(queue) = queue[1] /\ Len(queue) \in Nat /\ Len(queue) >= 1 /\ DOMAIN queue = 1 .. Len(queue)
          /\ DOMAIN Tail(queue) = 1 .. (Len(queue) - 1)
          /\ \A i \in 1 .. (Len(queue) - 1) : Tail(queue)[i] = queue[i + 1]
        BY NamedJobs, RangeTail, HeadTailProperties, EmptySeq
    <2>2. PICK i \in DOMAIN Tail(queue) : Tail(queue)[i] = <<f, "commit">>
        BY DEF Range
    <2>3. i + 1 \in DOMAIN queue /\ 1 \in DOMAIN queue /\ 1 < i + 1 /\ queue[i + 1] = <<f, "commit">>
        BY <2>1, <2>2
    <2> QED BY <2>1, <2>3 DEF InOrder
<1>6. \A e, f \in D : Running(e) /\ Running(f) => e = f
    BY DEF Running
<1>7. \A f \in D : /\ Put(f) => UNCHANGED <<worker, uow>> /\ step' = [step EXCEPT ![f] = @ + 1]
                   /\ RunCommit(f) => step' = step
    BY DEF Put, RunCommit, Ran
<1>8. \A f \in D : MN(f) => Making(f) \/ (step[f] = 0 /\ Request(f))
    <2>1. CASE step' = step
        BY <2>1 DEF Making
    <2>2. ASSUME NEW e \in D, Request(e), step' = [step EXCEPT ![e] = 1], step[e] = 0
          PROVE  \A f \in D : MN(f) => Making(f) \/ (step[f] = 0 /\ Request(f))
        BY <2>2, <1>0 DEF Making
    <2>3. ASSUME NEW e \in D, step' = [step EXCEPT ![e] = 7]
          PROVE  \A f \in D : MN(f) => Making(f)
        BY <2>3, <1>0 DEF Making
    <2>4. ASSUME NEW e \in D, step[e] \in 1 .. 6, step' = [step EXCEPT ![e] = @ + 1]
          PROVE  \A f \in D : MN(f) => Making(f)
        BY <2>4, <1>0 DEF Making
    <2> QED BY <2>1, <2>2, <2>3, <2>4, StepNext
<1>9. \A f \in D : Request(f) => /\ UNCHANGED <<queue, worker, uow>>
                                 /\ \A g \in D : g < f /\ Node(g) = Node(f) => step[g] = 7
    <2> SUFFICES ASSUME NEW f \in D, Request(f)
                 PROVE  /\ UNCHANGED <<queue, worker, uow>>
                        /\ \A g \in D : g < f /\ Node(g) = Node(f) => step[g] = 7
        OBVIOUS
    <2>1. UNCHANGED <<queue, worker, uow>> /\ \A g \in 1 .. f - 1 : Node(g) = Node(f) => step[g] = 7
        BY <1>0, RequestOpens DEF Queued
    <2>2. \A g \in D : g < f => g \in 1 .. f - 1
        BY <1>0
    <2> QED BY <2>1, <2>2
<1>10. \A e, f \in D : Request(f) =>
            /\ LN(e) \/ RN(e) \/ QN(e) => step[e] # 0 /\ (LN(e) => Listed(e)) /\ (RN(e) => Running(e)) /\ (QN(e) => Queuing(e))
            /\ Request(e) => e = f
    <2>1. \A e, f \in D : Request(f) /\ Request(e) => e = f
        <3>1. \A e \in D : Request(e) => step' = [step EXCEPT ![e] = 1] /\ step[e] = 0
            BY <1>0, RequestOpens
        <3>2. ASSUME NEW e \in D, NEW f \in D, e # f, step' = [step EXCEPT ![e] = 1], step[f] = 0
              PROVE  step' # [step EXCEPT ![f] = 1]
            BY <3>2, <1>0
        <3> QED BY <3>1, <3>2
    <2>2. ASSUME NEW e \in D, UNCHANGED <<queue, worker, uow>>
          PROVE  /\ LN(e) \/ RN(e) \/ QN(e) => step[e] # 0
                 /\ LN(e) => Listed(e)
                 /\ RN(e) => Running(e)
                 /\ QN(e) => Queuing(e)
        <3>1. (LN(e) => Listed(e)) /\ (RN(e) => Running(e)) /\ (QN(e) => Queuing(e))
            BY <2>2 DEF Listed, Running, Queuing
        <3> QED BY <3>1, <1>2
    <2> HIDE DEF LN, RN, QN
    <2> QED BY <2>1, <2>2, <1>9
<1>11. \A e, f \in D : SameNode(e, f) /\ step'[f] = 0 => step'[e] = 0 \/ e < f
    <2> SUFFICES ASSUME NEW e \in D, NEW f \in D, SameNode(e, f), step'[f] = 0, step'[e] # 0
                 PROVE  e < f
        OBVIOUS
    <2>1. CASE step' = step
        BY <2>1, <1>1
    <2>2. ASSUME NEW g \in D, step[g] = 0, \A h \in 1 .. g - 1 : Node(h) = Node(g) => step[h] = 7,
                 step' = [step EXCEPT ![g] = 1] \/ step' = [step EXCEPT ![g] = 7]
          PROVE  e < f
        <3>1. f # g /\ step[f] = 0
            BY <2>2, <1>0
        <3>2. CASE e = g
            <4>1. f \in 1 .. g - 1 => step[f] = 7
                BY <2>2, <3>2 DEF SameNode
            <4> QED BY <4>1, <3>1, <3>2, <1>0
        <3>3. CASE e # g
            <4>1. step[e] # 0
                BY <2>2, <3>3, <1>0
            <4> QED BY <4>1, <3>1, <1>1
        <3> QED BY <3>2, <3>3
    <2>3. ASSUME NEW g \in D, step[g] \in 1 .. 6, step' = [step EXCEPT ![g] = @ + 1]
          PROVE  e < f
        <3>1. step[f] = 0 /\ step[e] # 0
            BY <2>3, <1>0
        <3> QED BY <3>1, <1>1
    <2> QED BY <2>1, <2>2, <2>3, StepNext
<1>12. \A i, k \in DOMAIN queue' :
         queue'[i][2] = "commit" /\ queue'[k][2] = "commit" /\ SameNode(queue'[i][1], queue'[k][1]) /\ i < k
            => queue'[i][1] < queue'[k][1]
    <2>0. /\ queue \in Seq(Jobs) /\ DOMAIN queue = 1 .. Len(queue) /\ Len(queue) \in Nat
          /\ \A i, k \in DOMAIN queue :
               queue[i][2] = "commit" /\ queue[k][2] = "commit" /\ SameNode(queue[i][1], queue[k][1]) /\ i < k
                 => queue[i][1] < queue[k][1]
        BY NamedJobs DEF InOrder
    <2>1. CASE queue' = queue
        BY <2>0, <2>1
    <2>2. CASE Take
        <3>1. queue # << >> /\ queue' = Tail(queue)
            BY <2>2 DEF Take
        <3>2. /\ DOMAIN queue' = 1 .. (Len(queue) - 1)
              /\ \A i \in 1 .. (Len(queue) - 1) : queue'[i] = queue[i + 1]
            BY <3>1, NamedJobs, RangeTail
        <3> SUFFICES ASSUME NEW i \in DOMAIN queue', NEW k \in DOMAIN queue', i < k,
                            queue'[i][2] = "commit", queue'[k][2] = "commit",
                            SameNode(queue'[i][1], queue'[k][1])
                     PROVE  queue'[i][1] < queue'[k][1]
            OBVIOUS
        <3>3. i + 1 \in DOMAIN queue /\ k + 1 \in DOMAIN queue /\ i + 1 < k + 1
              /\ queue'[i] = queue[i + 1] /\ queue'[k] = queue[k + 1]
            BY <2>0, <3>2
        <3> QED BY <2>0, <3>3
    <2>3. ASSUME NEW e \in D, Put(e)
          PROVE  \A i, k \in DOMAIN queue' :
                   queue'[i][2] = "commit" /\ queue'[k][2] = "commit" /\ SameNode(queue'[i][1], queue'[k][1]) /\ i < k
                     => queue'[i][1] < queue'[k][1]
        <3> DEFINE j == <<e, KindAt(step[e])>>
        <3>1. queue' = Append(queue, j) /\ step[e] \in 1 .. 6
            BY <2>3 DEF Put
        <3>2. j \in Jobs /\ j[1] = e
            BY <3>1, <1>0, KindTyped, JobsAre
        <3> HIDE DEF j
        <3>3. /\ DOMAIN queue' = 1 .. (Len(queue) + 1) /\ queue'[Len(queue) + 1] = j
              /\ \A i \in 1 .. Len(queue) : queue'[i] = queue[i]
            BY <2>0, <3>1, <3>2, AppendProperties
        <3> SUFFICES ASSUME NEW i \in DOMAIN queue', NEW k \in DOMAIN queue', i < k,
                            queue'[i][2] = "commit", queue'[k][2] = "commit",
                            SameNode(queue'[i][1], queue'[k][1])
                     PROVE  queue'[i][1] < queue'[k][1]
            OBVIOUS
        <3>4. i \in DOMAIN queue /\ queue'[i] = queue[i] /\ queue[i] \in Jobs /\ queue[i] \in Range(queue)
            BY <2>0, <3>3 DEF Range
        <3>5. CASE k \in DOMAIN queue
            BY <2>0, <3>3, <3>4, <3>5
        <3>6. CASE k \notin DOMAIN queue
            <4>1. k = Len(queue) + 1 /\ queue'[k] = j
                BY <2>0, <3>3, <3>6
            <4>2. queue[i] = <<queue[i][1], "commit">>
                BY <3>4, JobTyped
            <4>3. Queuing(queue[i][1]) /\ queue[i][1] \in D
                BY <3>4, <4>2 DEF Queuing, ModelsAgree, Edited
            <4>4. Making(e) /\ SameNode(queue[i][1], e)
                BY <3>1, <3>2, <3>4, <4>1 DEF Making
            <4>5. queue[i][1] < e
                BY <4>3, <4>4, <1>1
            <4> QED BY <3>2, <3>4, <4>1, <4>5
        <3> QED BY <3>5, <3>6
    <2>4. \A e \in D : Request(e) => queue' = queue
        BY <1>9
    <2>5. \A e \in D : Refuse(e) \/ Delete(e) \/ Enqueue(e) \/ Redo(e) \/ RunCommit(e) => queue' = queue
        BY DEF Refuse, Delete, Enqueue, Queued, Redo, RunDelete, RunReconstruct, RunCommit, Ran
    <2>6. ResetQueue \/ Flush \/ Aside => queue' = queue
        BY DEF ResetQueue, Flush, Aside, Queued
    <2> HIDE DEF D
    <2>7. \A e \in D : Request(e) \/ Refuse(e) \/ Delete(e) \/ Enqueue(e) \/ Redo(e) \/ RunCommit(e) => queue' = queue
        BY <2>4, <2>5
    <2>8. queue' = queue \/ Take \/ \E e \in D : Put(e)
        BY <2>6, <2>7, PipeCases DEF D
    <2> QED BY <2>1, <2>2, <2>3, <2>8
<1>13. \A i, k \in DOMAIN uow'.changed :
         SameNode(uow'.changed[i], uow'.changed[k]) /\ i < k => uow'.changed[i] < uow'.changed[k]
    <2>0. /\ uow.changed \in Seq(D) /\ DOMAIN uow.changed = 1 .. Len(uow.changed) /\ Len(uow.changed) \in Nat
          /\ \A i, k \in DOMAIN uow.changed :
               SameNode(uow.changed[i], uow.changed[k]) /\ i < k => uow.changed[i] < uow.changed[k]
        <3>1. uow.changed \in Seq(D)
            BY OrderTyped DEF Types
        <3> QED BY <3>1 DEF InOrder
    <2>1. CASE uow'.changed = uow.changed
        BY <2>0, <2>1
    <2>2. CASE uow'.changed = << >>
        BY <2>2, EmptySeq
    <2>3. ASSUME NEW e \in D, worker.pc = "run", worker.job = <<e, "commit">>,
                 uow'.changed = Append(uow.changed, e)
          PROVE  \A i, k \in DOMAIN uow'.changed :
                   SameNode(uow'.changed[i], uow'.changed[k]) /\ i < k => uow'.changed[i] < uow'.changed[k]
        <3> DEFINE c == uow.changed
                   d == uow'.changed
        <3>1. /\ DOMAIN d = 1 .. (Len(c) + 1) /\ d[Len(c) + 1] = e
              /\ \A i \in 1 .. Len(c) : d[i] = c[i]
            <4>1. c \in Seq(D) /\ d = Append(c, e)
                BY <2>0, <2>3
            <4> HIDE DEF c, d
            <4> QED BY <4>1, AppendProperties
        <3> SUFFICES ASSUME NEW i \in DOMAIN d, NEW k \in DOMAIN d, i < k, SameNode(d[i], d[k])
                     PROVE  d[i] < d[k]
            OBVIOUS
        <3>2. i \in DOMAIN c /\ d[i] = c[i] /\ c[i] \in D /\ Listed(c[i])
            BY <2>0, <3>1 DEF Range, Listed
        <3> HIDE DEF d
        <3>3. CASE k \in DOMAIN c
            BY <2>0, <3>1, <3>2, <3>3
        <3>4. CASE k \notin DOMAIN c
            <4>1. d[k] = e
                BY <2>0, <3>1, <3>4
            <4>2. Running(e)
                BY <2>3 DEF Running
            <4> QED BY <1>1, <3>2, <4>1, <4>2
        <3> QED BY <3>3, <3>4
    <2> QED BY <2>1, <2>2, <2>3, ListedNext
<1> HIDE DEF MN, QN, RN, LN
<1>14. \A e, f \in D : SameNode(e, f) =>
            /\ LN(e) /\ (RN(f) \/ QN(f) \/ MN(f)) => e < f
            /\ RN(e) /\ (QN(f) \/ MN(f)) => e < f
            /\ QN(e) /\ MN(f) => e < f
            /\ MN(e) /\ MN(f) => e = f
    <2> SUFFICES ASSUME NEW e \in D, NEW f \in D, SameNode(e, f)
                 PROVE  /\ LN(e) /\ (RN(f) \/ QN(f) \/ MN(f)) => e < f
                        /\ RN(e) /\ (QN(f) \/ MN(f)) => e < f
                        /\ QN(e) /\ MN(f) => e < f
                        /\ MN(e) /\ MN(f) => e = f
        OBVIOUS
    <2>0. SameNode(f, e)
        BY DEF SameNode
    <2>1. CASE Request(f)
        <3>1. /\ LN(e) \/ RN(e) \/ QN(e) => step[e] # 0 /\ (LN(e) => Listed(e)) /\ (RN(e) => Running(e)) /\ (QN(e) => Queuing(e))
              /\ LN(f) \/ RN(f) \/ QN(f) => step[f] # 0 /\ (LN(f) => Listed(f)) /\ (RN(f) => Running(f)) /\ (QN(f) => Queuing(f))
              /\ Request(e) => e = f
            BY <2>1, <1>10
        <3>2. step[f] = 0
            BY <2>1, <1>0, RequestOpens
        <3>3. step[e] # 0 => e < f /\ step[e] = 7
            BY <2>0, <2>1, <3>2, <1>1, <1>9 DEF SameNode
        <3>4. MN(e) => e = f
            <4>1. MN(e) => Making(e) \/ Request(e)
                BY <1>8
            <4>2. ~Making(e)
                BY <3>3, <1>0 DEF Making
            <4> QED BY <4>1, <4>2, <3>1
        <3> QED BY <3>1, <3>2, <3>3, <3>4
    <2>2. CASE Request(e)
        <3>1. /\ LN(e) \/ RN(e) \/ QN(e) => step[e] # 0
              /\ LN(f) \/ RN(f) \/ QN(f) => step[f] # 0
              /\ Request(f) => e = f
            BY <2>2, <1>10
        <3>2. step[e] = 0
            BY <2>2, <1>0, RequestOpens
        <3>3. step[f] # 0 => step[f] = 7
            BY <2>0, <2>2, <3>2, <1>1, <1>9 DEF SameNode
        <3>4. MN(f) => e = f
            <4>1. MN(f) => Making(f) \/ Request(f)
                BY <1>8
            <4>2. ~Making(f)
                BY <3>3, <1>0 DEF Making
            <4> QED BY <4>1, <4>2, <3>1
        <3> QED BY <3>1, <3>2, <3>4
    <2>3. CASE ~Request(e) /\ ~Request(f)
        <3>1. (MN(e) => Making(e)) /\ (MN(f) => Making(f))
            BY <2>3, <1>8
        <3>2. /\ QN(e) => Queuing(e) \/ (Making(e) /\ ~MN(e) /\ Put(e))
              /\ QN(f) => Queuing(f) \/ (Making(f) /\ ~MN(f) /\ Put(f))
            BY <1>4 DEF Making, MN
        <3>3. /\ RN(e) => Running(e) \/ (Queuing(e) /\ Head(queue) = <<e, "commit">> /\ queue' = Tail(queue)
                                           /\ queue # << >> /\ worker.pc = "loop" /\ step' = step)
              /\ RN(f) => Running(f) \/ (Queuing(f) /\ Head(queue) = <<f, "commit">> /\ queue' = Tail(queue)
                                           /\ queue # << >> /\ worker.pc = "loop" /\ step' = step)
            BY <1>4
        <3>4. LN(e) => Listed(e) \/ (Running(e) /\ RunCommit(e))
            BY <1>3
        <3>5. RunCommit(e) => ~RN(f) /\ step' = step
            BY <1>4, <1>7 DEF RN
        <3>6. Running(e) \/ Running(f) => worker.pc # "loop"
            BY DEF Running
        <3>7. /\ Listed(e) /\ (Running(f) \/ Queuing(f) \/ Making(f)) => e < f
              /\ Running(e) /\ (Queuing(f) \/ Making(f)) => e < f
              /\ Queuing(e) /\ Making(f) => e < f
              /\ Making(e) /\ Making(f) => e = f
            BY <1>1
        <3>8. QN(f) /\ Head(queue) = <<e, "commit">> /\ queue # << >> /\ queue' = Tail(queue) => e < f
            BY <1>5 DEF QN
        <3>9. (Put(e) => step' # step \/ step[e] = 7) /\ (Put(f) => step' # step \/ step[f] = 7)
            BY <1>0, <1>7
        <3>10. (Making(e) => step[e] # 7) /\ (Making(f) => step[f] # 7)
            BY DEF Making
        <3>11. step' = step => (MN(e) <=> Making(e)) /\ (MN(f) <=> Making(f))
            BY DEF MN, Making
        <3> QED BY <3>1, <3>2, <3>3, <3>4, <3>5, <3>6, <3>7, <3>8, <3>9, <3>10, <3>11
    <2> QED BY <2>1, <2>2, <2>3
<1>15. \A e, f : SameNode(e, f)' <=> SameNode(e, f)
    BY <1>0 DEF SameNode, Node
<1> QED BY <1>0, <1>11, <1>12, <1>13, <1>14, <1>15 DEF InOrder, MN, QN, RN, LN, Making, Queuing, Running, Listed

\* Two lists, and three, after each other.
LEMMA TwoLists ==
    ASSUME NEW D, NEW a \in Seq(D), NEW b \in Seq(D)
    PROVE  /\ a \o b \in Seq(D) /\ Len(a \o b) = Len(a) + Len(b)
           /\ \A i \in 1 .. Len(a) : (a \o b)[i] = a[i]
           /\ \A i \in 1 .. Len(b) : (a \o b)[Len(a) + i] = b[i]
           /\ Len(a) \in Nat /\ Len(b) \in Nat
<1> DEFINE s == a \o b
<1>1. s \in Seq(D) /\ Len(s) = Len(a) + Len(b)
      /\ \A i \in 1 .. Len(a) + Len(b) : s[i] = IF i <= Len(a) THEN a[i] ELSE b[i - Len(a)]
    BY ConcatProperties
<1>2. Len(a) \in Nat /\ Len(b) \in Nat
    OBVIOUS
<1> HIDE DEF s
<1>3. \A i \in 1 .. Len(a) : i \in 1 .. Len(a) + Len(b) /\ i <= Len(a)
    BY <1>2
<1>4. \A i \in 1 .. Len(b) : /\ Len(a) + i \in 1 .. Len(a) + Len(b)
                             /\ ~(Len(a) + i <= Len(a)) /\ (Len(a) + i) - Len(a) = i
    BY <1>2
<1>5. /\ \A i \in 1 .. Len(a) : s[i] = a[i]
      /\ \A i \in 1 .. Len(b) : s[Len(a) + i] = b[i]
    BY <1>1, <1>3, <1>4
<1> QED BY <1>1, <1>2, <1>5 DEF s

\* Where the elements of three lists are when they are joined.
LEMMA ThreeLists ==
    ASSUME NEW D, NEW a \in Seq(D), NEW b \in Seq(D), NEW c \in Seq(D)
    PROVE  /\ a \o b \o c \in Seq(D) /\ Len(a \o b \o c) = Len(a) + Len(b) + Len(c)
           /\ \A i \in 1 .. Len(a) : (a \o b \o c)[i] = a[i]
           /\ \A i \in 1 .. Len(b) : (a \o b \o c)[Len(a) + i] = b[i]
           /\ \A i \in 1 .. Len(c) : (a \o b \o c)[Len(a) + Len(b) + i] = c[i]
           /\ Len(a) \in Nat /\ Len(b) \in Nat /\ Len(c) \in Nat
<1> DEFINE s == a \o b
           t == s \o c
<1>1. /\ s \in Seq(D) /\ Len(s) = Len(a) + Len(b)
      /\ \A i \in 1 .. Len(a) : s[i] = a[i]
      /\ \A i \in 1 .. Len(b) : s[Len(a) + i] = b[i]
      /\ Len(a) \in Nat /\ Len(b) \in Nat
    BY TwoLists
<1> HIDE DEF s
<1>2. /\ t \in Seq(D) /\ Len(t) = Len(s) + Len(c)
      /\ \A i \in 1 .. Len(s) : t[i] = s[i]
      /\ \A i \in 1 .. Len(c) : t[Len(s) + i] = c[i]
      /\ Len(s) \in Nat /\ Len(c) \in Nat
    BY <1>1, TwoLists
<1> HIDE DEF t
<1>3. \A i \in 1 .. Len(a) : i \in 1 .. Len(s) /\ t[i] = a[i]
    BY <1>1, <1>2
<1>4. \A i \in 1 .. Len(b) : Len(a) + i \in 1 .. Len(s) /\ t[Len(a) + i] = b[i]
    BY <1>1, <1>2
<1>5. \A i \in 1 .. Len(c) : t[Len(a) + Len(b) + i] = c[i]
    BY <1>1, <1>2
<1>6. Len(t) = Len(a) + Len(b) + Len(c)
    BY <1>1, <1>2
<1>7. t = a \o b \o c
    BY DEF s, t
<1> QED BY <1>1, <1>2, <1>3, <1>4, <1>5, <1>6, <1>7

\* The two orders in which the lists are saved.
Orders(u) == {u.new \o u.changed \o u.deleted, u.deleted \o u.new \o u.changed}

\* The ranges of the lists are those of the order they are saved in.
LEMMA OrderRange ==
    ASSUME NEW D, NEW u \in [Lists -> Seq(D)],
           NEW order \in Orders(u)
    PROVE  /\ order \in Seq(D) /\ DOMAIN order = 1 .. Len(order) /\ Len(order) \in Nat
           /\ \A i \in 1 .. Len(order) :
                order[i] \in Range(u.new) \cup Range(u.changed) \cup Range(u.deleted)
<1> DEFINE a == u.new
           b == u.changed
           c == u.deleted
<1>1. a \in Seq(D) /\ b \in Seq(D) /\ c \in Seq(D) /\ (order = a \o b \o c \/ order = c \o a \o b)
    BY OrderTyped DEF Orders
<1> HIDE DEF a, b, c
<1>2. /\ DOMAIN a = 1 .. Len(a) /\ Len(a) \in Nat
      /\ DOMAIN b = 1 .. Len(b) /\ Len(b) \in Nat
      /\ DOMAIN c = 1 .. Len(c) /\ Len(c) \in Nat
    BY <1>1
<1>3. order \in Seq(D) /\ DOMAIN order = 1 .. Len(order) /\ Len(order) \in Nat
    <2>1. order \in Seq(D)
        <3>1. a \o b \o c \in Seq(D) /\ c \o a \o b \in Seq(D)
            BY <1>1, ThreeLists
        <3> QED BY <1>1, <3>1
    <2> QED BY <2>1, LenProperties
<1>4. ASSUME NEW i \in 1 .. Len(order)
      PROVE  order[i] \in Range(a) \cup Range(b) \cup Range(c)
    <2>1. ASSUME NEW r \in Seq(D), NEW s \in Seq(D), NEW t \in Seq(D), order = r \o s \o t
          PROVE  \/ \E k \in 1 .. Len(r) : order[i] = r[k]
                 \/ \E k \in 1 .. Len(s) : order[i] = s[k]
                 \/ \E k \in 1 .. Len(t) : order[i] = t[k]
        <3>1. /\ Len(order) = Len(r) + Len(s) + Len(t)
              /\ \A k \in 1 .. Len(r) : order[k] = r[k]
              /\ \A k \in 1 .. Len(s) : order[Len(r) + k] = s[k]
              /\ \A k \in 1 .. Len(t) : order[Len(r) + Len(s) + k] = t[k]
              /\ Len(r) \in Nat /\ Len(s) \in Nat /\ Len(t) \in Nat
            BY <2>1, ThreeLists
        <3>2. \/ i \in 1 .. Len(r)
              \/ i - Len(r) \in 1 .. Len(s) /\ Len(r) + (i - Len(r)) = i
              \/ /\ i - Len(r) - Len(s) \in 1 .. Len(t)
                 /\ Len(r) + Len(s) + (i - Len(r) - Len(s)) = i
            BY <3>1
        <3> QED BY <3>1, <3>2
    <2>2. \/ \E k \in 1 .. Len(a) : order[i] = a[k]
          \/ \E k \in 1 .. Len(b) : order[i] = b[k]
          \/ \E k \in 1 .. Len(c) : order[i] = c[k]
        <3> DEFINE In(r) == \E k \in 1 .. Len(r) : order[i] = r[k]
        <3>0. \A r, s, t \in Seq(D) : order = r \o s \o t => In(r) \/ In(s) \/ In(t)
            BY <2>1
        <3> HIDE DEF In
        <3>1. In(a) \/ In(b) \/ In(c)
            BY <1>1, <3>0
        <3> QED BY <3>1 DEF In
    <2> QED BY <2>2, <1>2 DEF Range
<1> QED BY <1>3, <1>4 DEF a, b, c

\* What may come after the p-th model of a commit.
Followed(u, order, x, p) ==
    \A i \in (p + 1) .. Len(order) :
        \/ order[i] \in Range(u.deleted)
        \/ x \in Range(u.new) /\ order[i] \in Range(u.new) \cup Range(u.changed)
        \/ \E k, l \in DOMAIN u.changed : k < l /\ u.changed[k] = x /\ u.changed[l] = order[i]

\* What comes after a model in the order of a commit: deletions, the rest of its own list and,
\* after a new one, the changed ones.
LEMMA OrderAfter ==
    ASSUME NEW D, NEW u \in [Lists -> Seq(D)],
           NEW order \in Orders(u),
           NEW x \in Range(u.new) \cup Range(u.changed)
    PROVE  \E p \in 1 .. Len(order) : order[p] = x /\ Followed(u, order, x, p)
<1> DEFINE a == u.new
           b == u.changed
           c == u.deleted
<1>1. a \in Seq(D) /\ b \in Seq(D) /\ c \in Seq(D) /\ (order = a \o b \o c \/ order = c \o a \o b)
    BY OrderTyped DEF Orders
<1>0. \A i \in 1 .. Len(order) : order[i] \in Range(a) \cup Range(b) \cup Range(c)
    BY OrderRange
<1>9. x \in Range(a) \cup Range(b)
    OBVIOUS
<1> SUFFICES \E p \in 1 .. Len(order) :
               /\ order[p] = x
               /\ \A i \in (p + 1) .. Len(order) :
                    \/ order[i] \in Range(c)
                    \/ x \in Range(a) /\ order[i] \in Range(a) \cup Range(b)
                    \/ \E k, l \in DOMAIN b : k < l /\ b[k] = x /\ b[l] = order[i]
    BY DEF Followed
<1> HIDE DEF a, b, c
<1>2. /\ DOMAIN a = 1 .. Len(a) /\ Len(a) \in Nat
      /\ DOMAIN b = 1 .. Len(b) /\ Len(b) \in Nat
      /\ DOMAIN c = 1 .. Len(c) /\ Len(c) \in Nat
      /\ Len(order) \in Nat
    <2>1. Len(order) \in Nat
        BY OrderRange
    <2> QED BY <1>1, <2>1, LenProperties
<1>3. CASE x \in Range(a)
    <2>1. PICK k \in 1 .. Len(a) : a[k] = x
        BY <1>2, <1>3 DEF Range
    <2>2. \E p \in 1 .. Len(order) : order[p] = x
        <3>1. CASE order = a \o b \o c
            <4>1. order[k] = x /\ Len(order) = Len(a) + Len(b) + Len(c)
                BY <1>1, <2>1, <3>1, ThreeLists
            <4>2. k \in 1 .. Len(order)
                BY <1>2, <4>1
            <4> QED BY <4>1, <4>2
        <3>2. CASE order = c \o a \o b
            <4>1. order[Len(c) + k] = x /\ Len(order) = Len(c) + Len(a) + Len(b)
                BY <1>1, <2>1, <3>2, ThreeLists
            <4>2. Len(c) + k \in 1 .. Len(order)
                BY <1>2, <4>1
            <4> QED BY <4>1, <4>2
        <3> QED BY <1>1, <3>1, <3>2
    <2>3. PICK p \in 1 .. Len(order) : order[p] = x
        BY <2>2
    <2>4. \A i \in (p + 1) .. Len(order) : i \in 1 .. Len(order)
        BY <1>2
    <2> QED BY <1>0, <1>3, <2>3, <2>4
<1>4. CASE x \in Range(b)
    <2>1. PICK k \in 1 .. Len(b) : b[k] = x
        BY <1>2, <1>4 DEF Range
    <2>2. CASE order = a \o b \o c
        <3>0. /\ Len(order) = Len(a) + Len(b) + Len(c)
              /\ \A i \in 1 .. Len(b) : order[Len(a) + i] = b[i]
              /\ \A i \in 1 .. Len(c) : order[Len(a) + Len(b) + i] = c[i]
            <4> DEFINE o == a \o b \o c
            <4>1. /\ Len(o) = Len(a) + Len(b) + Len(c)
                  /\ \A i \in 1 .. Len(b) : o[Len(a) + i] = b[i]
                  /\ \A i \in 1 .. Len(c) : o[Len(a) + Len(b) + i] = c[i]
                BY <1>1, ThreeLists
            <4>2. order = o
                BY <2>2
            <4> HIDE DEF o
            <4> QED BY <4>1, <4>2
        <3>1. order[Len(a) + k] = x /\ Len(a) + k \in 1 .. Len(order)
            BY <1>2, <2>1, <3>0
        <3>2. ASSUME NEW i \in (Len(a) + k + 1) .. Len(order)
              PROVE  \/ order[i] \in Range(c)
                     \/ \E l \in 1 .. Len(b) : k < l /\ b[l] = order[i]
            <4>1. CASE i <= Len(a) + Len(b)
                <5>1. i - Len(a) \in 1 .. Len(b) /\ k < i - Len(a) /\ Len(a) + (i - Len(a)) = i
                    BY <1>2, <3>0, <4>1
                <5> QED BY <5>1, <3>0
            <4>2. CASE ~(i <= Len(a) + Len(b))
                <5>1. /\ i - Len(a) - Len(b) \in 1 .. Len(c)
                      /\ Len(a) + Len(b) + (i - Len(a) - Len(b)) = i
                    BY <1>2, <3>0, <4>2
                <5> QED BY <5>1, <3>0, <1>2 DEF Range
            <4> QED BY <4>1, <4>2
        <3> QED BY <1>2, <2>1, <3>1, <3>2
    <2>3. CASE order = c \o a \o b
        <3> DEFINE m == Len(c) + Len(a)
        <3>0. Len(order) = m + Len(b) /\ m \in Nat /\ \A i \in 1 .. Len(b) : order[m + i] = b[i]
            BY <1>1, <1>2, <2>3, ThreeLists
        <3> HIDE DEF m
        <3>1. order[m + k] = x /\ m + k \in 1 .. Len(order)
            BY <1>2, <2>1, <3>0
        <3>2. ASSUME NEW i \in (m + k + 1) .. Len(order)
              PROVE  \E l \in 1 .. Len(b) : k < l /\ b[l] = order[i]
            <4>1. i - m \in 1 .. Len(b) /\ k < i - m /\ m + (i - m) = i
                BY <1>2, <3>0
            <4> QED BY <4>1, <3>0
        <3> QED BY <1>2, <2>1, <3>1, <3>2
    <2> QED BY <1>1, <2>2, <2>3
<1> QED BY <1>3, <1>4, <1>9

---------------------------------------------------------------------------
(* What waits to be written, and what is. *)

\* A commit or a flush, and the lists it takes.
Batch(u) == \/ u = uow /\ Flush
            \/ \E e \in DOMAIN script : RunCommit(e) /\ u = Register(uow, e, StateOf(e))
            \/ \E e \in DOMAIN script : Delete(e) /\ u = Register(uow, e, "deleted")

\* The job of a commit that runs is that of its model, which is edited and not deleted.
LEMMA CommitIsOf ==
    ASSUME Types, ModelsAgree, NEW e \in DOMAIN script, RunCommit(e)
    PROVE  /\ Running(e) /\ Edited(e) /\ object[e].state = StateOf(e)
           /\ StateOf(e) \in {"new", "changed"}
           /\ Tracking(e) = Register(uow, e, StateOf(e))
<1>1. worker = [pc |-> "run", job |-> <<e, "commit">>]
    BY DEF RunCommit, Ran
<1>2. Running(e) /\ Busy /\ worker.job[1] = e
    BY <1>1 DEF Running, Busy
<1>3. Edited(e) /\ script[e].op # "delete"
    BY <1>2 DEF ModelsAgree
<1>4. object[e].state = StateOf(e)
    BY <1>3, ScriptTyped DEF ModelsAgree, Types
<1>5. StateOf(e) \in {"new", "changed"}
    BY <1>3, ScriptTyped DEF StateOf, Types
<1> QED BY <1>2, <1>3, <1>4, <1>5 DEF Tracking

\* The graph changes in a commit or a flush only, and only then do the lists lose a model.
LEMMA WriteCases ==
    ASSUME Types, Ids, ModelsAgree, [Next]_vars
    PROVE  \/ /\ db' = db
              /\ \A f \in DOMAIN script : Listed(f) \/ RunCommit(f) =>
                    f \in Range(uow'.new) \cup Range(uow'.changed)
              /\ \A f \in DOMAIN script : ~Delete(f)
           \/ \E u \in [Lists -> Seq(DOMAIN script)] : \E order \in Orders(u) : \E n \in 0 .. Len(order) :
                /\ Batch(u)
                /\ Persist(order, object', n)
                /\ n = Len(order) => uow' = NoWork
                /\ n # Len(order) => uow'.new = u.new /\ uow'.changed = u.changed
<1> DEFINE D == DOMAIN script
           Goal == \E u \in [Lists -> Seq(D)] : \E order \in Orders(u) : \E n \in 0 .. Len(order) :
                     /\ Batch(u)
                     /\ Persist(order, object', n)
                     /\ n = Len(order) => uow' = NoWork
                     /\ n # Len(order) => uow'.new = u.new /\ uow'.changed = u.changed
           Stay == /\ db' = db
                   /\ \A f \in D : Listed(f) \/ RunCommit(f) => f \in Range(uow'.new) \cup Range(uow'.changed)
                   /\ \A f \in D : ~Delete(f)
<1>0. uow \in [Lists -> Seq(D)] /\ D \subseteq Edits /\ "deleted" \in Lists
    BY ScriptTyped DEF Types, Lists
<1>1. ASSUME NEW u \in [Lists -> Seq(D)], Batch(u), Commit(u)
      PROVE  Goal
    <2> DEFINE order == u.new \o u.changed \o u.deleted
    <2>1. PICK n \in 0 .. Len(order) : /\ Persist(order, object', n)
                                       /\ uow' = IF n = Len(order) THEN NoWork ELSE u
        BY <1>1 DEF Commit
    <2>2. order \in Orders(u)
        BY DEF Orders
    <2> HIDE DEF order
    <2> QED BY <1>1, <2>1, <2>2
<1>2. ASSUME Flush
      PROVE  Goal
    <2> DEFINE order == uow.deleted \o uow.new \o uow.changed
    <2>1. PICK n \in 0 .. Len(order) :
            /\ Persist(order, object', n)
            /\ uow' = IF n = Len(order) THEN NoWork
                      ELSE IF n < Len(uow.deleted) THEN uow ELSE [uow EXCEPT !["deleted"] = << >>]
        BY <1>2 DEF Flush, Flushing
    <2>2. order \in Orders(uow) /\ Batch(uow)
        BY <1>2 DEF Orders, Batch
    <2>3. n # Len(order) => uow'.new = uow.new /\ uow'.changed = uow.changed
        <3> HIDE DEF order
        <3> QED BY <2>1, <1>0
    <2> HIDE DEF order
    <2> QED BY <1>0, <2>1, <2>2, <2>3
<1>3. ASSUME NEW e \in D, Delete(e)
      PROVE  Goal
    <2>1. Commit(Register(uow, e, "deleted")) /\ Batch(Register(uow, e, "deleted"))
        BY <1>3 DEF Delete, Batch
    <2>2. Register(uow, e, "deleted") \in [Lists -> Seq(D)]
        BY <1>0, RegisterTyped
    <2> HIDE DEF Goal, D
    <2> QED BY <2>1, <2>2, <1>1
<1>4. ASSUME NEW e \in D, RunCommit(e)
      PROVE  Goal \/ Stay
    <2> DEFINE u == Register(uow, e, StateOf(e))
    <2>1. StateOf(e) \in {"new", "changed"} /\ Tracking(e) = u /\ Running(e)
        BY <1>4, CommitIsOf
    <2>2. u \in [Lists -> Seq(D)] /\ Batch(u)
        BY <1>0, <1>4, RegisterTyped DEF Batch
    <2>3. CASE object[e].dirty
        <3>1. db' = db /\ uow' = u /\ worker.pc = "run" /\ worker.job = <<e, "commit">>
            BY <1>4, <2>1, <2>3 DEF RunCommit, Ran
        <3>2. \A f \in D : RunCommit(f) => f = e
            BY <3>1 DEF RunCommit, Ran
        <3>3. \A f \in D : Listed(f) \/ f = e => f \in Range(u.new) \cup Range(u.changed)
            <4>0. {"new", "changed"} \subseteq Lists /\ uow["new"] \in Seq(D) /\ uow["changed"] \in Seq(D)
                BY <1>0 DEF Lists
            <4>1. CASE StateOf(e) = "new"
                <5>1. /\ Register(uow, e, "new")["new"] = Append(uow["new"], e)
                      /\ \A l \in Lists : l # "new" => Register(uow, e, "new")[l] = uow[l]
                    BY <1>0, <4>0, RegisterDoes
                <5>2. u["new"] = Append(uow["new"], e) /\ u["changed"] = uow["changed"]
                    BY <5>1, <4>0, <4>1
                <5> HIDE DEF u
                <5>3. Range(u["new"]) = Range(uow["new"]) \cup {e}
                    BY <4>0, <5>2, RangeAppend
                <5> QED BY <5>2, <5>3 DEF Listed
            <4>2. CASE StateOf(e) = "changed"
                <5>1. /\ Register(uow, e, "changed")["changed"] = Append(uow["changed"], e)
                      /\ \A l \in Lists : l # "changed" => Register(uow, e, "changed")[l] = uow[l]
                    BY <1>0, <4>0, RegisterDoes
                <5>2. u["changed"] = Append(uow["changed"], e) /\ u["new"] = uow["new"]
                    BY <5>1, <4>0, <4>2
                <5> HIDE DEF u
                <5>3. Range(u["changed"]) = Range(uow["changed"]) \cup {e}
                    BY <4>0, <5>2, RangeAppend
                <5> QED BY <5>2, <5>3 DEF Listed
            <4> QED BY <2>1, <4>1, <4>2
        <3>4. \A f \in D : ~Delete(f)
            <4>1. \A f \in D : Delete(f) => worker' = worker
                BY DEF Delete
            <4>2. worker' = [worker EXCEPT !.pc = "settle"]
                BY <1>4 DEF RunCommit, Ran
            <4>3. worker' # worker
                BY <3>1, <4>2 DEF Types
            <4> QED BY <4>1, <4>3
        <3> HIDE DEF u
        <3> QED BY <3>1, <3>2, <3>3, <3>4
    <2>4. CASE ~object[e].dirty
        <3>1. Commit(u)
            BY <1>4, <2>1, <2>4 DEF RunCommit
        <3> HIDE DEF u, Goal, Stay
        <3> QED BY <2>2, <3>1, <1>1
    <2> QED BY <2>3, <2>4
<1>5. ASSUME db' = db, uow' = uow, \A f \in D : ~RunCommit(f), \A f \in D : ~Delete(f)
      PROVE  Stay
    BY <1>5 DEF Listed
<1>6. \A e \in D : Request(e) => db' = db /\ uow' = uow
    BY RequestOpens, <1>0
<1>7. \A e \in D : Refuse(e) \/ Enqueue(e) \/ Put(e) \/ Redo(e) => db' = db /\ uow' = uow
    <2>1. \A e \in D : Refuse(e) \/ Enqueue(e) \/ Put(e) => db' = db /\ uow' = uow
        BY DEF Refuse, Enqueue, Put
    <2>2. \A e \in D : Redo(e) => db' = db /\ uow' = uow
        BY DEF Redo, RunDelete, RunReconstruct
    <2> QED BY <2>1, <2>2
<1>8. ResetQueue \/ Take \/ Aside => db' = db /\ uow' = uow
    BY DEF ResetQueue, Take, Aside
<1> HIDE DEF D, Goal, Stay
<1>9. \/ \E e \in D : Delete(e) \/ RunCommit(e)
      \/ Flush
      \/ db' = db /\ uow' = uow
    BY <1>6, <1>7, <1>8, PipeCases DEF D
<1>10. Goal \/ Stay
    <2> DEFINE Some == \E e \in D : Delete(e) \/ RunCommit(e)
    <2>1. CASE Some
        BY <1>3, <1>4, <2>1
    <2>2. CASE ~Some /\ db' = db /\ uow' = uow
        <3>1. (\A f \in D : ~RunCommit(f)) /\ (\A f \in D : ~Delete(f))
            BY <2>2
        <3> QED BY <2>2, <3>1, <1>5
    <2>3. Some \/ Flush \/ (db' = db /\ uow' = uow)
        BY <1>9
    <2> HIDE DEF Some
    <2> QED BY <1>2, <2>1, <2>2, <2>3
<1> QED BY <1>10 DEF Goal, Stay, D

\* What register does to each of the lists.
LEMMA RegisterEach ==
    ASSUME NEW D, NEW u \in [Lists -> Seq(D)], NEW e \in D
    PROVE  /\ /\ Register(u, e, "new")["new"] = Append(u["new"], e)
              /\ Register(u, e, "new")["changed"] = u["changed"]
              /\ Register(u, e, "new")["deleted"] = u["deleted"]
           /\ /\ Register(u, e, "changed")["changed"] = Append(u["changed"], e)
              /\ Register(u, e, "changed")["new"] = u["new"]
              /\ Register(u, e, "changed")["deleted"] = u["deleted"]
           /\ /\ Register(u, e, "deleted")["deleted"] = Append(u["deleted"], e)
              /\ Register(u, e, "deleted")["new"] = u["new"]
              /\ Register(u, e, "deleted")["changed"] = u["changed"]
<1> DEFINE Does(state) == /\ Register(u, e, state)[state] = Append(u[state], e)
                          /\ \A l \in Lists : l # state => Register(u, e, state)[l] = u[l]
<1>1. \A state \in Lists : Does(state)
    BY RegisterDoes
<1>2. "new" \in Lists /\ "changed" \in Lists /\ "deleted" \in Lists
    BY DEF Lists
<1>3. Does("new") /\ Does("changed") /\ Does("deleted")
    <2> HIDE DEF Does
    <2> QED BY <1>1, <1>2
<1> QED BY <1>2, <1>3

\* What the lists of a commit hold: what was listed and the model of the job, one after the
\* other for each node, and the deletions.
LEMMA BatchIs ==
    ASSUME Types, ModelsAgree, InOrder, NEW u \in [Lists -> Seq(DOMAIN script)], Batch(u)
    PROVE  /\ \A f \in DOMAIN script : Listed(f) \/ RunCommit(f) => f \in Range(u.new) \cup Range(u.changed)
           /\ \A f \in Range(u.new) \cup Range(u.changed) :
                f \in DOMAIN script /\ (Listed(f) \/ Running(f)) /\ Edited(f) /\ script[f].op # "delete"
           /\ \A f \in Range(u.new) : script[f].op = "create"
           /\ \A f \in Range(u.deleted) : f \in Range(uow.deleted) \/ Delete(f)
           /\ \A k, l \in DOMAIN u.changed :
                SameNode(u.changed[k], u.changed[l]) /\ k < l => u.changed[k] < u.changed[l]
<1> DEFINE D == DOMAIN script
           Sorted(c) == \A k, l \in DOMAIN c : SameNode(c[k], c[l]) /\ k < l => c[k] < c[l]
           New(f) == script[f].op = "create"
           Open(f) == Edited(f) /\ script[f].op # "delete"
<1>0. /\ uow["new"] \in Seq(D) /\ uow["changed"] \in Seq(D) /\ uow["deleted"] \in Seq(D)
      /\ u["new"] \in Seq(D) /\ u["changed"] \in Seq(D) /\ u["deleted"] \in Seq(D)
      /\ uow \in [Lists -> Seq(D)] /\ {"new", "changed", "deleted"} \subseteq Lists
      /\ D \subseteq Edits /\ D \subseteq Nat
    BY ScriptTyped DEF Types, Lists
<1>1. \A f \in Range(uow["new"]) : f \in D /\ New(f) /\ Open(f)
    <2>1. \A i \in DOMAIN uow["new"] : Edited(uow["new"][i]) /\ StateOf(uow["new"][i]) = "new"
        BY DEF ModelsAgree, Lists
    <2>2. \A f \in Range(uow["new"]) : Edited(f) /\ StateOf(f) = "new"
        BY <2>1 DEF Range
    <2>3. \A f : StateOf(f) = "new" => script[f].op # "delete" /\ New(f)
        BY DEF StateOf
    <2> QED BY <2>2, <2>3 DEF Edited
<1>2. \A f \in Range(uow["changed"]) : f \in D /\ Open(f)
    <2>1. \A i \in DOMAIN uow["changed"] : Edited(uow["changed"][i]) /\ StateOf(uow["changed"][i]) = "changed"
        BY DEF ModelsAgree, Lists
    <2>2. \A f \in Range(uow["changed"]) : Edited(f) /\ StateOf(f) = "changed"
        BY <2>1 DEF Range
    <2>3. \A f : StateOf(f) = "changed" => script[f].op # "delete"
        BY DEF StateOf
    <2> QED BY <2>2, <2>3 DEF Edited
<1>3. Sorted(uow["changed"])
    BY DEF InOrder
<1>4. ASSUME NEW e \in D, Listed(e) \/ Running(e), Open(e),
             NEW c \in Seq(D), Sorted(c), \A i \in DOMAIN c : SameNode(c[i], e) => c[i] < e
      PROVE  Sorted(Append(c, e))
    <2>1. /\ DOMAIN c = 1 .. Len(c) /\ Len(c) \in Nat
          /\ DOMAIN Append(c, e) = 1 .. (Len(c) + 1) /\ Append(c, e)[Len(c) + 1] = e
          /\ \A i \in 1 .. Len(c) : Append(c, e)[i] = c[i]
        BY AppendProperties
    <2> DEFINE d == Append(c, e)
    <2> HIDE DEF d
    <2> SUFFICES ASSUME NEW k \in DOMAIN d, NEW l \in DOMAIN d, SameNode(d[k], d[l]), k < l
                 PROVE  d[k] < d[l]
        BY DEF d
    <2>2. k \in DOMAIN c /\ d[k] = c[k]
        BY <2>1 DEF d
    <2>3. CASE l \in DOMAIN c
        BY <1>4, <2>1, <2>2, <2>3 DEF d
    <2>4. CASE l \notin DOMAIN c
        <3>1. d[l] = e
            BY <2>1, <2>4 DEF d
        <3> QED BY <1>4, <2>2, <3>1
    <2> QED BY <2>3, <2>4
<1>5. ASSUME Flush, u = uow
      PROVE  /\ \A f \in D : Listed(f) \/ RunCommit(f) => f \in Range(u["new"]) \cup Range(u["changed"])
             /\ \A f \in Range(u["new"]) \cup Range(u["changed"]) : Listed(f)
             /\ \A f \in Range(u["new"]) : New(f)
             /\ \A f \in Range(u["deleted"]) : f \in Range(uow["deleted"])
             /\ Sorted(u["changed"])
    <2>1. \A f \in D : ~RunCommit(f)
        <3>1. worker.pc = "idle"
            BY <1>5 DEF Flush
        <3>2. \A f \in D : RunCommit(f) => worker.pc = "run"
            BY DEF RunCommit, Ran
        <3> QED BY <3>1, <3>2
    <2> QED BY <1>1, <1>3, <1>5, <2>1 DEF Listed
<1>6. ASSUME NEW e \in D, RunCommit(e), u = Register(uow, e, StateOf(e))
      PROVE  /\ \A f \in D : Listed(f) \/ RunCommit(f) => f \in Range(u["new"]) \cup Range(u["changed"])
             /\ \A f \in Range(u["new"]) \cup Range(u["changed"]) : Listed(f) \/ f = e
             /\ \A f \in Range(u["new"]) : New(f)
             /\ \A f \in Range(u["deleted"]) : f \in Range(uow["deleted"])
             /\ Sorted(u["changed"])
    <2>1. Running(e) /\ Open(e) /\ StateOf(e) \in {"new", "changed"}
        BY <1>6, CommitIsOf DEF StateOf
    <2>2. \A f \in D : RunCommit(f) => f = e
        <3>1. worker.job = <<e, "commit">>
            BY <1>6 DEF RunCommit, Ran
        <3>2. \A f \in D : RunCommit(f) => worker.job = <<f, "commit">>
            BY DEF RunCommit, Ran
        <3> QED BY <3>1, <3>2
    <2>3. CASE StateOf(e) = "new"
        <3>1. /\ Register(uow, e, "new")["new"] = Append(uow["new"], e)
              /\ Register(uow, e, "new")["changed"] = uow["changed"]
              /\ Register(uow, e, "new")["deleted"] = uow["deleted"]
            BY <1>0, RegisterEach
        <3>2. u["new"] = Append(uow["new"], e) /\ u["changed"] = uow["changed"] /\ u["deleted"] = uow["deleted"]
            BY <1>0, <1>6, <2>3, <3>1
        <3>3. Range(u["new"]) = Range(uow["new"]) \cup {e}
            BY <1>0, <3>2, RangeAppend
        <3>4. New(e)
            BY <2>3 DEF StateOf
        <3> QED BY <1>1, <1>3, <2>2, <3>2, <3>3, <3>4 DEF Listed
    <2>4. CASE StateOf(e) = "changed"
        <3>1. /\ Register(uow, e, "changed")["changed"] = Append(uow["changed"], e)
              /\ Register(uow, e, "changed")["new"] = uow["new"]
              /\ Register(uow, e, "changed")["deleted"] = uow["deleted"]
            BY <1>0, RegisterEach
        <3>2. u["changed"] = Append(uow["changed"], e) /\ u["new"] = uow["new"] /\ u["deleted"] = uow["deleted"]
            BY <1>0, <1>6, <2>4, <3>1
        <3>3. Range(u["changed"]) = Range(uow["changed"]) \cup {e}
            BY <1>0, <3>2, RangeAppend
        <3>4. \A i \in DOMAIN uow["changed"] : SameNode(uow["changed"][i], e) => uow["changed"][i] < e
            <4>1. \A i \in DOMAIN uow["changed"] : uow["changed"][i] \in D /\ Listed(uow["changed"][i])
                BY <1>2 DEF Listed, Range
            <4>2. \A f \in D : SameNode(f, e) /\ Listed(f) => f < e
                BY <2>1 DEF InOrder
            <4> QED BY <4>1, <4>2
        <3>5. Sorted(u["changed"])
            <4> HIDE DEF Sorted
            <4> QED BY <1>0, <1>3, <1>4, <2>1, <3>2, <3>4
        <3> HIDE DEF Sorted
        <3> QED BY <1>1, <2>2, <3>2, <3>3, <3>5 DEF Listed
    <2> QED BY <2>1, <2>3, <2>4
<1>7. ASSUME NEW e \in D, Delete(e), u = Register(uow, e, "deleted")
      PROVE  /\ \A f \in D : Listed(f) \/ RunCommit(f) => f \in Range(u["new"]) \cup Range(u["changed"])
             /\ \A f \in Range(u["new"]) \cup Range(u["changed"]) : Listed(f)
             /\ \A f \in Range(u["new"]) : New(f)
             /\ \A f \in Range(u["deleted"]) : f \in Range(uow["deleted"]) \/ Delete(f)
             /\ Sorted(u["changed"])
    <2>1. \A f \in D : ~RunCommit(f)
        <3>1. worker' = worker
            BY <1>7 DEF Delete
        <3>2. \A f \in D : RunCommit(f) => worker.pc = "run" /\ worker' = [worker EXCEPT !.pc = "settle"]
            BY DEF RunCommit, Ran
        <3>3. worker.pc = "run" /\ worker' = [worker EXCEPT !.pc = "settle"] => worker' # worker
            BY DEF Types
        <3> QED BY <3>1, <3>2, <3>3
    <2>2. /\ Register(uow, e, "deleted")["deleted"] = Append(uow["deleted"], e)
          /\ Register(uow, e, "deleted")["new"] = uow["new"]
          /\ Register(uow, e, "deleted")["changed"] = uow["changed"]
        BY <1>0, RegisterEach
    <2>3. u["deleted"] = Append(uow["deleted"], e) /\ u["new"] = uow["new"] /\ u["changed"] = uow["changed"]
        BY <1>0, <1>7, <2>2
    <2>4. Range(u["deleted"]) = Range(uow["deleted"]) \cup {e}
        BY <1>0, <2>3, RangeAppend
    <2> QED BY <1>1, <1>3, <1>7, <2>1, <2>3, <2>4 DEF Listed
<1>8. \A f \in D : Listed(f) \/ Running(f) => Open(f)
    <2>1. \A f \in D : Listed(f) => Open(f)
        BY <1>1, <1>2 DEF Listed
    <2>2. \A f \in D : Running(f) => Open(f)
        <3>1. Busy => Open(worker.job[1])
            BY DEF ModelsAgree
        <3>2. \A f \in D : Running(f) => Busy /\ worker.job[1] = f
            BY DEF Running, Busy
        <3> QED BY <3>1, <3>2
    <2> QED BY <2>1, <2>2
<1>9. \A f \in Range(u["new"]) \cup Range(u["changed"]) : f \in D
    BY <1>0, RangeOfSeq
<1>10. \A f \in D : RunCommit(f) => Running(f)
    BY CommitIsOf
<1> HIDE DEF Sorted, New, Open, D
<1>11. /\ \A f \in D : Listed(f) \/ RunCommit(f) => f \in Range(u["new"]) \cup Range(u["changed"])
       /\ \A f \in Range(u["new"]) \cup Range(u["changed"]) : Listed(f) \/ Running(f)
       /\ \A f \in Range(u["new"]) : New(f)
       /\ \A f \in Range(u["deleted"]) : f \in Range(uow["deleted"]) \/ Delete(f)
       /\ Sorted(u["changed"])
    <2>1. \/ u = uow /\ Flush
          \/ \E e \in D : RunCommit(e) /\ u = Register(uow, e, StateOf(e))
          \/ \E e \in D : Delete(e) /\ u = Register(uow, e, "deleted")
        BY DEF Batch, D
    <2> QED BY <2>1, <1>5, <1>6, <1>7, <1>10
<1> QED BY <1>8, <1>9, <1>11 DEF Sorted, New, Open, D

\* After a step an edited model still says what its edit asked for, once it is clean.
LEMMA ModelNext ==
    ASSUME Types, Types', Ids, ModelsAgree, ModelsAgree', [Next]_vars,
           NEW x \in DOMAIN script, Edited(x), script[x].op # "delete"
    PROVE  /\ object'[x].state \in {"new", "changed"}
           /\ ~object'[x].dirty => object'[x].words = script[x].text
           /\ object'[x] \in Models
<1>1. step'[x] # 0 /\ object'[x].state # "_" /\ script' = script
    BY EditedStays
<1>2. Edited(x)'
    BY <1>1 DEF Edited
<1>3. x \in Edits /\ object' \in [Edits -> Models]
    BY ScriptTyped DEF Types
<1>4. object'[x].state = StateOf(x)' /\ (~object'[x].dirty /\ script'[x].op # "delete" => object'[x].words = script'[x].text)
    BY <1>1, <1>2, <1>3 DEF ModelsAgree
<1>5. StateOf(x)' \in {"new", "changed"}
    BY <1>1, ScriptTyped DEF StateOf, Types
<1> QED BY <1>1, <1>3, <1>4, <1>5

\* A commit leaves the node alone of which no listed model has anything to write.
LEMMA NodeKept ==
    ASSUME Types, Types', Ids, ModelsAgree, ModelsAgree', InOrder, [Next]_vars,
           NEW u \in [Lists -> Seq(DOMAIN script)], Batch(u),
           NEW order \in Orders(u), NEW n \in 0 .. Len(order), Persist(order, object', n),
           NEW x \in Nodes,
           \A f \in Range(u.new) \cup Range(u.changed) : Node(f) = x => ~Matters(f) /\ db[x] # Gone,
           \A f \in Range(u.deleted) : Node(f) # x
    PROVE  db'[x] = db[x]
<1>0. script \in Scripts /\ db \in Graphs /\ object' \in [Edits -> Models] /\ script' = script
    BY PipeCases DEF Types
<1>1. /\ order \in Seq(DOMAIN script) /\ Len(order) \in Nat
      /\ \A i \in 1 .. Len(order) : order[i] \in Range(u.new) \cup Range(u.changed) \cup Range(u.deleted)
    BY OrderRange
<1>2. \A i \in 1 .. n : ~object'[order[i]].dirty
    BY DEF Persist
<1>3. ASSUME NEW i \in 1 .. n, Node(order[i]) = x
      PROVE  Harmless(order[i], object'[order[i]]) /\ db[x] # Gone
    <2> DEFINE f == order[i]
    <2>1. i \in 1 .. Len(order)
        BY <1>1
    <2>2. f \in Range(u.new) \cup Range(u.changed)
        BY <1>1, <1>3, <2>1
    <2>3. ~Matters(f) /\ db[x] # Gone /\ ~object'[f].dirty
        BY <1>2, <1>3, <2>2
    <2> HIDE DEF f
    <2>4. f \in DOMAIN script /\ Edited(f) /\ script[f].op # "delete"
        BY <2>2, BatchIs
    <2>5. object'[f].state \in {"new", "changed"} /\ object'[f].words = script[f].text
        BY <2>3, <2>4, ModelNext
    <2>6. Harmless(f, object'[f])
        BY <2>3, <2>4, <2>5 DEF Harmless, Matters
    <2> QED BY <2>3, <2>6 DEF f
<1>4. Written(order, object', n)[x] = db[x]
    BY <1>0, <1>1, <1>3, WrittenElsewhere
<1> QED BY <1>4 DEF Persist

\* A commit that goes through leaves at a node what the last edit says that is listed.
LEMMA NodeWritten ==
    ASSUME Types, Types', Ids, ModelsAgree, ModelsAgree', InOrder, [Next]_vars,
           NEW u \in [Lists -> Seq(DOMAIN script)], Batch(u),
           NEW order \in Orders(u), Persist(order, object', Len(order)),
           NEW e \in Range(u.new) \cup Range(u.changed), Matters(e),
           \A f \in DOMAIN script : Edited(f) /\ Matters(f) /\ SameNode(f, e) => f <= e,
           \A f \in Range(u.deleted) : ~SameNode(f, e)
    PROVE  db'[Node(e)] = script[e].text
<1>0. script \in Scripts /\ db \in Graphs /\ object' \in [Edits -> Models] /\ script' = script
      /\ DOMAIN script \subseteq Nat \ {0}
    BY PipeCases, ScriptTyped DEF Types
<1>1. /\ order \in Seq(DOMAIN script) /\ Len(order) \in Nat
      /\ \A i \in 1 .. Len(order) : order[i] \in Range(u.new) \cup Range(u.changed) \cup Range(u.deleted)
    BY OrderRange
<1>2. \A i \in 1 .. Len(order) : ~object'[order[i]].dirty
    BY <1>1 DEF Persist
<1>3. e \in DOMAIN script /\ Edited(e) /\ script[e].op # "delete" /\ Node(e) \in Nodes
    BY BatchIs, ScriptTyped, <1>0 DEF Node
<1>4. PICK p \in 1 .. Len(order) : order[p] = e /\ Followed(u, order, e, p)
    BY OrderAfter
<1>5. object'[e].state \in {"new", "changed"} /\ object'[e].words = script[e].text
    BY <1>2, <1>3, <1>4, ModelNext
<1>6. script[e].parented /\ script[e].text # Blank /\ script[e].text # Gone
    BY <1>0, <1>3, ScriptTyped, NobodyAssumption DEF Matters
<1>7. Writes(e, object'[e], script[e].text)
    BY <1>5, <1>6 DEF Writes
<1>8. ASSUME NEW i \in (p + 1) .. Len(order), Node(order[i]) = Node(e)
      PROVE  Harmless(order[i], object'[order[i]]) \/ order[i] = e
    <2> DEFINE f == order[i]
    <2>1. i \in 1 .. Len(order) /\ SameNode(f, e) /\ SameNode(e, f)
        BY <1>1, <1>8 DEF SameNode
    <2>2. f \notin Range(u.deleted) /\ f \in Range(u.new) \cup Range(u.changed) /\ ~object'[f].dirty
        BY <1>1, <1>2, <2>1
    <2>3. f \in DOMAIN script /\ Edited(f) /\ script[f].op # "delete"
        BY <2>2, BatchIs
    <2>4. CASE ~Matters(f)
        <3>1. object'[f].state \in {"new", "changed"} /\ object'[f].words = script[f].text
            BY <2>2, <2>3, ModelNext
        <3>2. Harmless(f, object'[f])
            BY <2>3, <2>4, <3>1 DEF Harmless, Matters
        <3> QED BY <3>2
    <2>5. CASE Matters(f)
        <3>1. f <= e
            BY <2>1, <2>3, <2>5
        <3>2. CASE e \in Range(u.new)
            <4>1. script[e].op = "create"
                BY <3>2, BatchIs
            <4>2. f # e => f \in 1 .. e - 1
                BY <1>0, <1>3, <2>3, <3>1
            <4>3. f \in 1 .. e - 1 => script[f].node # script[e].node
                BY <1>0, <1>3, <4>1, FreshAssumption
            <4> QED BY <2>1, <4>2, <4>3 DEF SameNode, Node
        <3>3. CASE \E k, l \in DOMAIN u.changed : k < l /\ u.changed[k] = e /\ u.changed[l] = f
            <4>1. PICK k \in DOMAIN u.changed, l \in DOMAIN u.changed : k < l /\ u.changed[k] = e /\ u.changed[l] = f
                BY <3>3
            <4>2. u.changed[k] < u.changed[l]
                BY <2>1, <4>1, BatchIs
            <4> QED BY <1>0, <1>3, <2>3, <3>1, <4>1, <4>2
        <3>4. \/ f \in Range(u.deleted)
              \/ e \in Range(u.new) /\ f \in Range(u.new) \cup Range(u.changed)
              \/ \E k, l \in DOMAIN u.changed : k < l /\ u.changed[k] = e /\ u.changed[l] = f
            BY <1>4 DEF Followed, f
        <3> QED BY <2>2, <3>2, <3>3, <3>4
    <2> QED BY <2>4, <2>5
<1>9. Written(order, object', Len(order))[Node(e)] = script[e].text
    <2> DEFINE os == object'
               v == script[e].text
    <2>1. v # Gone /\ Node(order[p]) = Node(e) /\ Writes(order[p], os[order[p]], v)
        BY <1>4, <1>6, <1>7
    <2>2. \A i \in (p + 1) .. Len(order) : Node(order[i]) = Node(e) =>
               Harmless(order[i], os[order[i]]) \/ order[i] = order[p]
        BY <1>4, <1>8
    <2>3. os \in [Edits -> Models]
        BY <1>0
    <2> HIDE DEF os, v
    <2>4. Node(e) \in Nodes /\ p \in 1 .. Len(order) /\ order \in Seq(DOMAIN script)
          /\ script \in Scripts /\ db \in Graphs
        BY <1>0, <1>1, <1>3
    <2>5. Written(order, os, Len(order))[Node(e)] = v
        BY <2>1, <2>2, <2>3, <2>4, WrittenLast
    <2> QED BY <2>5 DEF os, v
<1> QED BY <1>9 DEF Persist

\* Ahead, in the words of the queue.
LEMMA AheadIs ==
    ASSUME Types, NEW e \in DOMAIN script
    PROVE  Ahead(e) <=> Making(e) \/ Queuing(e) \/ Running(e)
<1>1. worker = [pc |-> "run", job |-> <<e, "commit">>] <=> worker.pc = "run" /\ worker.job = <<e, "commit">>
    <2>1. worker \in [pc : Pcs, job : Asked \cup {NoJob}]
        BY DEF Types
    <2>2. worker = [pc |-> worker.pc, job |-> worker.job]
        BY <2>1
    <2> HIDE DEF Types
    <2> QED BY <2>2
<1> QED BY <1>1 DEF Ahead, Making, Queuing, Running

\* The edits on their way after a step.
LEMMA WaitingNext ==
    ASSUME Types, Types', Ids, Ids', ModelsAgree, [Next]_vars
    PROVE  \A f \in DOMAIN script : Waiting(f)' => Waiting(f) \/ Request(f)
<1> SUFFICES ASSUME NEW f \in DOMAIN script, Waiting(f)'
             PROVE  Waiting(f) \/ Request(f)
    OBVIOUS
<1>0. step \in [Edits -> 0 .. 7] /\ DOMAIN script \subseteq Edits
    BY ScriptTyped DEF Types
<1>1. \/ step'[f] \in 1 .. 6
      \/ <<f, "commit">> \in Range(queue')
      \/ worker'.pc = "run" /\ worker'.job = <<f, "commit">>
      \/ f \in Range(uow'.new) \cup Range(uow'.changed)
    BY DEF Waiting, Making, Queuing, Running, Listed
<1>2. CASE step'[f] \in 1 .. 6
    <2>1. CASE step' = step
        BY <1>2, <2>1 DEF Waiting, Making
    <2>2. ASSUME NEW e \in DOMAIN script, Request(e), step' = [step EXCEPT ![e] = 1]
          PROVE  Waiting(f) \/ Request(f)
        <3>1. CASE e = f
            BY <2>2, <3>1
        <3>2. CASE e # f
            BY <1>0, <1>2, <2>2, <3>2 DEF Waiting, Making
        <3> QED BY <3>1, <3>2
    <2>3. ASSUME NEW e \in DOMAIN script, step' = [step EXCEPT ![e] = 7]
          PROVE  Waiting(f)
        BY <1>0, <1>2, <2>3 DEF Waiting, Making
    <2>4. ASSUME NEW e \in DOMAIN script, step[e] \in 1 .. 6, step' = [step EXCEPT ![e] = @ + 1]
          PROVE  Waiting(f)
        BY <1>0, <1>2, <2>4 DEF Waiting, Making
    <2> QED BY <2>1, <2>2, <2>3, <2>4, StepNext
<1>3. CASE <<f, "commit">> \in Range(queue')
    <2>1. Queuing(f) \/ step[f] = 6
        BY <1>3, QueuingNext
    <2> QED BY <2>1 DEF Waiting, Making
<1>4. CASE worker'.pc = "run" /\ worker'.job = <<f, "commit">>
    <2>1. Running(f) \/ (queue # << >> /\ Head(queue) = <<f, "commit">>)
        BY <1>4, QueuingNext
    <2>2. queue # << >> => Head(queue) \in Range(queue)
        BY NamedJobs, RangeTail
    <2> QED BY <2>1, <2>2 DEF Waiting, Queuing
<1>5. CASE f \in Range(uow'.new) \cup Range(uow'.changed)
    <2>1. Listed(f) \/ Running(f)
        BY <1>5, ListedNext DEF Running
    <2> QED BY <2>1 DEF Waiting
<1> QED BY <1>1, <1>2, <1>3, <1>4, <1>5

\* Only deletes and shutdowns overtake.
LEMMA OvertakenGrows ==
    ASSUME Types, [Next]_vars
    PROVE  /\ overtaken \subseteq overtaken'
           /\ overtaken' = overtaken \/ ResetQueue \/ \E e \in DOMAIN script : Delete(e)
<1>0. DOMAIN script \subseteq Edits
    BY ScriptTyped DEF Types
<1>1. \A e \in DOMAIN script : Request(e) => overtaken' = overtaken
    BY <1>0, RequestOpens
<1>2. \A e \in DOMAIN script : Refuse(e) \/ Enqueue(e) \/ Put(e) \/ RunCommit(e) => overtaken' = overtaken
    BY DEF Refuse, Enqueue, Put, RunCommit, Ran, History
<1>3. \A e \in DOMAIN script : Redo(e) => overtaken' = overtaken
    BY DEF Redo, RunDelete, RunReconstruct, Ran, History
<1>4. Take \/ Flush \/ Aside => overtaken' = overtaken
    BY DEF Take, Flush, Aside, History
<1>5. ResetQueue => overtaken \subseteq overtaken'
    BY DEF ResetQueue
<1>6. \A e \in DOMAIN script : Delete(e) => overtaken \subseteq overtaken'
    BY DEF Delete
<1> QED BY <1>1, <1>2, <1>3, <1>4, <1>5, <1>6, PipeCases

\* An edit stops being on its way in one manner, unless it is overtaken: a commit or a flush
\* that goes through has written its model.
LEMMA WaitingEnds ==
    ASSUME Types, Types', Ids, Ids', ModelsAgree, InOrder, Lasting, [Next]_vars,
           NEW f \in DOMAIN script, Node(f) \notin overtaken', Waiting(f), ~Waiting(f)'
    PROVE  /\ Listed(f) \/ RunCommit(f)
           /\ \E u \in [Lists -> Seq(DOMAIN script)] : \E order \in Orders(u) :
                /\ Batch(u)
                /\ Persist(order, object', Len(order))
                /\ uow' = NoWork
                /\ f \in Range(u.new) \cup Range(u.changed)
<1> DEFINE j == <<f, "commit">>
<1>0. step \in [Edits -> 0 .. 7] /\ DOMAIN script \subseteq Edits /\ overtaken \subseteq overtaken'
      /\ queue \in Seq(Jobs)
    BY ScriptTyped, OvertakenGrows, NamedJobs DEF Types
<1>1. /\ step'[f] \notin 1 .. 6
      /\ j \notin Range(queue')
      /\ ~(worker'.pc = "run" /\ worker'.job = j)
      /\ f \notin Range(uow'.new) \cup Range(uow'.changed)
    BY DEF Waiting, Making, Queuing, Running, Listed
<1>11. j \in Jobs /\ j[1] = f /\ j[2] = "commit" /\ Slot(j) = 3
    BY <1>0, JobsAre DEF Slot
<1> HIDE DEF j
<1>2. ~Making(f)
    <2> SUFFICES ASSUME Making(f)
                 PROVE  FALSE
        OBVIOUS
    <2>1. step[f] \in 1 .. 6
        BY DEF Making
    <2>2. CASE step' = step
        BY <1>1, <2>1, <2>2
    <2>3. ASSUME NEW e \in DOMAIN script, step[e] = 0,
                 step' = [step EXCEPT ![e] = 1] \/ step' = [step EXCEPT ![e] = 7]
          PROVE  FALSE
        BY <1>0, <1>1, <2>1, <2>3
    <2>4. ASSUME NEW e \in DOMAIN script, Enqueue(e) \/ Put(e), step[e] \in 1 .. 6,
                 step' = [step EXCEPT ![e] = @ + 1]
          PROVE  FALSE
        <3>1. e = f /\ step[f] = 6
            BY <1>0, <1>1, <2>1, <2>4
        <3>2. Put(f)
            BY <2>4, <3>1 DEF Enqueue
        <3>3. queue' = Append(queue, <<f, KindAt(6)>>) /\ KindAt(6) = "commit"
            BY <3>1, <3>2, KindTyped DEF Put
        <3>4. queue' = Append(queue, j)
            BY <3>3 DEF j
        <3>5. Range(queue') = Range(queue) \cup {j}
            BY <1>0, <1>11, <3>4, RangeAppend
        <3> QED BY <1>1, <3>5
    <2> QED BY <2>2, <2>3, <2>4, StepNext
<1>3. ~Queuing(f)
    <2> SUFFICES ASSUME Queuing(f)
                 PROVE  FALSE
        OBVIOUS
    <2>1. j \in Range(queue)
        BY DEF Queuing, j
    <2>2. j \in jobs /\ status[j] = "queued"
        <3>1. j \in jobs
            BY <1>0 DEF Lasting, CommitsAreKnown, j
        <3>2. status[j] = "queued"
            BY <1>11, <2>1 DEF Ids
        <3> QED BY <3>1, <3>2
    <2>3. CASE Take
        <3>1. queue # << >> /\ queue' = Tail(queue)
            BY <2>3 DEF Take
        <3>2. Range(queue) = Range(queue') \cup {Head(queue)}
            BY <1>0, <3>1, RangeTail
        <3>3. Head(queue) = j
            BY <1>1, <2>1, <3>2
        <3>4. worker' = [pc |-> "run", job |-> j]
            BY <2>2, <2>3, <3>3 DEF Take
        <3> QED BY <1>1, <3>4
    <2>4. ASSUME NEW e \in DOMAIN script, Put(e)
          PROVE  FALSE
        <3>1. queue' = Append(queue, <<e, KindAt(step[e])>>) /\ step[e] \in 1 .. 6
            BY <2>4 DEF Put
        <3>2. <<e, KindAt(step[e])>> \in Jobs
            BY <1>0, <3>1, KindTyped, JobsAre
        <3>3. Range(queue') = Range(queue) \cup {<<e, KindAt(step[e])>>}
            BY <1>0, <3>1, <3>2, RangeAppend
        <3> QED BY <1>1, <2>1, <3>3
    <2>5. queue' # queue
        BY <1>1, <2>1
    <2>6. \A e \in DOMAIN script : Request(e) => queue' = queue
        BY <1>0, RequestOpens DEF Queued
    <2>7. \A e \in DOMAIN script : Refuse(e) \/ Delete(e) \/ Enqueue(e) \/ Redo(e) \/ RunCommit(e) => queue' = queue
        BY DEF Refuse, Delete, Enqueue, Queued, Redo, RunDelete, RunReconstruct, RunCommit, Ran
    <2>8. ResetQueue \/ Flush \/ Aside => queue' = queue
        BY DEF ResetQueue, Flush, Aside, Queued
    <2> QED BY <2>3, <2>4, <2>5, <2>6, <2>7, <2>8, PipeCases
<1>4. Running(f) => RunCommit(f)
    <2> SUFFICES ASSUME Running(f), ~RunCommit(f)
                 PROVE  FALSE
        OBVIOUS
    <2>1. worker.pc = "run" /\ worker.job = j /\ worker' # worker
        BY <1>1 DEF Running, j
    <2>2. \A e \in DOMAIN script : ~RunCommit(e) /\ ~Redo(e)
        <3>1. \A e \in DOMAIN script : RunCommit(e) => worker.job = <<e, "commit">>
            BY DEF RunCommit, Ran
        <3>2. \A e \in DOMAIN script : Redo(e) => worker.job = <<e, "delete">> \/ worker.job = <<e, "reconstruct">>
            BY DEF Redo, RunDelete, RunReconstruct, Ran
        <3> QED BY <2>1, <3>1, <3>2 DEF j
    <2>3. \A e \in DOMAIN script : Request(e) => worker' = worker
        BY <1>0, RequestOpens
    <2>4. \A e \in DOMAIN script : Refuse(e) \/ Delete(e) \/ Enqueue(e) \/ Put(e) => worker' = worker
        BY DEF Refuse, Delete, Enqueue, Put
    <2>5. ResetQueue \/ Aside => worker' = worker \/ worker.pc # "run"
        BY DEF ResetQueue, Aside
    <2>6. Take \/ Flush => worker.pc # "run"
        BY DEF Take, Flush
    <2> QED BY <2>1, <2>2, <2>3, <2>4, <2>5, <2>6, PipeCases
<1>5. Listed(f) \/ RunCommit(f)
    BY <1>2, <1>3, <1>4 DEF Waiting
<1>6. ~(\A g \in DOMAIN script : Listed(g) \/ RunCommit(g) => g \in Range(uow'.new) \cup Range(uow'.changed))
    BY <1>1, <1>5
<1>7. PICK u \in [Lists -> Seq(DOMAIN script)] : \E order \in Orders(u) : \E n \in 0 .. Len(order) :
                /\ Batch(u)
                /\ Persist(order, object', n)
                /\ n = Len(order) => uow' = NoWork
                /\ n # Len(order) => uow'.new = u.new /\ uow'.changed = u.changed
    BY <1>6, WriteCases
<1>8. PICK order \in Orders(u) : \E n \in 0 .. Len(order) :
                /\ Batch(u)
                /\ Persist(order, object', n)
                /\ n = Len(order) => uow' = NoWork
                /\ n # Len(order) => uow'.new = u.new /\ uow'.changed = u.changed
    BY <1>7
<1>9. PICK n \in 0 .. Len(order) :
                /\ Batch(u)
                /\ Persist(order, object', n)
                /\ n = Len(order) => uow' = NoWork
                /\ n # Len(order) => uow'.new = u.new /\ uow'.changed = u.changed
    BY <1>8
<1>10. f \in Range(u.new) \cup Range(u.changed)
    BY <1>5, <1>9, BatchIs
<1>12. n = Len(order)
    BY <1>1, <1>9, <1>10
<1> QED BY <1>5, <1>9, <1>10, <1>12

\* The last edits after a step.
LEMMA LastNext ==
    ASSUME Types, [Next]_vars
    PROVE  \/ last' = last
           \/ \E e \in DOMAIN script : /\ Request(e) \/ Delete(e)
                                       /\ Matters(e)
                                       /\ last' = [last EXCEPT ![Node(e)] = e]
<1>0. DOMAIN script \subseteq Edits
    BY ScriptTyped DEF Types
<1>1. \A e \in DOMAIN script : Request(e) => last' = last \/ (Matters(e) /\ last' = [last EXCEPT ![Node(e)] = e])
    BY <1>0, RequestOpens
<1>2. \A e \in DOMAIN script : Delete(e) => Matters(e) /\ last' = [last EXCEPT ![Node(e)] = e]
    BY DEF Delete, Turn, Matters
<1>3. \A e \in DOMAIN script : Refuse(e) \/ Enqueue(e) \/ Put(e) => last' = last
    BY DEF Refuse, Enqueue, Put, History
<1>4. \A e \in DOMAIN script : Redo(e) \/ RunCommit(e) => last' = last
    BY DEF Redo, RunDelete, RunReconstruct, RunCommit, Ran, History
<1>5. ResetQueue \/ Take \/ Flush \/ Aside => last' = last
    BY DEF ResetQueue, Take, Flush, Aside, History
<1> QED BY <1>1, <1>2, <1>3, <1>4, <1>5, PipeCases

\* A request or a delete begins an edit that has no object, after all those of its node that
\* have one, and leaves it with one.
LEMMA EditBegins ==
    ASSUME Types, Types', Ids, ModelsAgree, ModelsAgree', InOrder, [Next]_vars,
           NEW e \in DOMAIN script, Request(e) \/ Delete(e)
    PROVE  /\ step[e] = 0 /\ step' \in {[step EXCEPT ![e] = 1], [step EXCEPT ![e] = 7]}
           /\ ~Edited(e) /\ step'[e] # 0 /\ object'[e].state # "_"
           /\ \A f \in DOMAIN script : SameNode(f, e) /\ step[f] # 0 => f < e
<1>0. e \in Edits /\ step \in [Edits -> 0 .. 7] /\ DOMAIN script \subseteq Edits /\ script \in Scripts
      /\ object \in [Edits -> Models]
    BY ScriptTyped DEF Types
<1>3. \A f \in DOMAIN script : SameNode(f, e) /\ step[e] = 0 => step[f] = 0 \/ f < e
    BY DEF InOrder
<1>1. CASE Request(e)
    <2>1. step[e] = 0 /\ step' = [step EXCEPT ![e] = 1]
        BY <1>0, <1>1, RequestOpens
    <2>2. PICK o \in Models : object' = [object EXCEPT ![e] = o] /\ o.state = StateOf(e)
        BY <1>0, <1>1, RequestOpens
    <2>3. object'[e].state # "_"
        BY <1>0, <2>2 DEF StateOf
    <2>4. ~Edited(e) /\ step'[e] # 0
        BY <1>0, <2>1 DEF Edited
    <2> QED BY <1>3, <2>1, <2>3, <2>4
<1>2. CASE Delete(e)
    <2>1. step[e] = 0 /\ step' = [step EXCEPT ![e] = 7] /\ object' = [object EXCEPT ![e].state = "deleted"]
        BY <1>2 DEF Delete, Turn
    <2>2. object'[e].state # "_"
        BY <1>0, <2>1 DEF Models
    <2> QED BY <1>0, <1>3, <2>1, <2>2 DEF Edited
<1> QED BY <1>1, <1>2

\* Only those two begin one.
LEMMA EditedNext ==
    ASSUME Types, Types', Ids, ModelsAgree, ModelsAgree', [Next]_vars,
           NEW f \in DOMAIN script, step'[f] # 0, object'[f].state # "_", ~Edited(f)
    PROVE  Request(f) \/ Delete(f)
<1>0. f \in Edits /\ step \in [Edits -> 0 .. 7] /\ DOMAIN script \subseteq Edits
    BY ScriptTyped DEF Types
<1>1. step[f] = 0 /\ object[f].state = "_"
    <2>1. step[f] = 0 => object[f] = NoObject
        BY <1>0 DEF ModelsAgree
    <2>2. step[f] # 0 => object'[f].state = object[f].state
        BY <1>0, ModelFrame
    <2>3. step[f] = 0
        BY <2>2 DEF Edited
    <2>4. NoObject.state = "_"
        BY DEF NoObject
    <2> QED BY <2>1, <2>3, <2>4
<1>2. ASSUME NEW e \in DOMAIN script, Refuse(e) \/ Delete(e), step' = [step EXCEPT ![e] = 7]
      PROVE  Delete(f)
    <2>1. e = f
        BY <1>0, <1>1, <1>2
    <2>2. Refuse(e) => object' = object
        BY DEF Refuse
    <2> QED BY <1>1, <1>2, <2>1, <2>2
<1> QED BY <1>0, <1>1, <1>2, StepNext

\* What is on its way has an object and is not a deletion.
LEMMA WaitingEdited ==
    ASSUME Types, ModelsAgree, NEW f \in DOMAIN script, Waiting(f)
    PROVE  Edited(f) /\ script[f].op # "delete" /\ step[f] # 0
<1>0. f \in Edits /\ script \in Scripts
    BY ScriptTyped DEF Types
<1>1. Making(f) => Edited(f) /\ script[f].op # "delete"
    BY <1>0 DEF Making, ModelsAgree
<1>2. Queuing(f) => Edited(f) /\ script[f].op # "delete"
    BY DEF Queuing, ModelsAgree
<1>3. Running(f) => Edited(f) /\ script[f].op # "delete"
    BY DEF Running, ModelsAgree, Busy
<1>4. Listed(f) => Edited(f) /\ script[f].op # "delete"
    <2>1. \A l \in {"new", "changed"} : \A i \in DOMAIN uow[l] : Edited(uow[l][i]) /\ StateOf(uow[l][i]) = l
        BY DEF ModelsAgree, Lists
    <2>2. Listed(f) => Edited(f) /\ StateOf(f) \in {"new", "changed"}
        BY <2>1 DEF Listed, Range
    <2> QED BY <1>0, <2>2, ScriptTyped DEF StateOf
<1> QED BY <1>1, <1>2, <1>3, <1>4 DEF Waiting, Edited

\* No edit is the last at first.
LEMMA LastingInit == Init => Lasting
<1> SUFFICES ASSUME Init
             PROVE  Lasting
    OBVIOUS
<1>1. script \in Scripts /\ DOMAIN script \subseteq Edits
    BY ScriptTyped DEF Init
<1>2. \A e \in DOMAIN script : step[e] = 0 /\ ~Edited(e)
    BY <1>1 DEF Init, Edited
<1>3. \A l \in Lists : uow[l] = << >> /\ DOMAIN uow[l] = {}
    BY EmptySeq DEF Init, NoWork
<1>4. Range(queue) = {} /\ worker.pc # "run"
    BY EmptySeq DEF Init, Range, Asleep
<1>5. \A e \in DOMAIN script : ~Waiting(e) /\ ~Queuing(e)
    BY <1>2, <1>3, <1>4 DEF Waiting, Making, Queuing, Running, Listed, Range, Lists
<1>6. \A n \in Nodes : last[n] = 0
    BY DEF Init
<1> QED BY <1>2, <1>3, <1>5, <1>6
       DEF Lasting, LastIsOne, LastIsLatest, DeletionsOvertake, LastIsBehind, LastArrives,
           CommitsAreKnown, Lists

\* Waiting, after a step.
WaitsNext(g) == \/ step'[g] \in 1 .. 6
                \/ <<g, "commit">> \in Range(queue')
                \/ worker'.pc = "run" /\ worker'.job = <<g, "commit">>
                \/ g \in Range(uow'.new) \cup Range(uow'.changed)

\* What last says of a node after a step: as before, or the edit that begins.
LEMMA LastAt ==
    ASSUME Types, [Next]_vars, NEW n \in Nodes
    PROVE  \/ last'[n] = last[n]
           \/ \E e \in DOMAIN script : /\ Request(e) \/ Delete(e)
                                       /\ Matters(e) /\ Node(e) = n /\ last'[n] = e
<1>1. last \in [Nodes -> Edits \cup {0}]
    BY DEF Types
<1> QED BY <1>1, LastNext

\* The first two parts.
LEMMA LastIsOneStep ==
    ASSUME Types, Types', Ids, ModelsAgree, ModelsAgree', InOrder, Lasting, [Next]_vars
    PROVE  LastIsOne' /\ LastIsLatest'
<1> DEFINE Has(e) == e \in DOMAIN script /\ step'[e] # 0 /\ object'[e].state # "_"
<1>0. /\ script' = script /\ script \in Scripts /\ DOMAIN script \subseteq Nat
      /\ last' \in [Nodes -> Edits \cup {0}] /\ last \in [Nodes -> Edits \cup {0}] /\ Edits \subseteq Nat
    BY ScriptTyped, PipeCases DEF Types
<1>1. \A e \in DOMAIN script : Edited(e) => Has(e)
    BY EditedStays
<1>2. \A e \in DOMAIN script : Request(e) \/ Delete(e) => Has(e)
    BY EditBegins
<1>3. \A e \in DOMAIN script : Has(e) => Edited(e) \/ Request(e) \/ Delete(e)
    BY EditedNext
<1>4. \A e, f \in DOMAIN script : (Request(e) \/ Delete(e)) /\ SameNode(f, e) /\ Edited(f) => f < e
    BY EditBegins DEF Edited
<1>5. \A e \in DOMAIN script : Node(e) \in Nodes
    BY <1>0, ScriptTyped DEF Node
<1>6. ASSUME NEW n \in Nodes, last'[n] # 0
      PROVE  last'[n] \in DOMAIN script /\ Node(last'[n]) = n /\ Matters(last'[n]) /\ Has(last'[n])
    <2>1. CASE last'[n] = last[n]
        <3>1. last[n] \in DOMAIN script /\ Node(last[n]) = n /\ Matters(last[n]) /\ Edited(last[n])
            BY <1>6, <2>1 DEF Lasting, LastIsOne
        <3> HIDE DEF Has
        <3> QED BY <1>1, <2>1, <3>1
    <2>2. ASSUME NEW e \in DOMAIN script, Request(e) \/ Delete(e), Matters(e), Node(e) = n, last'[n] = e
          PROVE  last'[n] \in DOMAIN script /\ Node(last'[n]) = n /\ Matters(last'[n]) /\ Has(last'[n])
        <3> HIDE DEF Has
        <3> QED BY <1>2, <2>2
    <2> HIDE DEF Has
    <2> QED BY <2>1, <2>2, LastAt
<1>7. ASSUME NEW e \in DOMAIN script, Has(e), Matters(e)
      PROVE  e <= last'[Node(e)]
    <2>1. PICK n \in Nodes : n = Node(e)
        BY <1>5
    <2>2. Edited(e) \/ Request(e) \/ Delete(e)
        BY <1>3, <1>7
    <2>3. Edited(e) => e <= last[n]
        BY <1>7, <2>1 DEF Lasting, LastIsLatest
    <2>4. CASE last'[n] = last[n]
        <3>1. Edited(e)
            <4> SUFFICES ASSUME ~Edited(e)
                         PROVE  FALSE
                OBVIOUS
            <4>1. Request(e) => last' = [last EXCEPT ![n] = e]
                BY <1>7, <2>1, RequestOpens, ScriptTyped, <1>0
            <4>2. Delete(e) => last' = [last EXCEPT ![n] = e]
                BY <2>1 DEF Delete
            <4>3. last[n] = e
                BY <1>0, <2>2, <2>4, <4>1, <4>2
            <4>4. e # 0
                BY <1>0, ScriptTyped
            <4> QED BY <4>3, <4>4 DEF Lasting, LastIsOne
        <3> QED BY <2>1, <2>3, <2>4, <3>1
    <2>5. ASSUME NEW g \in DOMAIN script, Request(g) \/ Delete(g), Node(g) = n, last'[n] = g
          PROVE  e <= last'[n]
        <3>1. SameNode(e, g)
            BY <2>1, <2>5 DEF SameNode
        <3>2. Edited(e) => e < g
            BY <1>4, <2>5, <3>1
        <3>3. ~Edited(e) => e = g
            <4> SUFFICES ASSUME ~Edited(e), e # g
                         PROVE  FALSE
                OBVIOUS
            <4>1. step[e] = 0 /\ step'[e] # 0 /\ step[g] = 0 /\ step'[g] # 0
                BY <2>2, <2>5, EditBegins
            <4>2. step' \in {[step EXCEPT ![g] = 1], [step EXCEPT ![g] = 7]}
                BY <2>5, EditBegins
            <4>3. step \in [Edits -> 0 .. 7] /\ e \in Edits /\ g \in Edits
                BY <1>0, ScriptTyped DEF Types
            <4> QED BY <4>1, <4>2, <4>3
        <3> QED BY <1>0, <2>5, <3>2, <3>3
    <2>6. last'[n] = last[n] \/ \E g \in DOMAIN script : (Request(g) \/ Delete(g)) /\ Node(g) = n /\ last'[n] = g
        BY LastAt
    <2> QED BY <2>1, <2>4, <2>5, <2>6
<1>8. LastIsOne'
    BY <1>0, <1>6 DEF LastIsOne, Edited, Matters, Node
<1>9. LastIsLatest'
    <2>1. \A e \in DOMAIN script : Has(e) /\ Matters(e) => e <= last'[Node(e)]
        BY <1>7
    <2> QED BY <1>0, <2>1 DEF LastIsLatest, Edited, Matters, Node
<1> QED BY <1>8, <1>9

\* A list that has been added to is not empty.
LEMMA AppendIsSome ==
    ASSUME NEW S, NEW q \in Seq(S), NEW x \in S
    PROVE  Append(q, x) # << >>
<1>1. Len(Append(q, x)) = Len(q) + 1 /\ Len(q) \in Nat
    BY AppendProperties
<1>2. Len(<< >>) = 0
    OBVIOUS
<1> QED BY <1>1, <1>2

\* The third part: a deletion that stays in the lists has gone past something.
LEMMA DeletionsStep ==
    ASSUME Types, Types', Ids, ModelsAgree, Lasting, [Next]_vars
    PROVE  DeletionsOvertake'
<1> DEFINE D == DOMAIN script
           Over(s) == \A i \in DOMAIN s : Node(s[i]) \in overtaken'
<1>0. /\ script' = script /\ overtaken \subseteq overtaken'
      /\ uow \in [Lists -> Seq(D)] /\ {"new", "changed", "deleted"} \subseteq Lists
      /\ uow["deleted"] \in Seq(D)
    BY PipeCases, OvertakenGrows DEF Types, Lists
<1>1. Over(uow["deleted"])
    BY <1>0 DEF Lasting, DeletionsOvertake
<1>2. Over(<< >>)
    OBVIOUS
<1>3. CASE ListsAre(uow')
    <2>1. uow'["deleted"] \in {uow["deleted"], << >>}
        BY <1>0, <1>3 DEF ListsAre, NoWork
    <2> HIDE DEF Over
    <2> QED BY <1>0, <1>1, <1>2, <2>1 DEF DeletionsOvertake, Over, Node
<1>4. ASSUME NEW e \in D, RunCommit(e), uow' = Register(uow, e, StateOf(e))
      PROVE  Over(uow'["deleted"])
    <2>1. StateOf(e) \in {"new", "changed"}
        BY <1>4, CommitIsOf
    <2>2. /\ Register(uow, e, "new")["deleted"] = uow["deleted"]
          /\ Register(uow, e, "changed")["deleted"] = uow["deleted"]
        BY <1>0, RegisterEach
    <2>3. uow'["deleted"] = uow["deleted"]
        BY <1>4, <2>1, <2>2
    <2> HIDE DEF Over
    <2> QED BY <1>1, <2>3
<1>5. ASSUME NEW e \in D, Delete(e), uow' = Register(uow, e, "deleted")
      PROVE  Over(uow'["deleted"])
    <2>1. uow'["deleted"] = Append(uow["deleted"], e)
        BY <1>0, <1>5, RegisterEach
    <2>2. uow'["deleted"] # << >>
        <3>1. Append(uow["deleted"], e) # << >>
            BY <1>0, AppendIsSome
        <3> QED BY <2>1, <3>1
    <2>3. uow' # NoWork
        BY <1>0, <2>2 DEF NoWork
    <2>4. Node(e) \in overtaken'
        BY <1>5, <2>3 DEF Delete
    <2>5. Range(uow'["deleted"]) = Range(uow["deleted"]) \cup {e}
        BY <1>0, <2>1, RangeAppend
    <2> QED BY <1>1, <2>4, <2>5 DEF Range
<1> HIDE DEF Over
<1>6. Over(uow'["deleted"]) \/ DeletionsOvertake'
    BY <1>3, <1>4, <1>5, ListCases
<1> QED BY <1>0, <1>6 DEF Over, DeletionsOvertake, Node

\* The fourth part: what is on its way after a step has the last edit of its node behind it, or
\* none that is a deletion.
LEMMA BehindKept ==
    ASSUME Types, Types', Ids, Ids', ModelsAgree, ModelsAgree', InOrder, Lasting, [Next]_vars,
           NEW f \in DOMAIN script, NEW n \in Nodes, Node(f) = n, n \notin overtaken',
           WaitsNext(f), last'[n] = last[n]
    PROVE  /\ Matters(f) => WaitsNext(last'[n])
           /\ last'[n] # 0 => script[last'[n]].op # "delete"
<1> DEFINE L == last[n]
<1>0. /\ script' = script /\ script \in Scripts /\ DOMAIN script \subseteq Nat \ {0}
      /\ n \notin overtaken /\ DOMAIN script \subseteq Edits
      /\ last \in [Nodes -> Edits \cup {0}]
    BY ScriptTyped, PipeCases, OvertakenGrows DEF Types
<1>1. Waiting(f) \/ Request(f)
    <2>1. Waiting(f)'
        BY DEF WaitsNext, Waiting, Making, Queuing, Running, Listed
    <2> QED BY <2>1, WaitingNext
<1>2. CASE Waiting(f)
    <2>1. /\ Matters(f) => Waiting(L)
          /\ L # 0 => script[L].op # "delete"
        BY <1>0, <1>2 DEF Lasting, LastIsBehind
    <2>2. Edited(f) /\ step[f] # 0
        BY <1>2, WaitingEdited
    <2>3. ASSUME Matters(f), ~WaitsNext(L)
          PROVE  FALSE
        <3>1. f <= L /\ L # 0
            BY <1>0, <2>2, <2>3 DEF Lasting, LastIsLatest
        <3>2. L \in DOMAIN script /\ Node(L) = n
            BY <3>1 DEF Lasting, LastIsOne
        <3>11. PICK g \in DOMAIN script : g = L
            BY <3>2
        <3>3. Waiting(g) /\ SameNode(g, f) /\ Node(g) = n
            BY <2>1, <2>3, <3>2, <3>11 DEF SameNode
        <3>4. ~Waiting(g)'
            BY <2>3, <3>11 DEF WaitsNext, Waiting, Making, Queuing, Running, Listed
        <3>5. (Listed(g) \/ RunCommit(g)) /\ uow' = NoWork
            BY <1>0, <3>3, <3>4, WaitingEnds
        <3>6. f \notin Range(uow'.new) \cup Range(uow'.changed)
            BY <3>5, EmptySeq DEF NoWork, Lists, Range
        <3>7. Making(f) \/ Queuing(f) \/ Running(f)
            <4>1. ~Request(f)
                <5>1. Request(f) => step[f] = 0
                    BY <1>0, RequestOpens
                <5> QED BY <2>2, <5>1
            <4>2. step'[f] \in 1 .. 6 => Making(f)
                BY <4>1, <2>2, <1>0, StepNext DEF Making, Types
            <4>3. <<f, "commit">> \in Range(queue') => Queuing(f) \/ Making(f)
                BY QueuingNext DEF Making
            <4>4. worker'.pc = "run" /\ worker'.job = <<f, "commit">> => Running(f) \/ Queuing(f)
                <5>1. queue # << >> => Head(queue) \in Range(queue)
                    BY NamedJobs, RangeTail
                <5> QED BY <5>1, QueuingNext DEF Queuing
            <4> QED BY <3>6, <4>2, <4>3, <4>4 DEF WaitsNext
        <3>8. RunCommit(g) => Running(g)
            BY CommitIsOf
        <3>9. ~(Running(g) /\ Running(f))
            <4>1. Running(g) /\ Running(f) => g = f
                BY DEF Running
            <4> QED BY <2>3, <3>11, <4>1
        <3>10. g < f
            BY <3>3, <3>5, <3>7, <3>8, <3>9 DEF InOrder
        <3> QED BY <1>0, <3>1, <3>10, <3>11
    <2> QED BY <2>1, <2>3
<1>3. CASE ~Waiting(f) /\ Request(f)
    <2>1. /\ script[f].op # "delete" /\ step[f] = 0
          /\ script[f].op = "update" => db[n] # Gone
          /\ last' = IF Matters(f) THEN [last EXCEPT ![n] = f] ELSE last
        BY <1>0, <1>3, RequestOpens
    <2>2. CASE Matters(f)
        <3>1. last'[n] = f
            BY <1>0, <2>1, <2>2
        <3> QED BY <2>1, <3>1
    <2>3. CASE ~Matters(f)
        <3>1. ASSUME L # 0, script[L].op = "delete"
              PROVE  FALSE
            <4>1. L \in DOMAIN script /\ Node(L) = n /\ Edited(L)
                BY <3>1 DEF Lasting, LastIsOne
            <4>2. L < f
                BY <1>3, <4>1, EditBegins DEF SameNode, Edited
            <4>3. script[f].op # "create"
                <5>1. L \in 1 .. f - 1 /\ f \in Nat
                    BY <1>0, <4>1, <4>2
                <5>2. script[L].node = script[f].node
                    BY <4>1 DEF Node
                <5> QED BY <1>0, <5>1, <5>2, FreshAssumption
            <4>4. db[n] # Gone
                BY <1>0, <2>1, <4>3, ScriptTyped
            <4>5. Waiting(L)
                BY <1>0, <3>1, <4>4 DEF Lasting, LastArrives, Target
            <4> QED BY <3>1, <4>1, <4>5, WaitingEdited
        <3> QED BY <2>3, <3>1
    <2> QED BY <2>2, <2>3
<1> QED BY <1>1, <1>2, <1>3

\* A deletion that goes past nothing is alone at its node.
LEMMA AloneAfter ==
    ASSUME Types, Types', Ids, Ids', ModelsAgree, ModelsAgree', InOrder, Lasting, [Next]_vars,
           NEW e \in DOMAIN script, Delete(e), Node(e) \notin overtaken',
           NEW f \in DOMAIN script, SameNode(f, e)
    PROVE  ~WaitsNext(f)
<1>0. /\ script \in Scripts /\ DOMAIN script \subseteq Nat \ {0} /\ DOMAIN script \subseteq Edits
      /\ step \in [Edits -> 0 .. 7]
    BY ScriptTyped DEF Types
<1>1. /\ uow' = NoWork /\ queue' = queue /\ worker' = worker
      /\ step' = [step EXCEPT ![e] = 7]
      /\ \A g \in 1 .. e - 1 : Node(g) = Node(e) => ~Ahead(g)
    BY DEF Delete, Queued
<1> SUFFICES ASSUME WaitsNext(f)
             PROVE  FALSE
    OBVIOUS
<1>2. f \notin Range(uow'.new) \cup Range(uow'.changed)
    BY <1>1, EmptySeq DEF NoWork, Lists, Range
<1>3. Making(f) \/ Queuing(f) \/ Running(f)
    BY <1>0, <1>1, <1>2 DEF WaitsNext, Making, Queuing, Running
<1>4. step[f] # 0
    BY <1>3, WaitingEdited DEF Waiting
<1>5. f < e
    BY <1>4, EditBegins
<1>6. f \in 1 .. e - 1 /\ Node(f) = Node(e)
    BY <1>0, <1>5 DEF SameNode
<1> QED BY <1>1, <1>3, <1>6, AheadIs

\* Every step keeps the fourth part.
LEMMA BehindStep ==
    ASSUME Types, Types', Ids, Ids', ModelsAgree, ModelsAgree', InOrder, Lasting, [Next]_vars
    PROVE  LastIsBehind'
<1>0. /\ script' = script /\ script \in Scripts /\ DOMAIN script \subseteq Edits
      /\ step \in [Edits -> 0 .. 7]
    BY ScriptTyped, PipeCases DEF Types
<1>1. ASSUME NEW f \in DOMAIN script, Node(f) \notin overtaken', WaitsNext(f)
      PROVE  /\ Matters(f) => WaitsNext(last'[Node(f)])
             /\ last'[Node(f)] # 0 => script[last'[Node(f)]].op # "delete"
    <2>1. PICK n \in Nodes : n = Node(f)
        BY <1>0, ScriptTyped DEF Node
    <2>2. CASE last'[n] = last[n]
        BY <1>1, <2>1, <2>2, BehindKept
    <2>3. ASSUME NEW e \in DOMAIN script, Request(e) \/ Delete(e), Node(e) = n, last'[n] = e
          PROVE  WaitsNext(e) /\ script[e].op # "delete"
        <3>1. SameNode(f, e)
            BY <2>1, <2>3 DEF SameNode
        <3>2. ~Delete(e)
            BY <1>1, <2>1, <2>3, <3>1, AloneAfter
        <3>3. Request(e) => script[e].op # "delete" /\ step' = [step EXCEPT ![e] = 1]
            BY <1>0, RequestOpens
        <3>4. step'[e] = 1
            BY <1>0, <2>3, <3>2, <3>3
        <3> QED BY <2>3, <3>2, <3>3, <3>4 DEF WaitsNext
    <2>4. last'[n] = last[n] \/ \E e \in DOMAIN script : (Request(e) \/ Delete(e)) /\ Node(e) = n /\ last'[n] = e
        BY LastAt
    <2> QED BY <2>1, <2>2, <2>3, <2>4
<1> QED BY <1>0, <1>1 DEF LastIsBehind, WaitsNext, Waiting, Making, Queuing, Running, Listed, Matters, Node

\* The fifth part, for an edit that stays the last of its node: its model is written when it
\* stops being on its way, and what is written after it says nothing else.
LEMMA ArrivesKept ==
    ASSUME Types, Types', Ids, Ids', ModelsAgree, ModelsAgree', InOrder, Lasting, [Next]_vars,
           NEW n \in Nodes, n \notin overtaken', NEW g \in DOMAIN script,
           last[n] = g, last'[n] = g, ~WaitsNext(g)
    PROVE  db'[n] = Target(g)
<1>0. /\ script' = script /\ script \in Scripts /\ DOMAIN script \subseteq Nat \ {0}
      /\ n \notin overtaken /\ g # 0
    BY ScriptTyped, PipeCases, OvertakenGrows DEF Types
<1>1. Node(g) = n /\ Matters(g) /\ Edited(g) /\ step[g] # 0
    BY <1>0 DEF Lasting, LastIsOne, Edited
<1>2. ASSUME NEW u \in [Lists -> Seq(DOMAIN script)], Batch(u), NEW f \in Range(u.deleted)
      PROVE  Node(f) # n
    <2>1. f \in Range(uow.deleted) \/ Delete(f)
        BY <1>2, BatchIs
    <2>2. f \in Range(uow.deleted) => Node(f) \in overtaken
        BY DEF Lasting, DeletionsOvertake, Range
    <2>3. ASSUME Delete(f), Node(f) = n
          PROVE  FALSE
        <3>1. f \in DOMAIN script /\ step[f] = 0
            BY <2>3 DEF Delete, Turn
        <3>2. last' = [last EXCEPT ![n] = f] /\ last \in [Nodes -> Edits \cup {0}]
            BY <2>3 DEF Delete, Types
        <3>3. f = g
            BY <3>2
        <3> QED BY <1>1, <3>1, <3>3
    <2> QED BY <1>0, <2>1, <2>2, <2>3
<1>3. CASE Waiting(g)
    <2>1. ~Waiting(g)'
        BY DEF WaitsNext, Waiting, Making, Queuing, Running, Listed
    <2>2. PICK u \in [Lists -> Seq(DOMAIN script)] : \E order \in Orders(u) :
            /\ Batch(u) /\ Persist(order, object', Len(order))
            /\ uow' = NoWork /\ g \in Range(u.new) \cup Range(u.changed)
        BY <1>1, <1>3, <2>1, WaitingEnds
    <2>3. PICK order \in Orders(u) :
            /\ Batch(u) /\ Persist(order, object', Len(order))
            /\ uow' = NoWork /\ g \in Range(u.new) \cup Range(u.changed)
        BY <2>2
    <2>4. \A f \in DOMAIN script : Edited(f) /\ Matters(f) /\ SameNode(f, g) => f <= g
        BY <1>1 DEF Lasting, LastIsLatest, SameNode
    <2>5. \A f \in Range(u.deleted) : ~SameNode(f, g)
        BY <1>1, <1>2, <2>3 DEF SameNode
    <2>6. db'[Node(g)] = script[g].text
        BY <1>1, <2>3, <2>4, <2>5, NodeWritten
    <2>7. script[g].op # "delete"
        BY <1>3, WaitingEdited
    <2> QED BY <1>1, <2>6, <2>7 DEF Target
<1>4. CASE ~Waiting(g)
    <2>1. db[n] = Target(g)
        BY <1>0, <1>4 DEF Lasting, LastArrives
    <2>2. ASSUME NEW f \in DOMAIN script, Node(f) = n, Waiting(f)
          PROVE  ~Matters(f) /\ db[n] # Gone
        <3>1. /\ Matters(f) => Waiting(g)
              /\ script[g].op # "delete"
            BY <1>0, <2>2 DEF Lasting, LastIsBehind
        <3>2. script[g].text # Gone
            BY <1>0, ScriptTyped, NobodyAssumption
        <3> QED BY <1>4, <2>1, <3>1, <3>2 DEF Target
    <2>3. ASSUME NEW u \in [Lists -> Seq(DOMAIN script)], NEW order \in Orders(u),
                 NEW k \in 0 .. Len(order), Batch(u), Persist(order, object', k)
          PROVE  db'[n] = db[n]
        <3>1. ASSUME NEW f \in Range(u.new) \cup Range(u.changed), Node(f) = n
              PROVE  ~Matters(f) /\ db[n] # Gone
            <4>1. f \in DOMAIN script /\ (Listed(f) \/ Running(f))
                BY <2>3, BatchIs
            <4> QED BY <2>2, <3>1, <4>1 DEF Waiting
        <3>2. \A f \in Range(u.deleted) : Node(f) # n
            BY <1>2, <2>3
        <3> QED BY <2>3, <3>1, <3>2, NodeKept
    <2>4. db'[n] = db[n]
        BY <2>3, WriteCases
    <2> QED BY <2>1, <2>4
<1> QED BY <1>3, <1>4

\* A deletion that goes past nothing is carried out.
LEMMA DeletedAtOnce ==
    ASSUME Types, Types', Ids, ModelsAgree, [Next]_vars,
           NEW e \in DOMAIN script, Delete(e), Node(e) \notin overtaken'
    PROVE  db'[Node(e)] = Gone
<1> DEFINE D == DOMAIN script
           u == Register(uow, e, "deleted")
           order == u.new \o u.changed \o u.deleted
<1>0. /\ script \in Scripts /\ db \in Graphs /\ D \subseteq Edits /\ uow \in [Lists -> Seq(D)]
      /\ {"new", "changed", "deleted"} \subseteq Lists /\ uow["deleted"] \in Seq(D)
      /\ object \in [Edits -> Models] /\ object' \in [Edits -> Models]
    BY ScriptTyped DEF Types, Lists
<1>1. /\ object' = [object EXCEPT ![e].state = "deleted"]
      /\ Commit(u) /\ uow' = NoWork
    BY DEF Delete
<1>2. object'[e].state = "deleted"
    BY <1>0, <1>1 DEF Models
<1>3. u["deleted"] = Append(uow["deleted"], e)
    BY <1>0, RegisterEach
<1>4. u \in [Lists -> Seq(D)]
    BY <1>0, RegisterTyped
<1>5. PICK n \in 0 .. Len(order) : /\ Persist(order, object', n)
                                   /\ uow' = IF n = Len(order) THEN NoWork ELSE u
    BY <1>1 DEF Commit
<1>6. u # NoWork
    <2>1. u["deleted"] # << >>
        BY <1>0, <1>3, AppendIsSome
    <2> HIDE DEF u
    <2> QED BY <1>0, <2>1 DEF NoWork
<1>7. n = Len(order)
    BY <1>1, <1>5, <1>6
<1>8. order \in Seq(D) /\ Len(order) \in Nat /\ Len(order) >= 1 /\ order[Len(order)] = e
    <2> DEFINE a == u["new"]
               b == u["changed"]
               c == Append(uow["deleted"], e)
    <2>1. a \in Seq(D) /\ b \in Seq(D) /\ c \in Seq(D)
        <3> HIDE DEF u
        <3> QED BY <1>0, <1>4
    <2>2. Len(c) = Len(uow["deleted"]) + 1 /\ Len(uow["deleted"]) \in Nat /\ c[Len(c)] = e
        BY <1>0, AppendProperties
    <2>3. order = a \o b \o c
        BY <1>3
    <2> HIDE DEF a, b, c, order, u
    <2>4. /\ order \in Seq(D) /\ Len(order) = Len(a) + Len(b) + Len(c)
          /\ order[Len(a) + Len(b) + Len(c)] = c[Len(c)]
          /\ Len(a) \in Nat /\ Len(b) \in Nat
        <3>1. /\ a \o b \o c \in Seq(D) /\ Len(a \o b \o c) = Len(a) + Len(b) + Len(c)
              /\ \A i \in 1 .. Len(c) : (a \o b \o c)[Len(a) + Len(b) + i] = c[i]
              /\ Len(a) \in Nat /\ Len(b) \in Nat
            BY <2>1, ThreeLists
        <3>2. Len(c) \in 1 .. Len(c)
            BY <2>2
        <3> QED BY <2>3, <3>1, <3>2
    <2>5. Len(c) \in Nat /\ Len(c) >= 1
        BY <2>2
    <2>6. Len(order) \in Nat /\ Len(order) >= 1
        BY <2>4, <2>5
    <2>7. order[Len(order)] = c[Len(c)]
        BY <2>4
    <2> QED BY <2>2, <2>4, <2>6, <2>7
<1>9. Persist(order, object', Len(order))
    BY <1>5, <1>7
<1>10. db' = Written(order, object', Len(order))
    BY <1>9 DEF Persist
<1> HIDE DEF order, u
<1> QED BY <1>0, <1>2, <1>8, <1>10, WrittenGone

\* Every step keeps the fifth part.
LEMMA ArrivesStep ==
    ASSUME Types, Types', Ids, Ids', ModelsAgree, ModelsAgree', InOrder, Lasting, [Next]_vars
    PROVE  LastArrives'
<1>0. /\ script' = script /\ DOMAIN script \subseteq Edits /\ step \in [Edits -> 0 .. 7]
    BY ScriptTyped, PipeCases DEF Types
<1>1. ASSUME NEW n \in Nodes, n \notin overtaken', last'[n] # 0, ~WaitsNext(last'[n])
      PROVE  db'[n] = Target(last'[n])
    <2>1. CASE last'[n] = last[n]
        <3>1. PICK g \in DOMAIN script : g = last[n]
            BY <1>1, <2>1 DEF Lasting, LastIsOne
        <3>2. ~WaitsNext(g)
            BY <1>1, <2>1, <3>1
        <3> QED BY <1>1, <2>1, <3>1, <3>2, ArrivesKept
    <2>2. ASSUME NEW e \in DOMAIN script, Request(e) \/ Delete(e), Node(e) = n, last'[n] = e
          PROVE  db'[n] = Target(last'[n])
        <3>1. ~Request(e)
            <4>1. Request(e) => step' = [step EXCEPT ![e] = 1]
                BY <1>0, RequestOpens
            <4>2. Request(e) => WaitsNext(e)
                BY <1>0, <4>1 DEF WaitsNext
            <4> QED BY <1>1, <2>2, <4>2
        <3>2. Delete(e) => script[e].op = "delete"
            BY DEF Delete, Turn
        <3> QED BY <1>1, <2>2, <3>1, <3>2, DeletedAtOnce DEF Target
    <2>3. last'[n] = last[n] \/ \E e \in DOMAIN script : (Request(e) \/ Delete(e)) /\ Node(e) = n /\ last'[n] = e
        BY LastAt
    <2> QED BY <2>1, <2>2, <2>3
<1> QED BY <1>0, <1>1 DEF LastArrives, WaitsNext, Waiting, Making, Queuing, Running, Listed, Target

\* The sixth part: only a shutdown forgets the CommitJob of an edit that is on its way.
LEMMA KnownStep ==
    ASSUME Types, Types', Ids, Ids', ModelsAgree, Lasting, [Next]_vars
    PROVE  CommitsAreKnown'
<1>0. /\ script' = script /\ DOMAIN script \subseteq Edits /\ step \in [Edits -> 0 .. 7]
      /\ overtaken \subseteq overtaken'
    BY ScriptTyped, PipeCases, OvertakenGrows DEF Types
<1>1. ASSUME NEW e \in DOMAIN script, Node(e) \notin overtaken',
             step'[e] = 6 \/ <<e, "commit">> \in Range(queue')
      PROVE  <<e, "commit">> \in jobs'
    <2> DEFINE j == <<e, "commit">>
    <2>0. j \in Jobs /\ j[1] = e /\ j[2] = "commit" /\ Slot(j) = 3
        BY <1>0, JobsAre DEF Slot
    <2>1. \/ step[e] = 6 \/ Queuing(e)
          \/ step[e] = 5 /\ Enqueue(e)
        <3>1. CASE step'[e] = 6
            <4>1. \A g \in DOMAIN script : Put(g) => step[g] \in {2, 4, 6}
                BY DEF Put
            <4> QED BY <1>0, <3>1, <4>1, StepNext
        <3>2. CASE <<e, "commit">> \in Range(queue')
            BY <3>2, QueuingNext
        <3> QED BY <1>1, <3>1, <3>2
    <2>2. CASE step[e] = 5 /\ Enqueue(e)
        <3>1. jobs' = jobs \cup {<<e, KindAt(5)>>}
            BY <2>2 DEF Enqueue
        <3>2. KindAt(5) = "commit"
            BY KindTyped
        <3> QED BY <3>1, <3>2
    <2>3. CASE step[e] = 6 \/ Queuing(e)
        <3>1. j \in jobs
            BY <1>0, <1>1, <2>3 DEF Lasting, CommitsAreKnown
        <3>2. Busy => worker.job # j
            <4>1. j \in Range(queue) \/ step[e] = 6
                BY <2>3 DEF Queuing
            <4> HIDE DEF j
            <4> QED BY <2>0, <4>1 DEF Ids
        <3>3. ~ResetQueue
            <4>1. ResetQueue => Node(j[1]) \in overtaken'
                BY <2>0, <3>1 DEF ResetQueue
            <4> QED BY <1>1, <2>0, <4>1
        <3> HIDE DEF j
        <3>4. \A g \in DOMAIN script : Request(g) \/ Refuse(g) \/ Delete(g) \/ Put(g) => jobs' = jobs
            <4>1. \A g \in DOMAIN script : Request(g) => jobs' = jobs
                BY <1>0, RequestOpens DEF Queued
            <4>2. \A g \in DOMAIN script : Refuse(g) \/ Delete(g) \/ Put(g) => jobs' = jobs
                BY DEF Refuse, Delete, Put, Queued
            <4> QED BY <4>1, <4>2
        <3>5. \A g \in DOMAIN script : Enqueue(g) => jobs \subseteq jobs'
            BY DEF Enqueue
        <3>6. \A g \in DOMAIN script : Redo(g) \/ RunCommit(g) => jobs' = jobs
            BY DEF Redo, RunDelete, RunReconstruct, RunCommit, Ran
        <3>7. Take \/ Flush => jobs' = jobs
            BY DEF Take, Flush, Queued
        <3>8. Aside => j \in jobs'
            BY <3>1, <3>2 DEF Aside
        <3>9. j \in jobs'
            BY <3>1, <3>3, <3>4, <3>5, <3>6, <3>7, <3>8, PipeCases
        <3> QED BY <3>9 DEF j
    <2> QED BY <2>1, <2>2, <2>3
<1> QED BY <1>0, <1>1 DEF CommitsAreKnown, Queuing, Node

\* Every step keeps what is known of the last edits.
LEMMA LastingStep ==
    ASSUME Types, Types', Ids, Ids', ModelsAgree, ModelsAgree', InOrder, Lasting, [Next]_vars
    PROVE  Lasting'
BY LastIsOneStep, DeletionsStep, BehindStep, ArrivesStep, KnownStep DEF Lasting

---------------------------------------------------------------------------

\* What a queue holds, how its edits follow each other and what their models say are kept by
\* every step.
THEOREM EditsInvariance == Spec => []IInv
<1>1. Init => IInv
    <2> SUFFICES ASSUME Init
                 PROVE  IInv
        OBVIOUS
    <2> QED BY TypesInit, IdsInit, LatestInit, CountsInit, ModelsInit, InOrderInit, LastingInit DEF IInv
<1>2. IInv /\ [Next]_vars => IInv'
    <2> SUFFICES ASSUME IInv, [Next]_vars
                 PROVE  IInv'
        OBVIOUS
    <2>1. Types'
        BY TypesStep DEF IInv
    <2>2. Ids'
        BY <2>1, IdsStep DEF IInv
    <2>3. LatestIsLive'
        BY <2>1, <2>2, LatestStep DEF IInv
    <2>4. CountsAgree'
        BY <2>1, <2>2, CountsStep DEF IInv
    <2>5. ModelsAgree'
        BY <2>1, <2>2, ModelsStep DEF IInv
    <2>6. InOrder'
        BY <2>1, <2>2, <2>5, OrderStep DEF IInv
    <2>7. Lasting'
        BY <2>1, <2>2, <2>5, LastingStep DEF IInv
    <2> QED BY <2>1, <2>2, <2>3, <2>4, <2>5, <2>6, <2>7 DEF IInv
<1> QED BY <1>1, <1>2, PTL DEF Spec

\* An acknowledged edit is in the graph, in a job or in the unit of work, unless a delete or a
\* shutdown overtook its node.
THEOREM NothingForgotten == Spec => []NoEditIsForgotten
<1>1. IInv => NoEditIsForgotten
    <2> SUFFICES ASSUME IInv, NEW n \in Nodes \ overtaken, last[n] # 0, db[n] # Target(last[n])
                 PROVE  Ahead(last[n]) \/ last[n] \in Tracked
        BY DEF NoEditIsForgotten
    <2>1. Types /\ Waiting(last[n])
        BY DEF IInv, Lasting, LastArrives
    <2>2. last[n] \in DOMAIN script
        BY DEF IInv, Lasting, LastIsOne
    <2>3. PICK g \in DOMAIN script : g = last[n]
        BY <2>2
    <2>4. Ahead(g) \/ Listed(g)
        BY <2>1, <2>3, AheadIs DEF Waiting
    <2> QED BY <2>3, <2>4 DEF Listed, Tracked
<1> QED BY <1>1, EditsInvariance, PTL
=============================================================================
