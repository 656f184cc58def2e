--------------------------- MODULE AccountsProofs ---------------------------
(***************************************************************************)
(* Proofs about the accounts for any ids, names, identities and scripts,   *)
(* and any finite number of clients: the types, that an identity keeps the *)
(* account it was linked to unless it is renamed at its provider in the    *)
(* middle of a sign-in, that a tool reads for the account its token was    *)
(* minted for, that guesses are throttled, and that sessions end with the  *)
(* credentials they began under and with nothing else.                     *)
(***************************************************************************)
EXTENDS Accounts, FiniteSetTheorems, SequenceTheorems, TLAPS

\* The steps a call of each kind goes through.
StepsOf(op) ==
    {"idle"} \cup
    CASE op = "login"           -> {"delay", "read", "judge", "session", "clear"}
      [] op = "callback"        -> {"consume", "exchange", "link", "profile", "standing", "session"}
      [] op = "begin_login"     -> {"issue"}
      [] op = "mint"            -> {"mint"}
      [] op = "tool"            -> {"verify", "bind"}
      [] op = "create"          -> {"insert"}
      [] op = "unblock"         -> {"write"}
      [] op = "page"            -> {"cookie", "account", "drop", "temporary", "owner"}
      [] op = "put_state"       -> {"cookie", "account", "drop", "temporary", "upsert"}
      [] op = "change_password" -> {"cookie", "account", "drop", "read", "prove", "stamp", "write"}
      [] op = "logout"          -> {"cookie", "account", "drop", "end"}
      [] OTHER                  -> {"stamp", "write"}

Answers == {"none", "ok", "limited", "refused", "failed", "unauthenticated", "change_required",
            "unknown_user", "name_taken", "invalid_state", "tool_error"}

\* The local variables of a call.
Call == [op : Ops, name : Names, from : Origins, password : Nat, identity : Identities,
         state : Nat, token : Token \cup {NoOne}, row : Row \cup {NoRow},
         session : Session \cup {NoSession}, id : Ids \cup {NoOne}, stamp : 0 .. MaxTime,
         at : Steps, answer : Answers]

\* A call that has found its account knows its row and its id.
Where(r) ==
    /\ r.at \in StepsOf(r.op)
    /\ r.at \in {"judge", "prove"} /\ r.row # NoRow => r.id \in Ids
    /\ r.at = "session" => r.id \in Ids
    /\ r.at = "account" => r.session # NoSession

CallsOK == call \in [Clients -> Call] /\ \A c \in Clients : Where(call[c])

CountsOK == /\ passwords \in Nat /\ issued \in Nat
            /\ script \in [Clients -> Seq([op : Ops, name : Names])]

Types == TypeOK /\ CallsOK /\ CountsOK

\* An identity is linked to an account there is, and to one of its own.
LinksOK ==
    /\ \A g \in Identities : links[g] # NoOne => users[links[g]] # NoRow
    /\ \A g, h \in Identities : links[g] # NoOne /\ links[g] = links[h] => g = h

\* A sign-in of an identity that was not renamed meanwhile holds the name the
\* identity has, and the link, unless another one has linked the identity
\* since: then the name is taken.
Faithful(r) ==
    /\ r.at \in {"link", "profile"} => r.name = profile[r.identity]
    /\ r.at = "profile" => \/ links[r.identity] = r.id
                           \/ r.id = NoOne /\ users[links[r.identity]].name = r.name

\* A sign-in through a provider between its look at the link and its session:
\* the account it found is there and no other identity's, and has the name it
\* wrote unless that name was given up.
BySignIn(r) ==
    /\ r.at \in {"profile", "standing"} /\ r.id # NoOne => users[r.id] # NoRow
    /\ r.at = "standing" => r.id # NoOne /\ (users[r.id].name = r.name \/ r.name \in raced)
    /\ r.at = "profile" /\ r.id # NoOne => \A h \in Identities \ {r.identity} : links[h] # r.id
    /\ r.identity \notin renamed => Faithful(r)

\* Sign-ins that are about to write into one account are one identity's.
OwnIds ==
    \A c, d \in Clients :
      /\ call[c].at = "profile" /\ call[d].at = "profile"
      /\ call[c].id # NoOne /\ call[c].id = call[d].id
      => call[c].identity = call[d].identity

SignInsOK == OwnIds /\ \A c \in Clients : BySignIn(call[c])

\* A live token is one that was minted, and the secrets tell the minted apart.
TokensOK ==
    /\ IsFiniteSet(minted)
    /\ \A t \in minted : t.secret \in 1 .. Cardinality(minted)
    /\ \A t, u \in minted : t.secret = u.secret => t = u
    /\ \A x \in DOMAIN tokens :
         [expiry |-> x, secret |-> tokens[x].secret, account |-> tokens[x].account] \in minted
    /\ \A c \in Clients : call[c].at \in {"verify", "bind"} => call[c].token \in minted

-----------------------------------------------------------------------------
(***************************************************************************)
(* Typed calls: what Goto and Done do to the record of a client.           *)
(***************************************************************************)
LEMMA IdleIsCall == Idle \in Call /\ Where(Idle)
<1>1. (CHOOSE n \in Names : TRUE) \in Names
  BY WorldAssumption
<1>2. (CHOOSE o \in Origins : TRUE) \in Origins
  BY WorldAssumption
<1>3. (CHOOSE g \in Identities : TRUE) \in Identities
  BY WorldAssumption
<1>4. 0 \in 0 .. MaxTime
  BY TimeAssumption
<1>5. "page" \in Ops /\ "idle" \in Steps /\ 0 \in Nat /\ "none" \in Answers
  BY DEF Ops, PageOps, Steps, Answers
<1>6. Idle \in Call
  BY <1>1, <1>2, <1>3, <1>4, <1>5 DEF Idle, Call
<1>7. Where(Idle)
  <2>1. Idle.at = "idle"
    BY DEF Idle
  <2> QED
    BY <2>1 DEF Where, StepsOf
<1> QED
  BY <1>6, <1>7

(***************************************************************************)
(* A client that goes on with a proper record leaves all records proper.   *)
(***************************************************************************)
Moved(c, r) == call' = [call EXCEPT ![c] = r]

LEMMA MovedCalls ==
    ASSUME CallsOK, NEW c \in Clients, NEW r \in Call, Where(r), Moved(c, r)
    PROVE  CallsOK'
<1>1. call' = [call EXCEPT ![c] = r]
  BY DEF Moved
<1>2. \A d \in Clients : call'[d] = IF d = c THEN r ELSE call[d]
  BY <1>1 DEF CallsOK
<1>3. call' \in [Clients -> Call]
  BY <1>1 DEF CallsOK
<1>4. \A d \in Clients : Where(call'[d])
  BY <1>2 DEF CallsOK
<1> QED
  BY <1>3, <1>4 DEF CallsOK

LEMMA LocalCalls ==
    ASSUME CallsOK, NEW c \in Clients, NEW r \in Call, Where(r), Local(c, r)
    PROVE  CallsOK'
BY MovedCalls DEF Local, Moved

(***************************************************************************)
(* A call that ends.                                                       *)
(***************************************************************************)
LEMMA DoneCalls ==
    ASSUME CallsOK, NEW c \in Clients, NEW answer \in Answers, Done(c, answer)
    PROVE  CallsOK'
<1> DEFINE r == [Idle EXCEPT !.op = call[c].op, !.answer = answer]
<1>1. r \in Call
  BY IdleIsCall DEF Call, CallsOK
<1>2. r.at = "idle" /\ r.op = call[c].op
  BY IdleIsCall DEF Call, Idle
<1>3. Where(r)
  BY <1>2 DEF Where, StepsOf
<1>4. Local(c, r)
  BY DEF Done
<1> HIDE DEF r
<1> QED
  BY <1>1, <1>3, <1>4, LocalCalls

(***************************************************************************)
(* A call that only goes to another of its steps.                          *)
(***************************************************************************)
LEMMA GotoCalls ==
    ASSUME CallsOK, NEW c \in Clients, NEW step \in Steps \ {"judge", "prove", "session", "account"},
           step \in StepsOf(call[c].op), Goto(c, step)
    PROVE  CallsOK'
<1> DEFINE r == [call[c] EXCEPT !.at = step]
<1>1. r \in Call
  BY DEF Call, CallsOK
<1>2. Where(r)
  BY <1>1 DEF Where, Call, CallsOK
<1>3. Local(c, r)
  BY DEF Goto
<1> HIDE DEF r
<1> QED
  BY <1>1, <1>2, <1>3, LocalCalls

(***************************************************************************)
(* What a look for a name finds.                                           *)
(***************************************************************************)
LEMMA RowOfName ==
    ASSUME TypeOK, NEW n \in Names
    PROVE  /\ Holders(n) = {} => RowOf(n) = NoRow
           /\ Holders(n) # {} => /\ IdOf(n) \in Ids /\ RowOf(n) = users[IdOf(n)]
                                /\ RowOf(n) \in Row /\ RowOf(n).name = n
<1>1. ASSUME Holders(n) # {} PROVE IdOf(n) \in Holders(n)
  BY <1>1 DEF IdOf
<1>2. Holders(n) \subseteq Ids
  BY DEF Holders
<1>3. \A i \in Holders(n) : users[i] \in Row /\ users[i].name = n
  BY DEF Holders, TypeOK
<1> QED
  BY <1>1, <1>2, <1>3 DEF RowOf

(***************************************************************************)
(* The steps that may follow a step of a call.                             *)
(***************************************************************************)
LEMMA StepsFollow ==
    ASSUME NEW r \in Call, Where(r)
    PROVE  /\ r.at = "delay"     => "read" \in StepsOf(r.op)
           /\ r.at = "read"      => IF r.op = "login" THEN "judge" \in StepsOf(r.op)
                                    ELSE "prove" \in StepsOf(r.op)
           /\ r.at = "judge"     => "session" \in StepsOf(r.op)
           /\ r.at = "session" /\ r.op = "login" => "clear" \in StepsOf(r.op)
           /\ r.at = "cookie"    => "account" \in StepsOf(r.op)
           /\ r.at = "account"   => {"drop", AfterResolve(r.op)} \subseteq StepsOf(r.op)
           /\ r.at = "temporary" => IF r.op = "put_state" THEN "upsert" \in StepsOf(r.op)
                                    ELSE "owner" \in StepsOf(r.op)
           /\ r.at = "prove"     => "stamp" \in StepsOf(r.op)
           /\ r.at = "stamp"     => "write" \in StepsOf(r.op)
           /\ r.at = "consume"   => "exchange" \in StepsOf(r.op)
           /\ r.at = "exchange"  => "link" \in StepsOf(r.op)
           /\ r.at = "link"      => "profile" \in StepsOf(r.op)
           /\ r.at = "profile"   => "standing" \in StepsOf(r.op)
           /\ r.at = "standing"  => "session" \in StepsOf(r.op)
           /\ r.at = "verify"    => "bind" \in StepsOf(r.op)
<1>1. r.op \in Ops /\ r.at \in StepsOf(r.op)
  BY DEF Call, Where
<1>2. CASE r.op \in {"login", "callback", "begin_login"}
  BY <1>1, <1>2 DEF StepsOf
<1>3. CASE r.op \in {"mint", "tool", "create", "unblock"}
  BY <1>1, <1>3 DEF StepsOf
<1>4. CASE r.op \in PageOps
  BY <1>1, <1>4 DEF StepsOf, PageOps, AfterResolve
<1>5. CASE r.op \in {"set_password", "block", "delete", "undelete"}
  BY <1>1, <1>5 DEF StepsOf
<1> QED
  BY <1>1, <1>2, <1>3, <1>4, <1>5 DEF Ops, AdminOps, SignInOps

(***************************************************************************)
(* The first step of a call is one of its steps.                           *)
(***************************************************************************)
LEMMA FirstStepFits ==
    ASSUME NEW op \in Ops
    PROVE  FirstStep(op) \in (StepsOf(op) \cap Steps) \ {"judge", "prove", "session", "account"}
<1>1. CASE op \in {"login", "callback", "begin_login", "mint", "tool"}
  BY <1>1 DEF FirstStep, StepsOf, Steps, PageOps
<1>2. CASE op \in AdminOps
  BY <1>2 DEF FirstStep, StepsOf, Steps, PageOps, AdminOps
<1>3. CASE op \in PageOps
  BY <1>3 DEF FirstStep, StepsOf, Steps, PageOps
<1> QED
  BY <1>1, <1>2, <1>3 DEF Ops, SignInOps

(***************************************************************************)
(* A session is judged in a page call.                                     *)
(***************************************************************************)
LEMMA PageSteps ==
    ASSUME NEW r \in Call, Where(r), r.at \in {"cookie", "account", "drop"}
    PROVE  r.op \in PageOps
<1>1. r.op \in Ops /\ r.at \in StepsOf(r.op)
  BY DEF Call, Where
<1> QED
  BY <1>1 DEF StepsOf, Ops, PageOps, AdminOps, SignInOps

(***************************************************************************)
(* A judged sign-in that found its account goes on to its session.         *)
(***************************************************************************)
LEMMA GotoSession ==
    ASSUME CallsOK, NEW c \in Clients, call[c].at = "judge", call[c].row # NoRow,
           Goto(c, "session")
    PROVE  CallsOK'
<1> DEFINE r == call[c]
           q == [r EXCEPT !.at = "session"]
<1>1. r \in Call /\ Where(r)
  BY DEF CallsOK
<1>2. "session" \in StepsOf(r.op) \cap Steps
  BY <1>1, StepsFollow DEF Steps
<1>3. r.id \in Ids
  BY <1>1 DEF Where
<1>4. q \in Call /\ q.at = "session" /\ q.op = r.op /\ q.row = r.row /\ q.id = r.id
  BY <1>1, <1>2 DEF Call
<1>5. Local(c, q)
  BY DEF Goto
<1> HIDE DEF q
<1>6. Where(q)
  BY <1>2, <1>3, <1>4 DEF Where
<1> QED
  BY <1>4, <1>5, <1>6, LocalCalls

(***************************************************************************)
(* Every step of a client leaves proper calls behind.                      *)
(***************************************************************************)
LEMMA CallsStep ==
    ASSUME Types, SignInsOK, LinksOK, NEW c \in Clients, ServeStep(c)
    PROVE  CallsOK'
<1> USE DEF Types
<1> DEFINE r == call[c]
<1>0. r \in Call /\ Where(r) /\ r.name \in Names
  BY DEF CallsOK, Call
<1>1. CASE Begin(c)
  <2> DEFINE do == Head(script[c])
  <2>1. PICK o \in Origins, w \in 1 .. passwords, g \in Identities,
             k \in 0 .. issued, t \in minted \cup {NoOne} :
               Local(c, [Idle EXCEPT !.op = do.op, !.name = do.name, !.from = o, !.password = w,
                                     !.identity = g, !.state = k, !.token = t,
                                     !.at = FirstStep(do.op)])
    BY <1>1 DEF Begin
  <2>2. do.op \in Ops /\ do.name \in Names
    <3>1. script[c] \in Seq([op : Ops, name : Names]) /\ script[c] # << >>
      BY <1>1 DEF Begin, CountsOK
    <3>2. do \in [op : Ops, name : Names]
      BY <3>1, HeadTailProperties
    <3> QED
      BY <3>2
  <2>3. w \in Nat /\ k \in Nat /\ t \in Token \cup {NoOne}
    BY DEF CountsOK, TypeOK
  <2>4. FirstStep(do.op) \in (StepsOf(do.op) \cap Steps) \ {"judge", "prove", "session", "account"}
    BY <2>2, FirstStepFits
  <2> DEFINE q == [Idle EXCEPT !.op = do.op, !.name = do.name, !.from = o, !.password = w,
                               !.identity = g, !.state = k, !.token = t, !.at = FirstStep(do.op)]
  <2>5. q \in Call /\ q.at = FirstStep(do.op) /\ q.op = do.op
    <3> HIDE DEF do
    <3> QED BY <2>2, <2>3, <2>4, IdleIsCall DEF Call
  <2>6. Where(q)
    <3> HIDE DEF q, do
    <3> QED BY <2>4, <2>5 DEF Where
  <2> HIDE DEF q
  <2> QED
    BY <2>1, <2>5, <2>6, LocalCalls DEF q
<1>2. CASE Delay(c)
  <2>1. Goto(c, "read") \/ Done(c, "limited")
    BY <1>2 DEF Delay
  <2>2. r.at = "delay"
    BY <1>2 DEF Delay, At
  <2>3. "read" \in StepsOf(r.op) /\ "read" \in Steps
    BY <1>0, <2>2, StepsFollow DEF Steps
  <2>4. {"limited"} \subseteq Answers
    BY DEF Answers
  <2> QED
    BY <2>1, <2>3, GotoCalls, <2>4, DoneCalls
<1>3. CASE ReadCredentials(c)
  <2> DEFINE q == [r EXCEPT !.row = RowOf(r.name),
                            !.id  = IF Holders(r.name) = {} THEN NoOne ELSE IdOf(r.name),
                            !.at  = IF r.op = "login" THEN "judge" ELSE "prove"]
  <2>1. Local(c, q) /\ r.at = "read"
    BY <1>3 DEF ReadCredentials, At
  <2>2. (IF r.op = "login" THEN "judge" ELSE "prove") \in StepsOf(r.op) \cap Steps
    BY <1>0, <2>1, StepsFollow DEF Steps
  <2>3. q \in Call
    BY <1>0, <2>2, RowOfName DEF Call
  <2>4. q.at \in StepsOf(q.op) /\ q.at \in {"judge", "prove"}
        /\ (q.row # NoRow => q.id \in Ids)
    BY <1>0, <2>2, RowOfName DEF Call
  <2> HIDE DEF q
  <2>5. Where(q)
    BY <2>4 DEF Where
  <2> QED
    BY <2>1, <2>3, <2>5, LocalCalls
<1>4. CASE RefuseLogin(c)
  <2>1. Done(c, "refused")
    BY <1>4 DEF RefuseLogin
  <2>4. {"refused"} \subseteq Answers
    BY DEF Answers
  <2> QED
    BY <2>1, <2>4, DoneCalls
<1>5. CASE RecordLogin(c)
  <2>1. r.at = "judge" /\ r.row # NoRow
    BY <1>5 DEF RecordLogin, At, Accepted, Verified
  <2>2. CASE Done(c, "failed")
    <3>1. "failed" \in Answers
      BY DEF Answers
    <3> QED
      BY <2>2, <3>1, DoneCalls
  <2>3. CASE Goto(c, "session")
    BY <1>0, <2>1, <2>3, GotoSession
  <2> QED
    BY <1>5, <2>2, <2>3 DEF RecordLogin
<1>6. CASE CreateSession(c)
  <2>1. r.at = "session"
    BY <1>6 DEF CreateSession, At
  <2>2. CASE Done(c, "ok")
    <3>1. "ok" \in Answers
      BY DEF Answers
    <3> QED
      BY <2>2, <3>1, DoneCalls
  <2>3. CASE r.op = "login" /\ Goto(c, "clear")
    <3>1. "clear" \in StepsOf(r.op) /\ "clear" \in Steps
      BY <1>0, <2>1, <2>3, StepsFollow DEF Steps
    <3> QED
      BY <2>3, <3>1, GotoCalls
  <2> QED
    BY <1>6, <2>2, <2>3 DEF CreateSession
<1>7. CASE RecordSuccess(c)
  <2>1. Done(c, "ok")
    BY <1>7 DEF RecordSuccess
  <2>4. {"ok"} \subseteq Answers
    BY DEF Answers
  <2> QED
    BY <2>1, <2>4, DoneCalls
<1>8. CASE GetSession(c)
  <2>1. r.at = "cookie"
    BY <1>8 DEF GetSession, At
  <2>2. CASE Done(c, "unauthenticated")
    <3>1. "unauthenticated" \in Answers
      BY DEF Answers
    <3> QED
      BY <2>2, <3>1, DoneCalls
  <2>3. CASE /\ sessions[r.name] # NoSession
             /\ Local(c, [r EXCEPT !.session = sessions[r.name], !.at = "account"])
    <3> DEFINE q == [r EXCEPT !.session = sessions[r.name], !.at = "account"]
    <3>1. "account" \in StepsOf(r.op) \cap Steps
      BY <1>0, <2>1, StepsFollow DEF Steps
    <3>2. q \in Call /\ q.at = "account" /\ q.op = r.op /\ q.session # NoSession
      BY <1>0, <2>3, <3>1 DEF Call, TypeOK
    <3>3. Local(c, q)
      BY <2>3
    <3> HIDE DEF q
    <3>4. Where(q)
      BY <3>1, <3>2 DEF Where
    <3> QED
      BY <3>2, <3>3, <3>4, LocalCalls
  <2> QED
    BY <1>8, <2>2, <2>3 DEF GetSession
<1>9. CASE Resolve(c)
  <2>1. r.at = "account"
    BY <1>9 DEF Resolve, At
  <2>2. {"drop", AfterResolve(r.op)} \subseteq StepsOf(r.op)
    BY <1>0, <2>1, StepsFollow
  <2>3. r.op \in PageOps
    BY <1>0, <2>1, PageSteps
  <2>4. {"drop", AfterResolve(r.op)} \subseteq Steps \ {"judge", "prove", "session", "account"}
    BY <2>3 DEF AfterResolve, PageOps, Steps
  <2>5. Goto(c, "drop") \/ Goto(c, AfterResolve(r.op))
    BY <1>9 DEF Resolve
  <2> QED
    BY <2>2, <2>4, <2>5, GotoCalls
<1>10. CASE DropSession(c)
  <2>1. Done(c, "unauthenticated") \/ Done(c, "ok")
    BY <1>10 DEF DropSession
  <2>4. {"unauthenticated", "ok"} \subseteq Answers
    BY DEF Answers
  <2> QED
    BY <2>1, <2>4, DoneCalls
<1>11. CASE Temporary(c)
  <2>1. r.at = "temporary"
    BY <1>11 DEF Temporary, At
  <2>2. CASE Done(c, "change_required")
    <3>1. "change_required" \in Answers
      BY DEF Answers
    <3> QED
      BY <2>2, <3>1, DoneCalls
  <2>3. CASE Goto(c, IF r.op = "put_state" THEN "upsert" ELSE "owner")
    <3>1. (IF r.op = "put_state" THEN "upsert" ELSE "owner") \in StepsOf(r.op)
      BY <1>0, <2>1, StepsFollow
    <3>2. {"upsert", "owner"} \subseteq Steps \ {"judge", "prove", "session", "account"}
      BY DEF Steps
    <3> QED
      BY <2>3, <3>1, <3>2, GotoCalls
  <2> QED
    BY <1>11, <2>2, <2>3 DEF Temporary
<1>12. CASE Owner(c)
  <2>1. Done(c, "unauthenticated") \/ Done(c, "ok")
    BY <1>12 DEF Owner
  <2>4. {"unauthenticated", "ok"} \subseteq Answers
    BY DEF Answers
  <2> QED
    BY <2>1, <2>4, DoneCalls
<1>13. CASE PutState(c)
  <2>1. Done(c, "failed") \/ Done(c, "ok")
    BY <1>13 DEF PutState
  <2>4. {"failed", "ok"} \subseteq Answers
    BY DEF Answers
  <2> QED
    BY <2>1, <2>4, DoneCalls
<1>14. CASE Prove(c)
  <2>1. Goto(c, "stamp") \/ Done(c, "refused")
    BY <1>14 DEF Prove
  <2>2. r.at = "prove"
    BY <1>14 DEF Prove, At
  <2>3. "stamp" \in StepsOf(r.op) /\ "stamp" \in Steps
    BY <1>0, <2>2, StepsFollow DEF Steps
  <2>4. {"refused"} \subseteq Answers
    BY DEF Answers
  <2> QED
    BY <2>1, <2>3, GotoCalls, <2>4, DoneCalls
<1>15. CASE Stamp(c)
  <2> DEFINE q == [r EXCEPT !.stamp = now, !.at = "write"]
  <2>1. Local(c, q) /\ r.at = "stamp"
    BY <1>15 DEF Stamp, At
  <2>2. "write" \in StepsOf(r.op) \cap Steps
    BY <1>0, <2>1, StepsFollow DEF Steps
  <2>3. q \in Call /\ q.at = "write" /\ q.op = r.op
    BY <1>0, <2>2 DEF Call, TypeOK
  <2> HIDE DEF q
  <2>4. Where(q)
    BY <2>2, <2>3 DEF Where
  <2> QED
    BY <2>1, <2>3, <2>4, LocalCalls
<1>16. CASE Write(c)
  <2>1. Done(c, "unknown_user") \/ Done(c, "ok")
    BY <1>16 DEF Write
  <2>4. {"unknown_user", "ok"} \subseteq Answers
    BY DEF Answers
  <2> QED
    BY <2>1, <2>4, DoneCalls
<1>17. CASE CreateUser(c)
  <2>1. Done(c, "name_taken") \/ Done(c, "ok")
    BY <1>17 DEF CreateUser
  <2>4. {"name_taken", "ok"} \subseteq Answers
    BY DEF Answers
  <2> QED
    BY <2>1, <2>4, DoneCalls
<1>18. CASE Issue(c)
  <2>1. Done(c, "ok") \/ Done(c, "failed")
    BY <1>18 DEF Issue
  <2>4. {"ok", "failed"} \subseteq Answers
    BY DEF Answers
  <2> QED
    BY <2>1, <2>4, DoneCalls
<1>19. CASE Consume(c)
  <2>1. Goto(c, "exchange") \/ Done(c, "invalid_state")
    BY <1>19 DEF Consume
  <2>2. r.at = "consume"
    BY <1>19 DEF Consume, At
  <2>3. "exchange" \in StepsOf(r.op) /\ "exchange" \in Steps
    BY <1>0, <2>2, StepsFollow DEF Steps
  <2>4. {"invalid_state"} \subseteq Answers
    BY DEF Answers
  <2> QED
    BY <2>1, <2>3, GotoCalls, <2>4, DoneCalls
<1>20. CASE Exchange(c)
  <2>1. r.at = "exchange"
    BY <1>20 DEF Exchange, At
  <2>2. CASE Done(c, "invalid_state")
    <3>1. "invalid_state" \in Answers
      BY DEF Answers
    <3> QED
      BY <2>2, <3>1, DoneCalls
  <2>3. CASE Local(c, [r EXCEPT !.name = profile[r.identity], !.at = "link"])
    <3> DEFINE q == [r EXCEPT !.name = profile[r.identity], !.at = "link"]
    <3>1. "link" \in StepsOf(r.op) \cap Steps
      BY <1>0, <2>1, StepsFollow DEF Steps
    <3>2. q \in Call /\ q.at = "link" /\ q.op = r.op
      BY <1>0, <3>1 DEF Call, TypeOK
    <3>3. Local(c, q)
      BY <2>3
    <3> HIDE DEF q
    <3>4. Where(q)
      BY <3>1, <3>2 DEF Where
    <3> QED
      BY <3>2, <3>3, <3>4, LocalCalls
  <2> QED
    BY <1>20, <2>2, <2>3 DEF Exchange
<1>21. CASE FindLink(c)
  <2> DEFINE q == [r EXCEPT !.id = links[r.identity], !.at = "profile"]
  <2>1. Local(c, q) /\ r.at = "link"
    BY <1>21 DEF FindLink, At
  <2>2. "profile" \in StepsOf(r.op) \cap Steps
    BY <1>0, <2>1, StepsFollow DEF Steps
  <2>3. q \in Call /\ q.at = "profile" /\ q.op = r.op
    BY <1>0, <2>2 DEF Call, TypeOK
  <2> HIDE DEF q
  <2>4. Where(q)
    BY <2>2, <2>3 DEF Where
  <2> QED
    BY <2>1, <2>3, <2>4, LocalCalls
<1>22. CASE WriteProfile(c)
  <2>1. r.at = "profile"
    BY <1>22 DEF WriteProfile, Moved, At
  <2>2. CASE Done(c, "failed")
    <3>1. "failed" \in Answers
      BY DEF Answers
    <3> QED
      BY <2>2, <3>1, DoneCalls
  <2>3. ASSUME NEW i \in Ids, Moved(c, [r EXCEPT !.id = i, !.at = "standing"])
        PROVE  CallsOK'
    <3> DEFINE q == [r EXCEPT !.id = i, !.at = "standing"]
    <3>1. "standing" \in StepsOf(r.op) \cap Steps
      BY <1>0, <2>1, StepsFollow DEF Steps
    <3>2. q \in Call /\ q.at = "standing" /\ q.op = r.op
      BY <1>0, <3>1 DEF Call, TypeOK
    <3>3. Moved(c, q)
      BY <2>3
    <3> HIDE DEF q
    <3>4. Where(q)
      BY <3>1, <3>2 DEF Where
    <3> QED
      BY <3>2, <3>3, <3>4, MovedCalls
  <2>4. r.id \in Ids \cup {NoOne}
    BY <1>0 DEF Call
  <2> QED
    BY <1>22, <2>2, <2>3, <2>4 DEF WriteProfile, Moved, NewIds
<1>23. CASE Standing(c)
  <2>1. r.at = "standing"
    BY <1>23 DEF Standing, At
  <2>2. CASE Done(c, "failed")
    <3>1. "failed" \in Answers
      BY DEF Answers
    <3> QED
      BY <2>2, <3>1, DoneCalls
  <2>3. CASE Local(c, [r EXCEPT !.row = RowOf(r.name), !.at = "session"])
    <3> DEFINE q == [r EXCEPT !.row = RowOf(r.name), !.at = "session"]
    <3>1. "session" \in StepsOf(r.op) \cap Steps
      BY <1>0, <2>1, StepsFollow DEF Steps
    <3>2. r.id \in Ids
      BY <1>0, <2>1 DEF SignInsOK, BySignIn, Call
    <3>3. q \in Call /\ q.at = "session" /\ q.op = r.op /\ q.id = r.id
      BY <1>0, <3>1, RowOfName DEF Call
    <3>4. Local(c, q)
      BY <2>3
    <3> HIDE DEF q
    <3>5. Where(q)
      BY <3>1, <3>2, <3>3 DEF Where
    <3> QED
      BY <3>3, <3>4, <3>5, LocalCalls
  <2> QED
    BY <1>23, <2>2, <2>3 DEF Standing
<1>24. CASE Mint(c)
  <2>1. Done(c, "ok")
    BY <1>24 DEF Mint
  <2>4. {"ok"} \subseteq Answers
    BY DEF Answers
  <2> QED
    BY <2>1, <2>4, DoneCalls
<1>25. CASE VerifyToken(c)
  <2>1. Goto(c, "bind") \/ Done(c, "unauthenticated")
    BY <1>25 DEF VerifyToken
  <2>2. r.at = "verify"
    BY <1>25 DEF VerifyToken, At
  <2>3. "bind" \in StepsOf(r.op) /\ "bind" \in Steps
    BY <1>0, <2>2, StepsFollow DEF Steps
  <2>4. {"unauthenticated"} \subseteq Answers
    BY DEF Answers
  <2> QED
    BY <2>1, <2>3, GotoCalls, <2>4, DoneCalls
<1>26. CASE BindAccount(c)
  <2> DEFINE t == r.token
  <2>1. r.at = "bind"
    BY <1>26 DEF BindAccount, At
  <2>2. CASE Done(c, "tool_error")
    <3>1. "tool_error" \in Answers
      BY DEF Answers
    <3> QED
      BY <2>2, <3>1, DoneCalls
  <2>3. CASE /\ t.expiry \in DOMAIN tokens
             /\ Local(c, [Idle EXCEPT !.op = "tool", !.answer = "ok", !.token = t,
                                      !.id = tokens[t.expiry].account])
    <3> DEFINE q == [Idle EXCEPT !.op = "tool", !.answer = "ok", !.token = t,
                                 !.id = tokens[t.expiry].account]
    <3>1. tokens[t.expiry].account \in Ids
      BY <2>3 DEF TypeOK
    <3>2. "tool" \in Ops /\ "ok" \in Answers
      BY DEF Ops, Answers
    <3>3. q \in Call /\ q.at = "idle"
      BY <1>0, <3>1, <3>2, IdleIsCall DEF Call, Idle
    <3>4. Local(c, q)
      BY <2>3
    <3> HIDE DEF q
    <3>5. Where(q)
      BY <3>3 DEF Where, StepsOf
    <3> QED
      BY <3>3, <3>4, <3>5, LocalCalls
  <2> QED
    BY <1>26, <2>2, <2>3 DEF BindAccount, Valid
<1> QED
  BY <1>1, <1>2, <1>3, <1>4, <1>5, <1>6, <1>7, <1>8, <1>9, <1>10, <1>11, <1>12, <1>13,
     <1>14, <1>15, <1>16, <1>17, <1>18, <1>19, <1>20, <1>21, <1>22, <1>23, <1>24,
     <1>25, <1>26 DEF ServeStep

(***************************************************************************)
(* A step of a client changes the record of no other client.               *)
(***************************************************************************)
LEMMA StepIsLocal ==
    ASSUME NEW c \in Clients, ServeStep(c)
    PROVE  /\ \E r : Moved(c, r)
           /\ raced' = raced \cup Racing(call') \/ WriteProfile(c)
<1> USE DEF Goto, Done, Local, Moved
<1>1. CASE Begin(c)
  BY <1>1 DEF Begin
<1>2. CASE Delay(c)
  BY <1>2 DEF Delay
<1>3. CASE ReadCredentials(c)
  BY <1>3 DEF ReadCredentials
<1>4. CASE RefuseLogin(c)
  BY <1>4 DEF RefuseLogin
<1>5. CASE RecordLogin(c)
  BY <1>5 DEF RecordLogin
<1>6. CASE CreateSession(c)
  BY <1>6 DEF CreateSession
<1>7. CASE RecordSuccess(c)
  BY <1>7 DEF RecordSuccess
<1>8. CASE GetSession(c)
  BY <1>8 DEF GetSession
<1>9. CASE Resolve(c)
  BY <1>9 DEF Resolve
<1>10. CASE DropSession(c)
  BY <1>10 DEF DropSession
<1>11. CASE Temporary(c)
  BY <1>11 DEF Temporary
<1>12. CASE Owner(c)
  BY <1>12 DEF Owner
<1>13. CASE PutState(c)
  BY <1>13 DEF PutState
<1>14. CASE Prove(c)
  BY <1>14 DEF Prove
<1>15. CASE Stamp(c)
  BY <1>15 DEF Stamp
<1>16. CASE Write(c)
  BY <1>16 DEF Write
<1>17. CASE CreateUser(c)
  BY <1>17 DEF CreateUser
<1>18. CASE Issue(c)
  BY <1>18 DEF Issue
<1>19. CASE Consume(c)
  BY <1>19 DEF Consume
<1>20. CASE Exchange(c)
  BY <1>20 DEF Exchange
<1>21. CASE FindLink(c)
  BY <1>21 DEF FindLink
<1>22. CASE WriteProfile(c)
  BY <1>22 DEF WriteProfile
<1>23. CASE Standing(c)
  BY <1>23 DEF Standing
<1>24. CASE Mint(c)
  BY <1>24 DEF Mint
<1>25. CASE VerifyToken(c)
  BY <1>25 DEF VerifyToken
<1>26. CASE BindAccount(c)
  BY <1>26 DEF BindAccount
<1> QED
  BY <1>1, <1>2, <1>3, <1>4, <1>5, <1>6, <1>7, <1>8, <1>9, <1>10, <1>11, <1>12, <1>13,
     <1>14, <1>15, <1>16, <1>17, <1>18, <1>19, <1>20, <1>21, <1>22, <1>23, <1>24, <1>25, <1>26 DEF ServeStep

(***************************************************************************)
(* What a step of a client leaves alone.                                   *)
(***************************************************************************)
LEMMA StepFrame ==
    ASSUME NEW c \in Clients, ServeStep(c)
    PROVE  /\ UNCHANGED world
           /\ Write(c) \/ CreateUser(c) \/ WriteProfile(c) \/ UNCHANGED users
           /\ WriteProfile(c) \/ UNCHANGED links
           /\ PutState(c) \/ UNCHANGED appState
           /\ CreateSession(c) \/ DropSession(c) \/ UNCHANGED sessions
           /\ RefuseLogin(c) \/ RecordSuccess(c) \/ UNCHANGED <<failures, refused>>
           /\ Issue(c) \/ Consume(c) \/ UNCHANGED <<pending, issued>>
           /\ Mint(c) \/ UNCHANGED <<tokens, minted>>
           /\ Write(c) \/ CreateUser(c) \/ UNCHANGED passwords
           /\ Begin(c) \/ UNCHANGED script
<1>1. CASE Begin(c)
  BY <1>1 DEF Begin, At, store, memory, world, counts
<1>2. CASE Delay(c)
  BY <1>2 DEF Delay, At, store, memory, world, counts
<1>3. CASE ReadCredentials(c)
  BY <1>3 DEF ReadCredentials, At, store, memory, world, counts
<1>4. CASE RefuseLogin(c)
  BY <1>4 DEF RefuseLogin, At, store, memory, world, counts
<1>5. CASE RecordLogin(c)
  BY <1>5 DEF RecordLogin, At, store, memory, world, counts
<1>6. CASE CreateSession(c)
  BY <1>6 DEF CreateSession, At, store, memory, world, counts
<1>7. CASE RecordSuccess(c)
  BY <1>7 DEF RecordSuccess, At, store, memory, world, counts
<1>8. CASE GetSession(c)
  BY <1>8 DEF GetSession, At, store, memory, world, counts
<1>9. CASE Resolve(c)
  BY <1>9 DEF Resolve, At, store, memory, world, counts
<1>10. CASE DropSession(c)
  BY <1>10 DEF DropSession, At, store, memory, world, counts
<1>11. CASE Temporary(c)
  BY <1>11 DEF Temporary, At, store, memory, world, counts
<1>12. CASE Owner(c)
  BY <1>12 DEF Owner, At, store, memory, world, counts
<1>13. CASE PutState(c)
  BY <1>13 DEF PutState, At, store, memory, world, counts
<1>14. CASE Prove(c)
  BY <1>14 DEF Prove, At, store, memory, world, counts
<1>15. CASE Stamp(c)
  BY <1>15 DEF Stamp, At, store, memory, world, counts
<1>16. CASE Write(c)
  BY <1>16 DEF Write, At, store, memory, world, counts
<1>17. CASE CreateUser(c)
  BY <1>17 DEF CreateUser, At, store, memory, world, counts
<1>18. CASE Issue(c)
  BY <1>18 DEF Issue, At, store, memory, world, counts
<1>19. CASE Consume(c)
  BY <1>19 DEF Consume, At, store, memory, world, counts
<1>20. CASE Exchange(c)
  BY <1>20 DEF Exchange, At, store, memory, world, counts
<1>21. CASE FindLink(c)
  BY <1>21 DEF FindLink, At, store, memory, world, counts
<1>22. CASE WriteProfile(c)
  BY <1>22 DEF WriteProfile, At, store, memory, world, counts
<1>23. CASE Standing(c)
  BY <1>23 DEF Standing, At, store, memory, world, counts
<1>24. CASE Mint(c)
  BY <1>24 DEF Mint, At, store, memory, world, counts
<1>25. CASE VerifyToken(c)
  BY <1>25 DEF VerifyToken, At, store, memory, world, counts
<1>26. CASE BindAccount(c)
  BY <1>26 DEF BindAccount, At, store, memory, world, counts
<1> QED
  BY <1>1, <1>2, <1>3, <1>4, <1>5, <1>6, <1>7, <1>8, <1>9, <1>10, <1>11, <1>12, <1>13,
     <1>14, <1>15, <1>16, <1>17, <1>18, <1>19, <1>20, <1>21, <1>22, <1>23, <1>24, <1>25, <1>26 DEF ServeStep

(***************************************************************************)
(* The parts of the type invariant that a single call can disturb.         *)
(***************************************************************************)
NamesApart ==
    \A i, j \in Ids : users[i] # NoRow /\ users[j] # NoRow /\ users[i].name = users[j].name => i = j
UsersOK    == users \in [Ids -> Row \cup {NoRow}] /\ NamesApart
FailuresOK == \A k \in DOMAIN failures :
                k \in Keys /\ failures[k].count \in Nat \ {0} /\ failures[k].last \in 0 .. now
PendingOK  == \A s \in DOMAIN pending : s \in 1 .. issued /\ pending[s] \in 0 .. now
EntriesOK  == \A x \in DOMAIN tokens : x \in Nat /\ tokens[x] \in [secret : Nat, account : Ids]
MintedOK   == \A t \in minted : t \in Token
SessionsOK == sessions \in [Names -> Session \cup {NoSession}]

(***************************************************************************)
(* A new password, standing or stamp leaves an account its name.           *)
(***************************************************************************)
LEMMA ChangedRow ==
    ASSUME NEW row \in Row, NEW op \in (AdminOps \ {"create"}) \cup {"change_password"},
           NEW stamp \in 0 .. MaxTime, passwords \in Nat
    PROVE  Changed(row, op, stamp) \in Row /\ Changed(row, op, stamp).name = row.name
<1> DEFINE new == [row EXCEPT !.changed = stamp, !.version = @ + 1]
<1>1. new \in Row /\ new.name = row.name
  <2>1. row.version + 1 \in Nat
    BY DEF Row
  <2>2. stamp \in 0 .. MaxTime \cup {Never}
    OBVIOUS
  <2> DEFINE version == row.version + 1
  <2> HIDE DEF version
  <2>3. [row EXCEPT !.changed = stamp, !.version = version] \in Row
        /\ [row EXCEPT !.changed = stamp, !.version = version].name = row.name
    BY <2>1, <2>2 DEF Row, version
  <2> QED
    BY <2>3 DEF version
<1>2. CASE op \in {"set_password", "change_password"}
  <2> DEFINE hash == passwords + 1
             temporary == op = "set_password"
  <2>1. Changed(row, op, stamp) = [new EXCEPT !.hash = hash, !.temporary = temporary]
    BY <1>2 DEF Changed
  <2>2. hash \in Nat /\ temporary \in BOOLEAN
    OBVIOUS
  <2> HIDE DEF new, hash, temporary
  <2> QED
    BY <1>1, <2>1, <2>2 DEF Row
<1>3. CASE op = "block"
  <2>1. Changed(row, op, stamp) = [new EXCEPT !.blocked = TRUE]
    BY <1>3 DEF Changed
  <2> HIDE DEF new
  <2> QED
    BY <1>1, <2>1 DEF Row
<1>4. CASE op = "unblock"
  <2>1. Changed(row, op, stamp) = [row EXCEPT !.blocked = FALSE]
    BY <1>4 DEF Changed
  <2> QED
    BY <2>1 DEF Row
<1>5. CASE op \in {"delete", "undelete"}
  <2>1. Changed(row, op, stamp) = [new EXCEPT !.deleted = (op = "delete")]
    BY <1>5 DEF Changed
  <2>2. (op = "delete") \in BOOLEAN
    OBVIOUS
  <2> HIDE DEF new
  <2> QED
    BY <1>1, <2>1, <2>2 DEF Row
<1> QED
  BY <1>2, <1>3, <1>4, <1>5 DEF AdminOps

(***************************************************************************)
(* The calls that write into a row.                                        *)
(***************************************************************************)
LEMMA WriteOps ==
    ASSUME NEW r \in Call, Where(r), r.at = "write"
    PROVE  r.op \in (AdminOps \ {"create"}) \cup {"change_password"}
<1>1. r.op \in Ops /\ r.at \in StepsOf(r.op)
  BY DEF Call, Where
<1> QED
  BY <1>1 DEF StepsOf, Ops, PageOps, AdminOps, SignInOps

(***************************************************************************)
(* A new account under a free name.                                        *)
(***************************************************************************)
LEMMA NewName ==
    ASSUME UsersOK, NEW n \in Names, NameFree(n, NoOne), NEW i \in NewIds, NEW hash \in Nat,
           NEW temporary \in BOOLEAN, users' = [users EXCEPT ![i] = NewRow(n, hash, temporary)]
    PROVE  UsersOK'
<1> DEFINE row == NewRow(n, hash, temporary)
<1>1. row \in Row /\ row.name = n
  BY TimeAssumption DEF NewRow, Row
<1>2. i \in Ids
  BY DEF NewIds
<1>3. \A j \in Ids : users[j] # NoRow => users[j].name # n
  BY NobodyAssumption DEF NameFree, Holders
<1> HIDE DEF row
<1>4. users' = [users EXCEPT ![i] = row]
  BY DEF row
<1> QED
  BY <1>1, <1>2, <1>3, <1>4, NobodyAssumption DEF UsersOK, NamesApart

(***************************************************************************)
(* A client's step keeps the users table typed and its names apart.        *)
(***************************************************************************)
LEMMA UsersStep ==
    ASSUME Types, LinksOK, SignInsOK, NEW c \in Clients, ServeStep(c)
    PROVE  UsersOK'
<1> USE DEF Types
<1> DEFINE r == call[c]
<1>0. r \in Call /\ Where(r) /\ r.name \in Names /\ UsersOK
  BY DEF CallsOK, Call, UsersOK, NamesApart, TypeOK
<1>1. CASE Write(c)
  <2> DEFINE i == IdOf(r.name)
             row == Changed(users[i], r.op, r.stamp)
  <2>1. CASE UNCHANGED users
    BY <1>0, <2>1 DEF UsersOK, NamesApart
  <2>2. CASE Holders(r.name) # {} /\ users' = [users EXCEPT ![i] = row]
    <3>1. i \in Ids /\ users[i] \in Row
      BY <1>0, <2>2, RowOfName
    <3>2. r.op \in (AdminOps \ {"create"}) \cup {"change_password"}
      BY <1>0, <1>1, WriteOps DEF Write, At
    <3>3. row \in Row /\ row.name = users[i].name
      BY <1>0, <3>1, <3>2, ChangedRow DEF Call, CountsOK
    <3> HIDE DEF row, i
    <3> QED
      BY <1>0, <2>2, <3>1, <3>3, NobodyAssumption DEF UsersOK, NamesApart
  <2> QED
    BY <1>1, <2>1, <2>2 DEF Write
<1>2. CASE CreateUser(c)
  <2>1. CASE UNCHANGED users
    BY <1>0, <2>1 DEF UsersOK, NamesApart
  <2>2. ASSUME NEW i \in NewIds, NameFree(r.name, NoOne),
               users' = [users EXCEPT ![i] = NewRow(r.name, passwords + 1, TRUE)]
        PROVE  UsersOK'
    <3>1. passwords + 1 \in Nat /\ TRUE \in BOOLEAN
      BY DEF CountsOK
    <3> QED
      BY <1>0, <2>2, <3>1, NewName
  <2> QED
    BY <1>2, <2>1, <2>2 DEF CreateUser
<1>3. CASE WriteProfile(c)
  <2>1. CASE UNCHANGED users
    BY <1>0, <2>1 DEF UsersOK, NamesApart
  <2>2. ASSUME NEW i \in NewIds, NameFree(r.name, NoOne),
               users' = [users EXCEPT ![i] = NewRow(r.name, 0, FALSE)]
        PROVE  UsersOK'
    BY <1>0, <2>2, NewName
  <2>3. CASE /\ r.id # NoOne /\ NameFree(r.name, r.id)
             /\ users' = [users EXCEPT ![r.id].name = r.name]
    <3>1. r.id \in Ids /\ users[r.id] # NoRow
      BY <1>0, <1>3, <2>3 DEF Call, SignInsOK, BySignIn, LinksOK, WriteProfile, At
    <3>2. users[r.id] \in Row
      BY <1>0, <3>1 DEF UsersOK
    <3>3. [users[r.id] EXCEPT !.name = r.name] \in Row
      BY <1>0, <3>2 DEF Row
    <3> DEFINE row == [users[r.id] EXCEPT !.name = r.name]
    <3>4. users' = [users EXCEPT ![r.id] = row]
      BY <2>3
    <3>5. row.name = r.name
      BY <3>2 DEF Row
    <3>6. \A j \in Ids \ {r.id} : users[j] # NoRow => users[j].name # r.name
      BY <2>3 DEF NameFree, Holders
    <3> HIDE DEF row
    <3> QED
      BY <1>0, <3>1, <3>3, <3>4, <3>5, <3>6, NobodyAssumption DEF UsersOK, NamesApart, row
  <2> QED
    BY <1>3, <2>1, <2>2, <2>3 DEF WriteProfile
<1>4. CASE UNCHANGED users
  BY <1>0, <1>4 DEF UsersOK, NamesApart
<1> QED
  BY <1>1, <1>2, <1>3, <1>4, StepFrame

(***************************************************************************)
(* What the server remembers of sign-ins stays typed: sessions, failed     *)
(* attempts, pending logins.                                               *)
(***************************************************************************)
LEMMA MemoryStep ==
    ASSUME Types, NEW c \in Clients, ServeStep(c)
    PROVE  SessionsOK' /\ FailuresOK' /\ PendingOK' /\ refused' \in [Names -> Nat]
<1> USE DEF Types
<1> DEFINE r == call[c]
<1>0. r \in Call /\ Where(r) /\ r.name \in Names /\ r.from \in Origins
  BY DEF CallsOK, Call
<1>1. now \in 0 .. MaxTime /\ now' = now
  BY StepFrame DEF TypeOK, world
<1>2. SessionsOK'
  <2>1. CASE CreateSession(c)
    <3> DEFINE new == [created |-> now, id |-> r.id, version |-> VersionOf(r.row)]
    <3>1. r.id \in Ids
      BY <1>0, <2>1 DEF CreateSession, At, Where
    <3>2. VersionOf(r.row) \in Nat
      BY <1>0 DEF VersionOf, Call, Row
    <3>3. new \in Session
      BY <1>1, <3>1, <3>2 DEF Session
    <3>4. sessions' = [sessions EXCEPT ![r.name] = new]
      BY <2>1 DEF CreateSession
    <3> HIDE DEF new
    <3> QED
      BY <1>0, <3>3, <3>4 DEF SessionsOK, TypeOK
  <2>2. CASE DropSession(c)
    BY <1>0, <2>2 DEF DropSession, RemoveSession, SessionsOK, TypeOK
  <2>3. CASE UNCHANGED sessions
    BY <2>3 DEF SessionsOK, TypeOK
  <2> QED
    BY <2>1, <2>2, <2>3, StepFrame
<1>3. FailuresOK' /\ refused' \in [Names -> Nat]
  <2>1. CASE RefuseLogin(c)
    <3>1. KeysOf(c) \subseteq Keys
      BY <1>0 DEF KeysOf, Keys
    <3>2. \A k \in Keys : Current(k) \in Nat
      BY DEF Current, TypeOK
    <3>3. failures' = [k \in DOMAIN failures \cup KeysOf(c) |->
                         IF k \in KeysOf(c) THEN [count |-> Current(k) + 1, last |-> now]
                         ELSE failures[k]]
      BY <2>1 DEF RefuseLogin
    <3>4. \A k \in DOMAIN failures' :
            IF k \in KeysOf(c) THEN k \in Keys /\ failures'[k] = [count |-> Current(k) + 1, last |-> now]
            ELSE k \in DOMAIN failures /\ failures'[k] = failures[k]
      BY <3>1, <3>3
    <3>5. FailuresOK'
      BY <1>1, <3>2, <3>4 DEF FailuresOK, TypeOK
    <3>6. refused' = [refused EXCEPT ![r.name] = @ + 1]
      BY <2>1 DEF RefuseLogin
    <3> QED
      BY <1>0, <3>5, <3>6 DEF TypeOK
  <2>2. CASE RecordSuccess(c)
    <3>1. failures' = [k \in DOMAIN failures \ KeysOf(c) |-> failures[k]]
          /\ refused' = [refused EXCEPT ![r.name] = 0]
      BY <2>2 DEF RecordSuccess
    <3> QED
      BY <1>0, <1>1, <3>1 DEF FailuresOK, TypeOK
  <2>3. CASE UNCHANGED <<failures, refused>>
    BY <1>1, <2>3 DEF FailuresOK, TypeOK
  <2> QED
    BY <2>1, <2>2, <2>3, StepFrame
<1>4. PendingOK'
  <2>1. CASE Issue(c)
    <3>1. CASE /\ pending' = [s \in (DOMAIN pending \ Stale) \cup {issued + 1}
                                |-> IF s = issued + 1 THEN now ELSE pending[s]]
               /\ issued' = issued + 1
      <4>1. \A s \in DOMAIN pending' : \/ s = issued + 1 /\ pending'[s] = now
                                       \/ s \in DOMAIN pending /\ pending'[s] = pending[s]
        BY <3>1
      <4> QED
        BY <1>1, <3>1, <4>1 DEF PendingOK, TypeOK, CountsOK
    <3>2. CASE /\ \E gone : pending' = [s \in DOMAIN pending \ gone |-> pending[s]]
               /\ issued' = issued
      BY <1>1, <3>2 DEF PendingOK, TypeOK
    <3> QED
      BY <2>1, <3>1, <3>2 DEF Issue
  <2>2. CASE Consume(c)
    <3>1. /\ pending' = [x \in DOMAIN pending \ {r.state} |-> pending[x]]
          /\ issued' = issued
      BY <2>2 DEF Consume, counts
    <3> QED
      BY <1>1, <3>1 DEF PendingOK, TypeOK
  <2>3. CASE UNCHANGED <<pending, issued>>
    BY <1>1, <2>3 DEF PendingOK, TypeOK
  <2> QED
    BY <2>1, <2>2, <2>3, StepFrame
<1> QED
  BY <1>2, <1>3, <1>4

(***************************************************************************)
(* The steps that lead into the parts of a call that look at tokens, and   *)
(* at links between identities and accounts.                               *)
(***************************************************************************)
LEMMA StepTo ==
    ASSUME CallsOK, NEW c \in Clients, ServeStep(c)
    PROVE  /\ call'[c].at \in {"verify", "bind"} => Begin(c) \/ VerifyToken(c)
           /\ call'[c].at \in {"link", "profile", "standing"} =>
                Exchange(c) \/ FindLink(c) \/ WriteProfile(c)
           /\ call'[c].op = "tool" => Begin(c) \/ VerifyToken(c) \/ BindAccount(c)
<1> DEFINE r == call[c]
<1>0. r \in Call /\ Where(r) /\ r.at \in StepsOf(r.op) /\ r.op \in Ops
  BY DEF CallsOK, Call, Where
<1>a. r.at \notin {"idle", "verify", "bind"} => r.op # "tool"
  BY <1>0 DEF StepsOf
<1>b. ASSUME NEW answer, Done(c, answer)
      PROVE  call'[c].at = "idle" /\ call'[c].op = r.op
  BY <1>b DEF Done, Local, CallsOK, Call, Idle
<1>c. ASSUME NEW step, Goto(c, step)
      PROVE  call'[c].at = step /\ call'[c].op = r.op
  BY <1>0, <1>c DEF Goto, Local, CallsOK, Call
<1>d. ASSUME NEW q, Local(c, q)
      PROVE  call'[c] = q
  BY <1>d DEF Local, CallsOK
<1>1. CASE Begin(c)
  <2>1. PICK o, w, g, k, u :
          Local(c, [Idle EXCEPT !.op = Head(script[c]).op, !.name = Head(script[c]).name, !.from = o,
                                !.password = w, !.identity = g, !.state = k, !.token = u,
                                !.at = FirstStep(Head(script[c]).op)])
    BY <1>1 DEF Begin
  <2>2. call'[c].at = FirstStep(Head(script[c]).op)
    BY <2>1, <1>d DEF Idle
  <2>3. call'[c].at \notin {"link", "profile", "standing"}
    BY <2>2 DEF FirstStep
  <2> QED
    BY <1>1, <2>3
<1>2. CASE Delay(c)
  BY <1>2, <1>0, <1>a, <1>b, <1>c DEF Delay, At
<1>3. CASE ReadCredentials(c)
  BY ZenonT(40), <1>3, <1>0, <1>a, <1>b, <1>d DEF ReadCredentials, At, Call
<1>4. CASE RefuseLogin(c)
  BY <1>4, <1>0, <1>a, <1>b, <1>c DEF RefuseLogin, At
<1>5. CASE RecordLogin(c)
  BY <1>5, <1>0, <1>a, <1>b, <1>c DEF RecordLogin, At
<1>6. CASE CreateSession(c)
  BY <1>6, <1>0, <1>a, <1>b, <1>c DEF CreateSession, At
<1>7. CASE RecordSuccess(c)
  BY <1>7, <1>0, <1>a, <1>b, <1>c DEF RecordSuccess, At
<1>8. CASE GetSession(c)
  BY <1>8, <1>0, <1>a, <1>b, <1>d DEF GetSession, At, Call
<1>9. CASE Resolve(c)
  <2>1. r.op \in PageOps
    BY <1>9, <1>0, PageSteps DEF Resolve, At
  <2>2. AfterResolve(r.op) \in {"temporary", "read", "end"}
    BY <2>1 DEF AfterResolve, PageOps
  <2> QED
    BY <1>9, <1>0, <1>a, <1>c, <2>2 DEF Resolve, At
<1>10. CASE DropSession(c)
  BY <1>10, <1>0, <1>a, <1>b, <1>c DEF DropSession, At
<1>11. CASE Temporary(c)
  BY <1>11, <1>0, <1>a, <1>b, <1>c DEF Temporary, At
<1>12. CASE Owner(c)
  BY <1>12, <1>0, <1>a, <1>b, <1>c DEF Owner, At
<1>13. CASE PutState(c)
  BY <1>13, <1>0, <1>a, <1>b, <1>c DEF PutState, At
<1>14. CASE Prove(c)
  BY <1>14, <1>0, <1>a, <1>b, <1>c DEF Prove, At
<1>15. CASE Stamp(c)
  BY <1>15, <1>0, <1>a, <1>b, <1>d DEF Stamp, At, Call
<1>16. CASE Write(c)
  BY <1>16, <1>0, <1>a, <1>b, <1>c DEF Write, At
<1>17. CASE CreateUser(c)
  BY <1>17, <1>0, <1>a, <1>b, <1>c DEF CreateUser, At
<1>18. CASE Issue(c)
  BY <1>18, <1>0, <1>a, <1>b, <1>c DEF Issue, At
<1>19. CASE Consume(c)
  BY <1>19, <1>0, <1>a, <1>b, <1>c DEF Consume, At
<1>20. CASE Exchange(c)
  BY <1>20, <1>0, <1>a, <1>b, <1>d DEF Exchange, At, Call
<1>21. CASE FindLink(c)
  BY <1>21, <1>0, <1>a, <1>b, <1>d DEF FindLink, At, Call
<1>22. CASE WriteProfile(c)
  <2>1. r.at = "profile" /\ r.op # "tool"
    BY <1>22, <1>a DEF WriteProfile, At
  <2>2. ASSUME NEW i, Moved(c, [r EXCEPT !.id = i, !.at = "standing"])
        PROVE  call'[c].at = "standing" /\ call'[c].op = r.op
    BY <1>0, <2>2 DEF Moved, CallsOK, Call
  <2>3. call'[c].at \in {"idle", "standing"} /\ call'[c].op = r.op
    BY <1>22, <1>b, <2>2 DEF WriteProfile, Moved
  <2> QED
    BY <1>22, <2>1, <2>3
<1>23. CASE Standing(c)
  BY <1>23, <1>0, <1>a, <1>b, <1>d DEF Standing, At, Call
<1>24. CASE Mint(c)
  BY <1>24, <1>0, <1>a, <1>b, <1>c DEF Mint, At
<1>25. CASE VerifyToken(c)
  BY <1>25, <1>0, <1>a, <1>b, <1>c DEF VerifyToken, At
<1>26. CASE BindAccount(c)
  <2>1. call'[c].at = "idle"
    BY <1>26, <1>b, <1>d DEF BindAccount, Idle
  <2> QED
    BY <1>26, <2>1
<1> QED
  BY <1>1, <1>2, <1>3, <1>4, <1>5, <1>6, <1>7, <1>8, <1>9, <1>10, <1>11, <1>12, <1>13,
     <1>14, <1>15, <1>16, <1>17, <1>18, <1>19, <1>20, <1>21, <1>22, <1>23, <1>24, <1>25, <1>26 DEF ServeStep

(***************************************************************************)
(* Minting adds one token with a secret of its own, and no other step adds *)
(* an entry to those the tools are checked against.                        *)
(***************************************************************************)
LEMMA TokensStep ==
    ASSUME Types, TokensOK, NEW c \in Clients, ServeStep(c)
    PROVE  TokensOK' /\ EntriesOK' /\ MintedOK'
<1> USE DEF Types
<1> DEFINE r == call[c]
<1>0. r \in Call /\ Where(r)
  BY DEF CallsOK
<1>1. ASSUME Mint(c)
      PROVE  /\ IsFiniteSet(minted')
             /\ \A t \in minted' : t.secret \in 1 .. Cardinality(minted')
             /\ \A t, u \in minted' : t.secret = u.secret => t = u
             /\ \A x \in DOMAIN tokens' :
                  [expiry |-> x, secret |-> tokens'[x].secret, account |-> tokens'[x].account] \in minted'
             /\ minted \subseteq minted'
             /\ EntriesOK' /\ MintedOK'
  <2> DEFINE x == now + TokenLife
             secret == Cardinality(minted) + 1
  <2>1. PICK i \in Ids :
          /\ tokens' = [y \in Live(tokens) \cup {x} |->
                          IF y = x THEN [secret |-> secret, account |-> i] ELSE tokens[y]]
          /\ minted' = minted \cup {[expiry |-> x, secret |-> secret, account |-> i]}
    BY <1>1 DEF Mint
  <2> DEFINE new == [expiry |-> x, secret |-> secret, account |-> i]
  <2>2. Cardinality(minted) \in Nat /\ x \in Nat
    BY FS_CardinalityType, TimeAssumption DEF TokensOK, TypeOK
  <2>3. new \in Token /\ new.secret = secret /\ new.account = i /\ new.expiry = x
    BY <2>2 DEF Token
  <2>4. new \notin minted
    BY <2>2, <2>3 DEF TokensOK
  <2>5. minted' = minted \cup {new}
    BY <2>1
  <2> HIDE DEF new
  <2>6. IsFiniteSet(minted') /\ Cardinality(minted') = secret
    BY <2>4, <2>5, FS_AddElement DEF TokensOK
  <2>7. \A t \in minted' : t.secret \in 1 .. Cardinality(minted')
    BY <2>2, <2>3, <2>5, <2>6 DEF TokensOK
  <2>8. \A t, u \in minted' : t.secret = u.secret => t = u
    BY <2>2, <2>3, <2>5 DEF TokensOK
  <2>9. \A y \in DOMAIN tokens' :
          \/ y = x /\ tokens'[y] = [secret |-> secret, account |-> i]
          \/ y \in DOMAIN tokens /\ tokens'[y] = tokens[y]
    BY <2>1 DEF Live
  <2>10. \A y \in DOMAIN tokens' :
           [expiry |-> y, secret |-> tokens'[y].secret, account |-> tokens'[y].account] \in minted'
    BY <2>5, <2>9 DEF TokensOK, new
  <2>11. EntriesOK'
    BY <2>2, <2>9 DEF EntriesOK, TypeOK
  <2>12. MintedOK'
    BY <2>3, <2>5 DEF MintedOK, TypeOK
  <2> QED
    BY <2>5, <2>6, <2>7, <2>8, <2>10, <2>11, <2>12
<1>2. /\ IsFiniteSet(minted')
      /\ \A t \in minted' : t.secret \in 1 .. Cardinality(minted')
      /\ \A t, u \in minted' : t.secret = u.secret => t = u
      /\ \A x \in DOMAIN tokens' :
           [expiry |-> x, secret |-> tokens'[x].secret, account |-> tokens'[x].account] \in minted'
      /\ minted \subseteq minted'
      /\ EntriesOK' /\ MintedOK'
  <2>1. CASE Mint(c)
    BY <1>1, <2>1
  <2>2. CASE UNCHANGED <<tokens, minted>>
    BY <2>2 DEF TokensOK, TypeOK, EntriesOK, MintedOK
  <2> QED
    BY <2>1, <2>2, StepFrame
<1>3. PICK q : call' = [call EXCEPT ![c] = q]
  BY StepIsLocal DEF Moved
<1>4. q.at \in {"verify", "bind"} => q.token \in minted
  <2> SUFFICES ASSUME call'[c].at \in {"verify", "bind"} PROVE call'[c].token \in minted
    BY <1>3 DEF CallsOK
  <2>1. CASE Begin(c)
    <3>1. PICK o \in Origins, w \in 1 .. passwords, g \in Identities,
               k \in 0 .. issued, u \in minted \cup {NoOne} :
            /\ (Head(script[c]).op = "tool") = (u # NoOne)
            /\ Local(c, [Idle EXCEPT !.op = Head(script[c]).op, !.name = Head(script[c]).name, !.from = o,
                                     !.password = w, !.identity = g, !.state = k, !.token = u,
                                     !.at = FirstStep(Head(script[c]).op)])
      BY <2>1 DEF Begin
    <3>2. call'[c].at = FirstStep(Head(script[c]).op) /\ call'[c].token = u
      BY <3>1 DEF Idle, Local, CallsOK
    <3>3. \A op : FirstStep(op) \in {"verify", "bind"} => op = "tool"
      BY DEF FirstStep, PageOps
    <3> QED
      BY <3>1, <3>2, <3>3
  <2>2. CASE VerifyToken(c)
    <3>1. r.token \in minted
      BY <2>2 DEF VerifyToken, At, TokensOK
    <3>2. CASE Goto(c, "bind")
      BY <1>0, <3>1, <3>2 DEF Goto, Local, CallsOK, Call
    <3>3. CASE Done(c, "unauthenticated")
      BY <3>3 DEF Done, Local, CallsOK, Idle
    <3> QED
      BY <2>2, <3>2, <3>3 DEF VerifyToken
  <2> QED
    BY <2>1, <2>2, StepTo
<1>5. \A d \in Clients : call'[d].at \in {"verify", "bind"} => call'[d].token \in minted
  BY <1>3, <1>4 DEF TokensOK, CallsOK
<1> QED
  BY <1>2, <1>5 DEF TokensOK

(***************************************************************************)
(* No step but upsert_provider_user changes a link, or the name of an      *)
(* account.                                                                *)
(***************************************************************************)
LEMMA NamesKept ==
    ASSUME Types, NEW c \in Clients, ServeStep(c), ~WriteProfile(c)
    PROVE  /\ links' = links
           /\ \A i \in Ids : users[i] # NoRow => users'[i] # NoRow /\ users'[i].name = users[i].name
<1> USE DEF Types
<1> DEFINE r == call[c]
<1>0. r \in Call /\ Where(r) /\ r.name \in Names
  BY DEF CallsOK, Call
<1>1. links' = links
  BY StepFrame
<1>2. SUFFICES ASSUME NEW i \in Ids, users[i] # NoRow
               PROVE  users'[i] # NoRow /\ users'[i].name = users[i].name
  BY <1>1
<1>3. users[i] \in Row
  BY <1>2 DEF TypeOK
<1>4. CASE Write(c)
  <2> DEFINE j == IdOf(r.name)
             row == Changed(users[j], r.op, r.stamp)
  <2>1. CASE UNCHANGED users
    BY <1>2, <2>1
  <2>2. CASE Holders(r.name) # {} /\ users' = [users EXCEPT ![j] = row]
    <3>1. j \in Ids /\ users[j] \in Row
      BY <1>0, <2>2, RowOfName
    <3>2. r.op \in (AdminOps \ {"create"}) \cup {"change_password"}
      BY <1>0, <1>4, WriteOps DEF Write, At
    <3>3. row \in Row /\ row.name = users[j].name
      BY <1>0, <3>1, <3>2, ChangedRow DEF Call, CountsOK
    <3> HIDE DEF row, j
    <3> QED
      BY <1>2, <2>2, <3>1, <3>3, NobodyAssumption DEF TypeOK
  <2> QED
    BY <1>4, <2>1, <2>2 DEF Write
<1>5. CASE CreateUser(c)
  BY <1>2, <1>5 DEF CreateUser, NewIds, TypeOK
<1>6. CASE UNCHANGED users
  BY <1>2, <1>6
<1> QED
  BY <1>4, <1>5, <1>6, StepFrame

(***************************************************************************)
(* upsert_provider_user links an identity that was not renamed meanwhile   *)
(* to a new account only if it has none, or else to the one it has: where  *)
(* another sign-in has linked it since, the name a second account would    *)
(* get is taken.                                                           *)
(***************************************************************************)
LEMMA LinkWritten ==
    ASSUME Types, LinksOK, SignInsOK, NEW c \in Clients, WriteProfile(c)
    PROVE  \A g \in Identities \ renamed : links[g] # NoOne => links'[g] = links[g]
<1> USE DEF Types
<1> DEFINE r == call[c]
<1>0. r \in Call /\ r.at = "profile" /\ r.identity \in Identities
  BY DEF CallsOK, Call, WriteProfile, At
<1> SUFFICES ASSUME NEW g \in Identities \ renamed, links[g] # NoOne
             PROVE  links'[g] = links[g]
  OBVIOUS
<1>1. CASE g # r.identity
  BY <1>0, <1>1 DEF WriteProfile, TypeOK
<1>2. CASE g = r.identity
  <2>0. links[g] = r.id \/ (r.id = NoOne /\ users[links[g]].name = r.name)
    BY <1>0, <1>2 DEF SignInsOK, BySignIn, Faithful
  <2>1. CASE UNCHANGED links
    BY <2>1
  <2>2. CASE r.id = NoOne /\ NameFree(r.name, NoOne)
    <3>1. links[g] \in Ids /\ users[links[g]] # NoRow /\ users[links[g]].name = r.name
      BY <2>0, <2>2 DEF LinksOK, TypeOK
    <3>2. links[g] \in Holders(r.name)
      BY <3>1 DEF Holders
    <3> QED
      BY <2>2, <3>2 DEF NameFree
  <2>3. CASE r.id # NoOne /\ links' = [links EXCEPT ![r.identity] = r.id]
    BY <1>0, <1>2, <2>0, <2>3 DEF TypeOK
  <2> QED
    BY <2>1, <2>2, <2>3 DEF WriteProfile
<1> QED
  BY <1>1, <1>2

(***************************************************************************)
(* The names a sign-in marks are names.                                    *)
(***************************************************************************)
LEMMA GivenUpNames ==
    ASSUME Types, LinksOK, SignInsOK, NEW c \in Clients, WriteProfile(c)
    PROVE  /\ raced' \subseteq Names /\ raced \cup Racing(call') \subseteq raced'
           /\ raced' = raced \cup Racing(call') \/ GivenUp(call[c].id, call[c].name) \subseteq raced'
<1> USE DEF Types
<1> DEFINE r == call[c]
<1>1. Racing(call') \subseteq Names
  BY DEF Racing
<1>2. r.name \in Names /\ r.id \in Ids \cup {NoOne} /\ r.identity \in Identities /\ r.at = "profile"
  BY DEF CallsOK, Call, WriteProfile, At
<1>3. r.id # NoOne => users[r.id] \in Row
  BY <1>2 DEF SignInsOK, BySignIn, LinksOK, TypeOK
<1>4. r.id # NoOne => GivenUp(r.id, r.name) \subseteq Names
  BY <1>2, <1>3 DEF GivenUp, Row
<1>5. CASE raced' = raced \cup Racing(call')
  BY <1>1, <1>5 DEF TypeOK
<1>6. CASE r.id # NoOne /\ raced' = raced \cup GivenUp(r.id, r.name) \cup Racing(call')
  BY <1>1, <1>4, <1>6 DEF TypeOK
<1>7. raced' = raced \cup {} \cup Racing(call') => raced' = raced \cup Racing(call')
  OBVIOUS
<1> QED
  BY <1>5, <1>6, <1>7 DEF WriteProfile, Done, Local

(***************************************************************************)
(* A step that writes no profile keeps every sign-in under way on the      *)
(* right side of the links.                                                *)
(***************************************************************************)
LEMMA LinksLeft ==
    ASSUME Types, LinksOK, SignInsOK, NEW c \in Clients, ServeStep(c), CallsOK', ~WriteProfile(c)
    PROVE  links' = links /\ LinksOK' /\ SignInsOK'
<1> USE DEF Types
<1> DEFINE r == call[c]
           q == call'[c]
<1>0. r \in Call /\ r.identity \in Identities
  BY DEF CallsOK, Call
<1>1. PICK p : call' = [call EXCEPT ![c] = p]
  BY StepIsLocal DEF Moved
<1>2. \A d \in Clients \ {c} : call'[d] = call[d]
  BY <1>1 DEF CallsOK
<1>3. profile' = profile /\ renamed' = renamed /\ raced \subseteq raced'
  BY StepFrame, StepIsLocal DEF world
<1>4. /\ links' = links
      /\ \A i \in Ids : users[i] # NoRow => users'[i] # NoRow /\ users'[i].name = users[i].name
  BY NamesKept
<1>5. LinksOK'
  BY <1>4 DEF LinksOK, TypeOK
<1>6. ASSUME q.at \notin {"link", "profile", "standing"} PROVE BySignIn(call[c])'
  BY <1>6 DEF BySignIn, Faithful
<1>7. ASSUME Exchange(c), q.at \in {"link", "profile", "standing"} PROVE BySignIn(call[c])'
  <2>1. ~Done(c, "invalid_state")
    BY <1>7 DEF Done, Local, CallsOK, Idle
  <2>2. Local(c, [r EXCEPT !.name = profile[r.identity], !.at = "link"])
    BY <1>7, <2>1 DEF Exchange
  <2>3. q.at = "link" /\ q.name = profile[r.identity] /\ q.identity = r.identity
    BY <1>0, <2>2 DEF Local, CallsOK, Call
  <2> QED
    BY <1>3, <2>3 DEF BySignIn, Faithful
<1>8. ASSUME FindLink(c) PROVE BySignIn(call[c])'
  <2>1. r.at = "link" /\ Local(c, [r EXCEPT !.id = links[r.identity], !.at = "profile"])
    BY <1>8 DEF FindLink, At
  <2>2. /\ q.at = "profile" /\ q.name = r.name
        /\ q.identity = r.identity /\ q.id = links[r.identity]
    BY <1>0, <2>1 DEF Local, CallsOK, Call
  <2>3. r.identity \notin renamed => r.name = profile[r.identity]
    BY <2>1 DEF SignInsOK, BySignIn, Faithful
  <2>4. q.id # NoOne => users'[q.id] # NoRow /\ \A h \in Identities \ {q.identity} : links[h] # q.id
    BY <1>0, <1>4, <2>2 DEF LinksOK, TypeOK
  <2> QED
    BY <1>3, <1>4, <2>2, <2>3, <2>4 DEF BySignIn, Faithful
<1>9. BySignIn(call[c])' /\ (q.at = "profile" => FindLink(c))
  <2>1. q.at \in {"link", "profile", "standing"} => Exchange(c) \/ FindLink(c)
    BY StepTo
  <2>2. Exchange(c) => q.at # "profile"
    <3>1. CASE Done(c, "invalid_state")
      BY <3>1 DEF Done, Local, CallsOK, Idle
    <3>2. CASE Local(c, [r EXCEPT !.name = profile[r.identity], !.at = "link"])
      BY <1>0, <3>2 DEF Local, CallsOK, Call
    <3> QED
      BY <3>1, <3>2 DEF Exchange
  <2>3. FindLink(c) \/ Exchange(c) \/ q.at \notin {"link", "profile", "standing"}
    BY <2>1
  <2> QED
    BY <1>6, <1>7, <1>8, <2>1, <2>2, <2>3
<1>10. ASSUME NEW d \in Clients \ {c} PROVE BySignIn(call[d])'
  <2>1. /\ call[d].identity \in Identities /\ call'[d] = call[d] /\ BySignIn(call[d])
        /\ call[d].id \in Ids \cup {NoOne} /\ links[call[d].identity] \in Ids \cup {NoOne}
    BY <1>2, <1>10 DEF CallsOK, Call, SignInsOK, TypeOK
  <2>2. call[d].identity \notin renamed => Faithful(call[d])'
    <3> SUFFICES ASSUME Faithful(call[d]) PROVE Faithful(call[d])'
      BY <2>1 DEF BySignIn
    <3>1. links[call[d].identity] # NoOne => users[links[call[d].identity]] # NoRow
      BY <2>1 DEF LinksOK
    <3> QED
      BY <1>3, <1>4, <2>1, <3>1 DEF Faithful
  <2> QED
    BY <1>3, <1>4, <2>1, <2>2 DEF BySignIn
<1>11. OwnIds'
  <2> SUFFICES ASSUME NEW d \in Clients, NEW e \in Clients,
                      call'[d].at = "profile", call'[e].at = "profile",
                      call'[d].id # NoOne, call'[d].id = call'[e].id,
                      call'[d].identity # call'[e].identity
               PROVE  FALSE
    BY DEF OwnIds
  <2>1. ASSUME NEW x \in Clients \ {c}, call[x].at = "profile", q.at = "profile", q.id # NoOne,
               call[x].id = q.id, call[x].identity # q.identity
        PROVE  FALSE
    <3>1. FindLink(c)
      BY <1>9, <2>1
    <3>2. Local(c, [r EXCEPT !.id = links[r.identity], !.at = "profile"])
      BY <3>1 DEF FindLink
    <3>3. q.identity = r.identity /\ q.id = links[r.identity]
      BY <1>0, <3>2 DEF Local, CallsOK, Call
    <3>4. BySignIn(call[x])
      BY DEF SignInsOK
    <3> QED
      BY <1>0, <2>1, <3>3, <3>4 DEF BySignIn
  <2>2. CASE d # c /\ e # c
    BY <1>2, <2>2 DEF SignInsOK, OwnIds
  <2> QED
    BY <1>2, <2>1, <2>2
<1> QED
  BY <1>4, <1>5, <1>9, <1>10, <1>11 DEF SignInsOK

(***************************************************************************)
(* So does a first sign-in that makes an account, which no other sign-in   *)
(* can have found.                                                         *)
(***************************************************************************)
LEMMA LinksMade ==
    ASSUME Types, LinksOK, SignInsOK, NEW c \in Clients, WriteProfile(c), CallsOK',
           UNCHANGED <<profile, renamed>>, raced \subseteq raced',
           NEW i \in NewIds,
           users' = [users EXCEPT ![i] = NewRow(call[c].name, 0, FALSE)],
           links' = [links EXCEPT ![call[c].identity] = i],
           Moved(c, [call[c] EXCEPT !.id = i, !.at = "standing"])
    PROVE  LinksOK' /\ SignInsOK'
<1> USE DEF Types
<1> DEFINE r == call[c]
           g == r.identity
           n == r.name
<1>0. r \in Call /\ g \in Identities /\ n \in Names /\ r.at = "profile" /\ BySignIn(r)
  BY DEF CallsOK, Call, WriteProfile, At, SignInsOK
<1>1. i \in Ids /\ users[i] = NoRow /\ i # NoOne
  BY NobodyAssumption DEF NewIds
<1>2. \A d \in Clients \ {c} : call'[d] = call[d]
  BY DEF Moved, CallsOK
<1>3. users'[i] # NoRow /\ users'[i].name = n /\ links'[g] = i
  <2>1. NewRow(n, 0, FALSE) \in Row /\ NewRow(n, 0, FALSE).name = n
    BY <1>0, TimeAssumption DEF NewRow, Row
  <2> QED
    BY <1>0, <1>1, <2>1, NobodyAssumption DEF TypeOK
<1>4. /\ \A j \in Ids : users[j] # NoRow => j # i /\ users'[j] = users[j]
      /\ \A h \in Identities : h # g => links'[h] = links[h]
      /\ \A h \in Identities : links[h] # NoOne =>
           links[h] \in Ids /\ links[h] # i /\ users[links[h]] # NoRow
  BY <1>1 DEF LinksOK, TypeOK
<1>5. LinksOK'
  <2>1. \A h \in Identities : links'[h] # NoOne => users'[links'[h]] # NoRow
    BY <1>3, <1>4
  <2>2. \A h, k \in Identities : links'[h] # NoOne /\ links'[h] = links'[k] => h = k
    BY <1>3, <1>4 DEF LinksOK
  <2> QED
    BY <2>1, <2>2 DEF LinksOK
<1>6. call'[c].at = "standing" /\ call'[c].id = i /\ call'[c].name = n /\ call'[c].identity = g
  BY <1>0 DEF Moved, CallsOK, Call
<1>7. BySignIn(call[c])'
  BY <1>1, <1>3, <1>6 DEF BySignIn, Faithful
<1>8. ASSUME NEW d \in Clients \ {c} PROVE BySignIn(call[d])'
  <2> DEFINE x == call[d]
  <2>1. /\ x.identity \in Identities /\ call'[d] = x /\ BySignIn(x) /\ x.id \in Ids \cup {NoOne}
    BY <1>2, <1>8 DEF CallsOK, Call, SignInsOK
  <2>2. ASSUME x.identity \notin renamed PROVE Faithful(call[d])'
    <3>1. Faithful(x)
      BY <2>1, <2>2 DEF BySignIn
    <3>2. CASE x.identity # g
      <4>1. links'[x.identity] = links[x.identity]
        BY <1>4, <2>1, <3>2
      <4>2. links[x.identity] # NoOne => users'[links[x.identity]] = users[links[x.identity]]
        BY <1>4, <2>1
      <4> QED
        BY <2>1, <3>1, <4>1, <4>2 DEF Faithful
    <3>3. CASE x.identity = g
      <4>1. links[g] = NoOne
        BY <1>0, <1>3, <1>4, <2>2, <3>3, LinkWritten
      <4>2. x.at = "profile" => x.id = NoOne
        BY <3>1, <3>3, <4>1 DEF Faithful
      <4>3. Faithful(r)
        BY <1>0, <2>2, <3>3 DEF BySignIn
      <4>4. n = profile[g]
        BY <1>0, <4>3 DEF Faithful
      <4> QED
        BY <1>3, <2>1, <3>1, <3>3, <4>2, <4>4 DEF Faithful
    <3> QED
      BY <3>2, <3>3
  <2>3. x.at = "profile" /\ x.id # NoOne => \A h \in Identities \ {x.identity} : links'[h] # x.id
    BY <1>3, <1>4, <2>1 DEF BySignIn
  <2> QED
    BY <1>4, <2>1, <2>2, <2>3 DEF BySignIn
<1>9. OwnIds'
  BY <1>2, <1>6 DEF SignInsOK, OwnIds
<1> QED
  BY <1>5, <1>7, <1>8, <1>9 DEF SignInsOK

(***************************************************************************)
(* And one that refreshes the account it found: no other identity is       *)
(* linked to it or about to be, and the name it gives up is marked.        *)
(***************************************************************************)
LEMMA LinksRefreshed ==
    ASSUME Types, LinksOK, SignInsOK, NEW c \in Clients, WriteProfile(c), CallsOK',
           UNCHANGED <<profile, renamed>>, raced \subseteq raced',
           call[c].id # NoOne,
           users' = [users EXCEPT ![call[c].id].name = call[c].name],
           links' = [links EXCEPT ![call[c].identity] = call[c].id],
           GivenUp(call[c].id, call[c].name) \subseteq raced',
           Moved(c, [call[c] EXCEPT !.id = call[c].id, !.at = "standing"])
    PROVE  LinksOK' /\ SignInsOK'
<1> USE DEF Types
<1> DEFINE r == call[c]
           g == r.identity
           n == r.name
           j == r.id
           row == [users[j] EXCEPT !.name = n]
<1>0. r \in Call /\ g \in Identities /\ n \in Names /\ r.at = "profile" /\ BySignIn(r) /\ j \in Ids
  BY DEF CallsOK, Call, WriteProfile, At, SignInsOK
<1>1. /\ users[j] \in Row /\ users[j] # NoRow
      /\ \A h \in Identities : h # g => links[h] # j
  BY <1>0 DEF BySignIn, TypeOK
<1>2. \A d \in Clients \ {c} : call'[d] = call[d]
  BY DEF Moved, CallsOK
<1>3. users'[j] # NoRow /\ users'[j].name = n /\ links'[g] = j
  <2>1. row \in Row /\ row.name = n
    BY <1>0, <1>1 DEF Row
  <2>2. users' = [users EXCEPT ![j] = row]
    OBVIOUS
  <2> HIDE DEF row
  <2> QED
    BY <1>0, <2>1, <2>2, NobodyAssumption DEF TypeOK
<1>4. /\ \A i \in Ids : i # j => users'[i] = users[i]
      /\ \A h \in Identities : h # g => links'[h] = links[h]
      /\ \A h \in Identities : links[h] # NoOne => links[h] \in Ids /\ users[links[h]] # NoRow
  BY <1>0 DEF LinksOK, TypeOK
<1> HIDE DEF row
<1>5. LinksOK'
  <2>1. \A h \in Identities : links'[h] # NoOne => users'[links'[h]] # NoRow
    BY <1>1, <1>3, <1>4
  <2>2. \A h, k \in Identities : links'[h] # NoOne /\ links'[h] = links'[k] => h = k
    BY <1>1, <1>3, <1>4 DEF LinksOK
  <2> QED
    BY <2>1, <2>2 DEF LinksOK
<1>6. call'[c].at = "standing" /\ call'[c].id = j /\ call'[c].name = n /\ call'[c].identity = g
  BY <1>0 DEF Moved, CallsOK, Call
<1>7. BySignIn(call[c])'
  BY <1>3, <1>6 DEF BySignIn, Faithful
<1>8. ASSUME NEW d \in Clients \ {c} PROVE BySignIn(call[d])'
  <2> DEFINE x == call[d]
  <2>1. /\ x.identity \in Identities /\ call'[d] = x /\ BySignIn(x) /\ x.id \in Ids \cup {NoOne}
    BY <1>2, <1>8 DEF CallsOK, Call, SignInsOK
  <2>2. ASSUME x.identity \notin renamed PROVE Faithful(call[d])'
    <3>1. Faithful(x)
      BY <2>1, <2>2 DEF BySignIn
    <3>2. CASE x.identity # g
      BY <1>1, <1>4, <2>1, <3>1, <3>2 DEF Faithful
    <3>3. CASE x.identity = g
      <4>1. Faithful(r)
        BY <1>0, <2>2, <3>3 DEF BySignIn
      <4>2. n = profile[g] /\ links[g] = j
        BY <1>0, <4>1 DEF Faithful
      <4> QED
        BY <1>3, <2>1, <3>1, <3>3, <4>2 DEF Faithful
    <3> QED
      BY <3>2, <3>3
  <2>3. x.at = "profile" /\ x.id # NoOne => \A h \in Identities \ {x.identity} : links'[h] # x.id
    <3> SUFFICES ASSUME x.at = "profile", x.id # NoOne, NEW h \in Identities \ {x.identity}
                 PROVE  links'[h] # x.id
      OBVIOUS
    <3>1. CASE h # g
      BY <1>4, <2>1, <3>1 DEF BySignIn
    <3>2. CASE h = g
      <4>1. x.id # j
        BY <1>0, <3>2 DEF SignInsOK, OwnIds
      <4> QED
        BY <1>3, <3>2, <4>1
    <3> QED
      BY <3>1, <3>2
  <2>4. x.at = "standing" => users'[x.id].name = x.name \/ x.name \in raced'
    <3> SUFFICES ASSUME x.at = "standing" PROVE users'[x.id].name = x.name \/ x.name \in raced'
      OBVIOUS
    <3>1. x.id # NoOne /\ (users[x.id].name = x.name \/ x.name \in raced)
      BY <2>1 DEF BySignIn
    <3>2. CASE x.id # j
      BY <1>4, <2>1, <3>1, <3>2
    <3>3. CASE x.id = j
      BY <1>3, <3>1, <3>3 DEF GivenUp
    <3> QED
      BY <3>2, <3>3
  <2>5. x.at \in {"profile", "standing"} /\ x.id # NoOne => users'[x.id] # NoRow
    BY <1>3, <1>4, <2>1 DEF BySignIn
  <2> QED
    BY <2>1, <2>2, <2>3, <2>4, <2>5 DEF BySignIn
<1>9. OwnIds'
  BY <1>2, <1>6 DEF SignInsOK, OwnIds
<1> QED
  BY <1>5, <1>7, <1>8, <1>9 DEF SignInsOK

(***************************************************************************)
(* Every step of a client keeps the links of identities that were not      *)
(* renamed in the middle of a sign-in.                                     *)
(***************************************************************************)
LEMMA LinksStep ==
    ASSUME Types, LinksOK, SignInsOK, NEW c \in Clients, ServeStep(c), CallsOK'
    PROVE  /\ LinksOK' /\ SignInsOK' /\ links' \in [Identities -> Ids \cup {NoOne}]
           /\ \A g \in Identities \ renamed : links[g] # NoOne => links'[g] = links[g]
<1> USE DEF Types
<1> DEFINE r == call[c]
<1>1. CASE ~WriteProfile(c)
  BY <1>1, LinksLeft DEF TypeOK
<1>2. CASE WriteProfile(c)
  <2>0. r \in Call /\ r.identity \in Identities /\ r.id \in Ids \cup {NoOne}
    BY DEF CallsOK, Call
  <2>1. UNCHANGED <<profile, renamed>> /\ raced \subseteq raced'
    BY <1>2, StepFrame, GivenUpNames DEF world
  <2>2. \A g \in Identities \ renamed : links[g] # NoOne => links'[g] = links[g]
    BY <1>2, LinkWritten
  <2>3. CASE Done(c, "failed") /\ UNCHANGED <<users, links>>
    <3>1. call'[c].at = "idle" /\ \A d \in Clients \ {c} : call'[d] = call[d]
      BY <2>3 DEF Done, Local, CallsOK, Idle
    <3>2. ASSUME NEW d \in Clients PROVE BySignIn(call[d])'
      <4>1. CASE d = c
        BY <3>1, <4>1 DEF BySignIn, Faithful
      <4>2. CASE d # c
        BY <2>1, <2>3, <3>1, <4>2 DEF BySignIn, Faithful, SignInsOK
      <4> QED
        BY <4>1, <4>2
    <3>3. OwnIds'
      BY <3>1 DEF SignInsOK, OwnIds
    <3> QED
      BY <2>2, <2>3, <3>2, <3>3 DEF LinksOK, SignInsOK, TypeOK
  <2>4. ASSUME NEW i \in NewIds,
               users' = [users EXCEPT ![i] = NewRow(r.name, 0, FALSE)],
               links' = [links EXCEPT ![r.identity] = i],
               Moved(c, [r EXCEPT !.id = i, !.at = "standing"])
        PROVE  LinksOK' /\ SignInsOK' /\ links' \in [Identities -> Ids \cup {NoOne}]
    <3>1. LinksOK' /\ SignInsOK'
      BY <1>2, <2>1, <2>4, LinksMade
    <3> QED
      BY <2>4, <3>1 DEF NewIds, TypeOK
  <2>5. CASE /\ r.id # NoOne
             /\ users' = [users EXCEPT ![r.id].name = r.name]
             /\ links' = [links EXCEPT ![r.identity] = r.id]
             /\ GivenUp(r.id, r.name) \subseteq raced'
             /\ Moved(c, [r EXCEPT !.id = r.id, !.at = "standing"])
    <3>1. LinksOK' /\ SignInsOK'
      BY <1>2, <2>1, <2>5, LinksRefreshed
    <3>2. links' \in [Identities -> Ids \cup {NoOne}]
      BY <2>0, <2>5 DEF TypeOK
    <3> QED
      BY <2>2, <3>1, <3>2
  <2> QED
    BY <1>2, <2>2, <2>3, <2>4, <2>5 DEF WriteProfile, Moved
<1> QED
  BY <1>1, <1>2

(***************************************************************************)
(* account_of answers the account of the token: the entry it finds has the *)
(* token's secret, and no other token was minted with that secret.         *)
(***************************************************************************)
LEMMA ToolsStep ==
    ASSUME Types, TokensOK, TokenReadsItsAccount, NEW c \in Clients, ServeStep(c)
    PROVE  TokenReadsItsAccount'
<1> USE DEF Types
<1> DEFINE r == call[c]
           Reads(q) == q.op = "tool" /\ q.answer = "ok" => q.id = q.token.account
<1>0. r \in Call /\ Where(r) /\ Reads(r)
  BY DEF CallsOK, TokenReadsItsAccount
<1>1. PICK q : call' = [call EXCEPT ![c] = q]
  BY StepIsLocal DEF Moved
<1>2. \A d \in Clients \ {c} : call'[d] = call[d]
  BY <1>1 DEF CallsOK
<1>3. Reads(call'[c])
  <2>1. CASE Begin(c)
    <3>1. PICK o \in Origins, w \in 1 .. passwords, g \in Identities,
               k \in 0 .. issued, u \in minted \cup {NoOne} :
            Local(c, [Idle EXCEPT !.op = Head(script[c]).op, !.name = Head(script[c]).name, !.from = o,
                                  !.password = w, !.identity = g, !.state = k, !.token = u,
                                  !.at = FirstStep(Head(script[c]).op)])
      BY <2>1 DEF Begin
    <3>2. call'[c].answer = "none"
      BY <3>1 DEF Local, CallsOK, Idle
    <3> QED
      BY <3>2
  <2>2. CASE VerifyToken(c)
    <3>1. CASE Goto(c, "bind")
      <4>1. /\ call'[c].op = r.op /\ call'[c].answer = r.answer
            /\ call'[c].id = r.id /\ call'[c].token = r.token
        BY <1>0, <3>1 DEF Goto, Local, CallsOK, Call
      <4> QED
        BY <1>0, <4>1
    <3>2. CASE Done(c, "unauthenticated")
      BY <3>2 DEF Done, Local, CallsOK, Idle
    <3> QED
      BY <2>2, <3>1, <3>2 DEF VerifyToken
  <2>3. CASE BindAccount(c)
    <3> DEFINE t == r.token
    <3>1. CASE /\ Valid(t)
               /\ Local(c, [Idle EXCEPT !.op = "tool", !.answer = "ok", !.token = t,
                                        !.id = tokens[t.expiry].account])
      <4> DEFINE u == [expiry |-> t.expiry, secret |-> tokens[t.expiry].secret,
                       account |-> tokens[t.expiry].account]
      <4>1. t \in minted
        BY <2>3 DEF BindAccount, At, TokensOK
      <4>2. u \in minted /\ u.secret = t.secret
        BY <3>1 DEF Valid, TokensOK
      <4>3. u = t
        <5> HIDE DEF u, t
        <5> QED BY <4>1, <4>2 DEF TokensOK
      <4>4. t.account = tokens[t.expiry].account
        BY <4>3
      <4>5. call'[c].token = t /\ call'[c].id = tokens[t.expiry].account
        BY <3>1 DEF Local, CallsOK, Idle
      <4> QED
        BY <4>4, <4>5
    <3>2. CASE Done(c, "tool_error")
      BY <3>2 DEF Done, Local, CallsOK, Idle
    <3> QED
      BY <2>3, <3>1, <3>2 DEF BindAccount
  <2>4. CASE call'[c].op # "tool"
    BY <2>4
  <2> QED
    BY <2>1, <2>2, <2>3, <2>4, StepTo
<1> QED
  BY <1>2, <1>3 DEF TokenReadsItsAccount

-----------------------------------------------------------------------------
(***************************************************************************)
(* The inductive invariant: the types, the steps a call may be at, the     *)
(* links and the sign-ins that are about to make one, and the tokens.      *)
(***************************************************************************)
IInv == Types /\ LinksOK /\ SignInsOK /\ TokensOK /\ TokenReadsItsAccount

(***************************************************************************)
(* Init establishes the invariant.                                         *)
(***************************************************************************)
LEMMA InitIInv == Init => IInv
<1> SUFFICES ASSUME Init PROVE IInv
  OBVIOUS
<1>1. CallsOK
  BY IdleIsCall DEF Init, CallsOK
<1>2. CountsOK
  BY ScriptsAssumption DEF Init, CountsOK
<1>3. UsersOK
  <2>1. CASE users = [i \in Ids |-> NoRow]
    BY <2>1 DEF UsersOK, NamesApart
  <2>2. ASSUME NEW n \in Names,
               users = [i \in Ids |-> IF i = CHOOSE i0 \in Ids : TRUE THEN NewRow(n, 1, FALSE) ELSE NoRow]
        PROVE  UsersOK
    <3>1. NewRow(n, 1, FALSE) \in Row
      BY TimeAssumption DEF NewRow, Row
    <3> QED
      BY <2>2, <3>1 DEF UsersOK, NamesApart
  <2> QED
    BY <2>1, <2>2 DEF Init
<1>4. TypeOK
  <2>1. 0 \in 0 .. MaxTime /\ 0 \in 0 .. MaxRestarts
    BY TimeAssumption
  <2>2. /\ SessionsOK /\ FailuresOK /\ PendingOK /\ EntriesOK /\ MintedOK
        /\ links \in [Identities -> Ids \cup {NoOne}] /\ refused \in [Names -> Nat]
        /\ renamed = {}
    BY DEF Init, SessionsOK, FailuresOK, PendingOK, EntriesOK, MintedOK
  <2>3. \A c \in Clients : call[c].at \in Steps /\ call[c].name \in Names
    BY <1>1 DEF CallsOK, Call
  <2> QED
    BY <1>3, <2>1, <2>2, <2>3 DEF Init, TypeOK, UsersOK, NamesApart, SessionsOK, FailuresOK,
       PendingOK, EntriesOK, MintedOK
<1>5. LinksOK
  BY DEF Init, LinksOK
<1>6. \A c \in Clients : call[c].at = "idle" /\ call[c].op = "page"
  BY DEF Init, Idle
<1>7. SignInsOK /\ TokenReadsItsAccount
  BY <1>6 DEF SignInsOK, OwnIds, BySignIn, Faithful, TokenReadsItsAccount
<1>8. TokensOK
  BY <1>6, FS_EmptySet DEF Init, TokensOK
<1> QED
  BY <1>1, <1>2, <1>4, <1>5, <1>7, <1>8 DEF IInv, Types

(***************************************************************************)
(* A step of a client preserves it.                                        *)
(***************************************************************************)
LEMMA ServeIInv ==
    ASSUME IInv, NEW c \in Clients, ServeStep(c)
    PROVE  IInv' /\ \A g \in Identities \ renamed : links[g] # NoOne => links'[g] = links[g]
<1> USE DEF IInv, Types
<1>1. CallsOK'
  BY CallsStep
<1>2. UsersOK'
  BY UsersStep
<1>3. SessionsOK' /\ FailuresOK' /\ PendingOK' /\ refused' \in [Names -> Nat]
  BY MemoryStep
<1>4. TokensOK' /\ EntriesOK' /\ MintedOK'
  BY TokensStep
<1>5. /\ LinksOK' /\ SignInsOK' /\ links' \in [Identities -> Ids \cup {NoOne}]
      /\ \A g \in Identities \ renamed : links[g] # NoOne => links'[g] = links[g]
  BY <1>1, LinksStep
<1>6. TokenReadsItsAccount'
  BY ToolsStep
<1>7. /\ profile' \in [Identities -> Names] /\ now' \in 0 .. MaxTime /\ restarts' \in 0 .. MaxRestarts
      /\ renamed' \subseteq Identities
  BY StepFrame DEF world, TypeOK
<1>8. appState' \subseteq Names
  <2>1. CASE PutState(c)
    BY <2>1 DEF PutState, TypeOK
  <2>2. CASE UNCHANGED appState
    BY <2>2 DEF TypeOK
  <2> QED
    BY <2>1, <2>2, StepFrame
<1>9. raced' \subseteq Names
  <2>1. Racing(call') \subseteq Names
    BY DEF Racing
  <2>2. CASE raced' = raced \cup Racing(call')
    BY <2>1, <2>2 DEF TypeOK
  <2>3. CASE WriteProfile(c)
    BY <2>3, GivenUpNames
  <2> QED
    BY <2>2, <2>3, StepIsLocal
<1>10. TypeOK'
  <2>1. \A d \in Clients : call'[d].at \in Steps /\ call'[d].name \in Names
    BY <1>1 DEF CallsOK, Call
  <2> QED
    BY <1>2, <1>3, <1>4, <1>5, <1>7, <1>8, <1>9, <2>1 DEF TypeOK, UsersOK, NamesApart,
       SessionsOK, FailuresOK, PendingOK, EntriesOK, MintedOK
<1>11. CountsOK'
  <2>1. passwords' \in Nat
    <3>1. Write(c) \/ CreateUser(c) => passwords' \in {passwords, passwords + 1}
      BY DEF Write, CreateUser
    <3> QED
      BY <3>1, StepFrame DEF CountsOK
  <2>2. issued' \in Nat
    <3>1. Issue(c) \/ Consume(c) => issued' \in {issued, issued + 1}
      BY DEF Issue, Consume, counts
    <3> QED
      BY <3>1, StepFrame DEF CountsOK
  <2>3. script' \in [Clients -> Seq([op : Ops, name : Names])]
    <3>1. CASE Begin(c)
      <4>1. script[c] # << >> /\ script' = [script EXCEPT ![c] = Tail(script[c])]
        BY <3>1 DEF Begin
      <4>2. Tail(script[c]) \in Seq([op : Ops, name : Names])
        BY <4>1, HeadTailProperties DEF CountsOK
      <4> QED
        BY <4>1, <4>2 DEF CountsOK
    <3>2. CASE UNCHANGED script
      BY <3>2 DEF CountsOK
    <3> QED
      BY <3>1, <3>2, StepFrame
  <2> QED
    BY <2>1, <2>2, <2>3 DEF CountsOK
<1> QED
  BY <1>1, <1>4, <1>5, <1>6, <1>10, <1>11

(***************************************************************************)
(* So does a step of the world around them.                                *)
(***************************************************************************)
LEMMA WorldIInv ==
    ASSUME IInv, Tick \/ RenameAtProvider \/ Restart
    PROVE  IInv' /\ links' = links
<1> USE DEF IInv, Types
<1>1. CASE Tick
  <2>1. now \in 0 .. MaxTime /\ now' \in 0 .. MaxTime /\ now' = now + 1
    BY <1>1, TimeAssumption DEF Tick, TypeOK
  <2>2. UNCHANGED <<users, links, appState, sessions, failures, pending, tokens, profile, script,
                    call, passwords, issued, minted, restarts, raced, renamed, refused>>
    BY <1>1 DEF Tick, store, memory, counts
  <2>3. TypeOK'
    BY <2>1, <2>2 DEF TypeOK
  <2>4. CallsOK' /\ CountsOK' /\ LinksOK' /\ TokensOK' /\ TokenReadsItsAccount'
    BY <2>2 DEF CallsOK, CountsOK, LinksOK, TokensOK, TokenReadsItsAccount
  <2>5. SignInsOK'
    BY <2>2 DEF SignInsOK, OwnIds, BySignIn, Faithful
  <2> QED
    BY <2>2, <2>3, <2>4, <2>5
<1>2. CASE RenameAtProvider
  <2>1. UNCHANGED <<users, links, appState, sessions, failures, pending, tokens, now, script,
                    call, passwords, issued, minted, restarts, raced, refused>>
    BY <1>2 DEF RenameAtProvider, store, memory, counts
  <2>2. PICK g \in Identities, n \in Names :
          /\ profile' = [profile EXCEPT ![g] = n]
          /\ renamed' = renamed \cup {h \in {g} : \E c \in Clients : Holding(c) /\ call[c].identity = h}
    BY <1>2 DEF RenameAtProvider
  <2>3. TypeOK'
    BY <2>1, <2>2 DEF TypeOK
  <2>4. CallsOK' /\ CountsOK' /\ LinksOK' /\ TokensOK' /\ TokenReadsItsAccount' /\ OwnIds'
    BY <2>1 DEF CallsOK, CountsOK, LinksOK, TokensOK, TokenReadsItsAccount, SignInsOK, OwnIds
  <2>5. ASSUME NEW c \in Clients PROVE BySignIn(call[c])'
    <3>1. BySignIn(call[c]) /\ call[c].identity \in Identities
      BY DEF SignInsOK, CallsOK, Call
    <3>2. ASSUME call[c].identity \notin renamed' PROVE Faithful(call[c])'
      <4>1. Faithful(call[c])
        BY <2>2, <3>1, <3>2 DEF BySignIn
      <4>2. CASE call[c].at \in {"link", "profile"}
        <5>1. call[c].identity # g
          BY <2>2, <3>2, <4>2 DEF Holding, At
        <5>2. profile'[call[c].identity] = profile[call[c].identity]
          BY <2>2, <3>1, <5>1 DEF TypeOK
        <5> QED
          BY <2>1, <4>1, <5>2 DEF Faithful
      <4>3. CASE call[c].at \notin {"link", "profile"}
        BY <2>1, <4>3 DEF Faithful
      <4> QED
        BY <4>2, <4>3
    <3> QED
      BY <2>1, <3>1, <3>2 DEF BySignIn
  <2> QED
    BY <2>1, <2>3, <2>4, <2>5 DEF SignInsOK
<1>3. CASE Restart
  <2>1. /\ UNCHANGED <<users, links, appState, profile, now, script, passwords, issued, minted, raced, renamed>>
        /\ restarts' \in 0 .. MaxRestarts
        /\ sessions' = [n \in Names |-> NoSession] /\ refused' = [n \in Names |-> 0]
        /\ failures' = << >> /\ pending' = << >> /\ tokens' = << >>
        /\ call' = [c \in Clients |-> IF call[c].op \in AdminOps THEN call[c] ELSE Idle]
    BY <1>3, TimeAssumption DEF Restart, store, counts, TypeOK
  <2>2. \A c \in Clients : call'[c] = call[c] \/ call'[c] = Idle
    BY <2>1
  <2>3. CallsOK'
    BY <2>1, <2>2, IdleIsCall DEF CallsOK
  <2>4. TypeOK'
    <3>1. \A d \in Clients : call'[d].at \in Steps /\ call'[d].name \in Names
      BY <2>3 DEF CallsOK, Call
    <3> QED
      BY <2>1, <3>1 DEF TypeOK
  <2>5. CountsOK' /\ LinksOK'
    BY <2>1 DEF CountsOK, LinksOK
  <2>6. Idle.at = "idle" /\ Idle.op = "page"
    BY DEF Idle
  <2>7. SignInsOK'
    BY <2>1, <2>2, <2>6 DEF SignInsOK, OwnIds, BySignIn, Faithful
  <2>8. TokensOK' /\ TokenReadsItsAccount'
    BY <2>1, <2>2, <2>6 DEF TokensOK, TokenReadsItsAccount
  <2> QED
    BY <2>1, <2>3, <2>4, <2>5, <2>7, <2>8
<1> QED
  BY <1>1, <1>2, <1>3

(***************************************************************************)
(* The invariant is inductive, and a step keeps the links there are.       *)
(***************************************************************************)
LEMMA NextIInv ==
    ASSUME IInv, [Next]_vars
    PROVE  IInv' /\ \A g \in Identities \ renamed : links[g] # NoOne => links'[g] = links[g]
<1>1. CASE \E c \in Clients : ServeStep(c)
  BY <1>1, ServeIInv
<1>2. CASE Tick \/ RenameAtProvider \/ Restart
  BY <1>2, WorldIInv
<1>3. CASE UNCHANGED vars
  <2>1. UNCHANGED <<users, links, appState, sessions, failures, pending, tokens, profile, now, script,
                    call, passwords, issued, minted, restarts, raced, renamed, refused>>
    BY <1>3 DEF vars
  <2>2. TypeOK' /\ CallsOK' /\ CountsOK' /\ LinksOK' /\ TokensOK' /\ TokenReadsItsAccount'
    BY <2>1 DEF IInv, Types, TypeOK, CallsOK, CountsOK, LinksOK, TokensOK, TokenReadsItsAccount
  <2>3. SignInsOK'
    BY <2>1 DEF IInv, SignInsOK, OwnIds, BySignIn, Faithful
  <2> QED
    BY <2>1, <2>2, <2>3 DEF IInv, Types
<1> QED
  BY <1>1, <1>2, <1>3 DEF Next

(***************************************************************************)
(* The invariant holds always.                                             *)
(***************************************************************************)
LEMMA Always == Spec => []IInv
<1>1. IInv /\ [Next]_vars => IInv'
  BY NextIInv
<1> QED
  BY <1>1, InitIInv, PTL DEF Spec

(***************************************************************************)
(* The tables and the server's memory hold what their types say, and no    *)
(* two accounts ever share a name (the UNIQUE column, which create_user    *)
(* and upsert_provider_user run into).                                     *)
(***************************************************************************)
THEOREM TypesHold == Spec => []TypeOK
<1>1. IInv => TypeOK
  BY DEF IInv, Types
<1> QED
  BY <1>1, Always, PTL

(***************************************************************************)
(* A tool reads for the account its token was minted for, however many     *)
(* tokens are minted, expire and share an instant meanwhile.               *)
(***************************************************************************)
THEOREM ToolsReadTheirAccount == Spec => []TokenReadsItsAccount
<1>1. IInv => TokenReadsItsAccount
  BY DEF IInv
<1> QED
  BY <1>1, Always, PTL

(***************************************************************************)
(* An identity keeps the account it was first linked to, with any number   *)
(* of sign-ins at once, until it is renamed at its provider while one of   *)
(* them holds the name it had: the UNIQUE name is what refuses a second    *)
(* account.                                                                *)
(***************************************************************************)
THEOREM LinksAreKept == Spec => LinkKept
<1>1. IInv /\ [Next]_vars => \A g \in Identities \ renamed : links[g] # NoOne => links'[g] = links[g]
  BY NextIInv
<1>2. IInv /\ [Next]_vars =>
        [\A g \in Identities \ renamed : links[g] # NoOne => links'[g] = links[g]]_vars
  BY <1>1
<1> QED
  BY <1>2, Always, PTL DEF Spec, LinkKept

-----------------------------------------------------------------------------
(***************************************************************************)
(* The steps that lead into the parts of a call that read or judge an      *)
(* account or a session, or are about to write.                            *)
(***************************************************************************)
LEMMA StepInto ==
    ASSUME CallsOK, NEW c \in Clients, ServeStep(c)
    PROVE  /\ call'[c].at = "read"    => Delay(c) \/ Resolve(c)
           /\ call'[c].at = "judge"   => ReadCredentials(c)
           /\ call'[c].at = "session" => RecordLogin(c) \/ Standing(c)
           /\ call'[c].at = "account" => GetSession(c)
           /\ call'[c].at = "drop"    => Resolve(c)
           /\ call'[c].at = "end"     => Resolve(c)
           /\ call'[c].at = "write"   => Stamp(c) \/ Begin(c)
<1> DEFINE r == call[c]
<1>0. r \in Call /\ Where(r) /\ r.at \in StepsOf(r.op) /\ r.op \in Ops
  BY DEF CallsOK, Call, Where
<1>b. ASSUME NEW answer, Done(c, answer)
      PROVE  call'[c].at = "idle"
  BY <1>b DEF Done, Local, CallsOK, Call, Idle
<1>c. ASSUME NEW step, Goto(c, step)
      PROVE  call'[c].at = step
  BY <1>0, <1>c DEF Goto, Local, CallsOK, Call
<1>d. ASSUME NEW q, Local(c, q)
      PROVE  call'[c] = q
  BY <1>d DEF Local, CallsOK
<1>1. CASE Begin(c)
  <2>1. PICK o, w, g, k, u :
          Local(c, [Idle EXCEPT !.op = Head(script[c]).op, !.name = Head(script[c]).name, !.from = o,
                                !.password = w, !.identity = g, !.state = k, !.token = u,
                                !.at = FirstStep(Head(script[c]).op)])
    BY <1>1 DEF Begin
  <2>2. call'[c].at = FirstStep(Head(script[c]).op)
    BY <2>1, <1>d DEF Idle
  <2>3. call'[c].at \notin {"read", "judge", "session", "account", "drop", "end"}
    BY <2>2 DEF FirstStep
  <2> QED
    BY <1>1, <2>3
<1>2. CASE Delay(c)
  BY <1>2, <1>b, <1>c DEF Delay
<1>3. CASE ReadCredentials(c)
  BY ZenonT(40), <1>3, <1>0, <1>d DEF ReadCredentials, Call
<1>4. CASE RefuseLogin(c)
  BY <1>4, <1>b DEF RefuseLogin
<1>5. CASE RecordLogin(c)
  BY <1>5, <1>b, <1>c DEF RecordLogin
<1>6. CASE CreateSession(c)
  BY <1>6, <1>b, <1>c DEF CreateSession
<1>7. CASE RecordSuccess(c)
  BY <1>7, <1>b DEF RecordSuccess
<1>8. CASE GetSession(c)
  BY <1>8, <1>0, <1>b, <1>d DEF GetSession, Call
<1>9. CASE Resolve(c)
  <2>1. r.op \in PageOps
    BY <1>9, <1>0, PageSteps DEF Resolve, At
  <2>2. AfterResolve(r.op) \in {"temporary", "read", "end"}
    BY <2>1 DEF AfterResolve, PageOps
  <2> QED
    BY <1>9, <1>c, <2>2 DEF Resolve
<1>10. CASE DropSession(c)
  BY <1>10, <1>b DEF DropSession
<1>11. CASE Temporary(c)
  BY <1>11, <1>b, <1>c DEF Temporary
<1>12. CASE Owner(c)
  BY <1>12, <1>b DEF Owner
<1>13. CASE PutState(c)
  BY <1>13, <1>b DEF PutState
<1>14. CASE Prove(c)
  BY <1>14, <1>b, <1>c DEF Prove
<1>15. CASE Stamp(c)
  BY <1>15, <1>0, <1>d DEF Stamp, Call
<1>16. CASE Write(c)
  BY <1>16, <1>b DEF Write
<1>17. CASE CreateUser(c)
  BY <1>17, <1>b DEF CreateUser
<1>18. CASE Issue(c)
  BY <1>18, <1>b DEF Issue
<1>19. CASE Consume(c)
  BY <1>19, <1>b, <1>c DEF Consume
<1>20. CASE Exchange(c)
  BY <1>20, <1>0, <1>b, <1>d DEF Exchange, Call
<1>21. CASE FindLink(c)
  BY <1>21, <1>0, <1>d DEF FindLink, Call
<1>22. CASE WriteProfile(c)
  <2>1. ASSUME NEW i, Moved(c, [r EXCEPT !.id = i, !.at = "standing"])
        PROVE  call'[c].at = "standing"
    BY <1>0, <2>1 DEF Moved, CallsOK, Call
  <2>2. call'[c].at \in {"idle", "standing"}
    BY <1>22, <1>b, <2>1 DEF WriteProfile, Moved
  <2> QED
    BY <2>2
<1>23. CASE Standing(c)
  BY <1>23, <1>0, <1>b, <1>d DEF Standing, Call
<1>24. CASE Mint(c)
  BY <1>24, <1>b DEF Mint
<1>25. CASE VerifyToken(c)
  BY <1>25, <1>b, <1>c DEF VerifyToken
<1>26. CASE BindAccount(c)
  BY <1>26, <1>b, <1>d DEF BindAccount, Idle
<1> QED
  BY <1>1, <1>2, <1>3, <1>4, <1>5, <1>6, <1>7, <1>8, <1>9, <1>10, <1>11, <1>12, <1>13,
     <1>14, <1>15, <1>16, <1>17, <1>18, <1>19, <1>20, <1>21, <1>22, <1>23, <1>24, <1>25, <1>26 DEF ServeStep

-----------------------------------------------------------------------------
(***************************************************************************)
(* The throttle.  A sign-in that was let past the delay and has not failed *)
(* yet is a guess still to be counted.  What a name has failed so far, and *)
(* what its guesses may still fail, stay below the bound: an attempt was   *)
(* let past only while the failures counted were few, or a unit of time    *)
(* after the last of them.                                                 *)
(***************************************************************************)
NameKey(n)  == <<"username", n>>
Guessing(n) == {c \in Clients : call[c].op = "login" /\ call[c].at \in {"read", "judge"} /\ call[c].name = n}

Parallel    == Cardinality(Clients)

Throttled(n) ==
    /\ refused[n] + Cardinality(Guessing(n)) <= MaxAttempts - 1 + Parallel * (now + 1)
    /\ NameKey(n) \notin DOMAIN failures => refused[n] = 0
    /\ NameKey(n) \in DOMAIN failures =>
         LET failed == failures[NameKey(n)] IN
         /\ refused[n] <= MaxAttempts - 1 + Parallel * (failed.last + 1)
         /\ failed.count < MaxAttempts => refused[n] <= failed.count + Parallel * failed.last

ThrottleInv == \A n \in Names : Throttled(n)

(***************************************************************************)
(* A delay is owed after MaxAttempts failures, of one unit or more.        *)
(***************************************************************************)
LEMMA PowerPositive == ASSUME NEW k \in Nat PROVE 2 ^ k \in Nat \ {0}
<1>1. IsFiniteSet(1 .. k) /\ Cardinality(1 .. k) = k
  BY FS_Interval
<1>2. IsFiniteSet(SUBSET (1 .. k)) /\ Cardinality(SUBSET (1 .. k)) = 2 ^ k
  BY <1>1, FS_SUBSET
<1>3. Cardinality(SUBSET (1 .. k)) \in Nat
  BY <1>2, FS_CardinalityType
<1>4. Cardinality(SUBSET (1 .. k)) # 0
  <2>1. SUBSET (1 .. k) # {}
    OBVIOUS
  <2> QED
    BY <1>2, <2>1, FS_EmptySet
<1> QED
  BY <1>2, <1>3, <1>4

LEMMA DelayPositive ==
    ASSUME NEW count \in Nat, count >= MaxAttempts
    PROVE  DelayFor(count) \in Nat \ {0}
<1>1. MaxAttempts \in Nat /\ MaxDelay \in Nat \ {0} /\ count - MaxAttempts \in Nat
  BY TimeAssumption
<1>2. 2 ^ (count - MaxAttempts) \in Nat \ {0}
  BY <1>1, PowerPositive
<1> QED
  BY <1>1, <1>2 DEF DelayFor

(***************************************************************************)
(* Products with the number of clients grow with the other factor.         *)
(***************************************************************************)
LEMMA ParallelType == Parallel \in Nat
  BY WorldAssumption, FS_CardinalityType DEF Parallel

LEMMA ProductGrows ==
    ASSUME NEW m \in Nat, NEW a \in Nat, NEW b \in Nat, a <= b
    PROVE  m * a \in Nat /\ m * b \in Nat /\ m * a <= m * b /\ m * (a + 1) = m * a + m
<1>1. m * b = m * a + m * (b - a)
  OBVIOUS
<1>2. m * (b - a) \in Nat
  OBVIOUS
<1>3. m * a \in Nat
  OBVIOUS
<1> QED
  BY <1>1, <1>2, <1>3

LEMMA GuessesFinite ==
    ASSUME NEW n \in Names
    PROVE  /\ IsFiniteSet(Guessing(n)) /\ Cardinality(Guessing(n)) \in 0 .. Parallel
           /\ IsFiniteSet(Guessing(n)') /\ Cardinality(Guessing(n)') \in 0 .. Parallel
<1>1. ASSUME NEW S \in SUBSET Clients
      PROVE  IsFiniteSet(S) /\ Cardinality(S) \in 0 .. Parallel
  <2>1. IsFiniteSet(S) /\ Cardinality(S) <= Parallel
    BY WorldAssumption, FS_Subset DEF Parallel
  <2> QED
    BY <2>1, FS_CardinalityType, ParallelType
<1>2. Guessing(n) \in SUBSET Clients /\ Guessing(n)' \in SUBSET Clients
  BY DEF Guessing
<1> QED
  BY <1>1, <1>2

(***************************************************************************)
(* A step that leaves a name's counts alone and lets no guess past.        *)
(***************************************************************************)
LEMMA QuietStep ==
    ASSUME IInv, NEW n \in Names, Throttled(n), refused'[n] = refused[n],
           NameKey(n) \in DOMAIN failures' <=> NameKey(n) \in DOMAIN failures,
           NameKey(n) \in DOMAIN failures => failures'[NameKey(n)] = failures[NameKey(n)],
           Guessing(n)' \subseteq Guessing(n), now' \in Nat, now <= now'
    PROVE  Throttled(n)'
<1> DEFINE G == Guessing(n)
           R == refused[n]
           G1 == G'
<1>1. Cardinality(G) \in Nat /\ Cardinality(G1) \in Nat /\ Cardinality(G1) <= Cardinality(G)
  <2>1. IsFiniteSet(G) /\ Cardinality(G) \in Nat /\ Cardinality(G1) \in Nat
    BY GuessesFinite, ParallelType
  <2> QED
    BY <2>1, FS_Subset
<1>2. now \in Nat /\ MaxAttempts \in Nat /\ R \in Nat
  BY TimeAssumption DEF IInv, Types, TypeOK
<1>3. Parallel * (now + 1) \in Nat /\ Parallel * (now' + 1) \in Nat
      /\ Parallel * (now + 1) <= Parallel * (now' + 1)
  <2>0. ASSUME NEW a \in Nat, NEW b \in Nat, a <= b
        PROVE  a + 1 \in Nat /\ b + 1 \in Nat /\ a + 1 <= b + 1
    BY <2>0
  <2>1. now + 1 \in Nat /\ now' + 1 \in Nat /\ now + 1 <= now' + 1
    BY <1>2, <2>0
  <2> QED
    BY <2>1, ParallelType, ProductGrows
<1>4. R + Cardinality(G) <= MaxAttempts - 1 + Parallel * (now + 1)
  BY DEF Throttled
<1>5. refused'[n] + Cardinality(G1) <= MaxAttempts - 1 + Parallel * (now' + 1)
  <2> HIDE DEF G, R, G1
  <2> DEFINE x == Parallel * (now + 1)
             y == Parallel * (now' + 1)
  <2>1. x \in Nat /\ y \in Nat /\ x <= y /\ R + Cardinality(G) <= MaxAttempts - 1 + x
    BY <1>3, <1>4
  <2>2. refused'[n] = R
    BY DEF R
  <2> HIDE DEF x, y
  <2>3. R + Cardinality(G1) <= MaxAttempts - 1 + y
    BY <1>1, <1>2, <2>1
  <2> QED
    BY <2>2, <2>3 DEF y
<1>6. Parallel' = Parallel
  BY DEF Parallel
<1> QED
  BY <1>5, <1>6 DEF Throttled, NameKey, Parallel

(***************************************************************************)
(* A sign-in let past the delay: nothing was owed for its name, so that    *)
(* few failures are counted, or time has passed since the last of them.    *)
(***************************************************************************)
LEMMA OwedNothing ==
    ASSUME IInv, MaxAttempts <= Decay, NEW n \in Names, Throttled(n), ~(Owed(NameKey(n)) > 0)
    PROVE  refused[n] <= MaxAttempts - 1 + Parallel * now
<1> DEFINE k == NameKey(n)
           R == refused[n]
<1>1. now \in Nat /\ MaxAttempts \in Nat \ {0} /\ R \in Nat /\ Decay \in Nat /\ Parallel * now \in Nat
  <2>1. now \in Nat /\ MaxAttempts \in Nat \ {0} /\ R \in Nat /\ Decay \in Nat
    BY TimeAssumption DEF IInv, Types, TypeOK
  <2> QED
    BY <2>1, ParallelType, ProductGrows
<1>2. CASE k \notin DOMAIN failures
  BY <1>1, <1>2 DEF Throttled
<1>3. CASE k \in DOMAIN failures
  <2> DEFINE count == failures[k].count
             last == failures[k].last
  <2>1. count \in Nat /\ last \in Nat /\ last <= now
    BY <1>1, <1>3 DEF IInv, Types, TypeOK
  <2>2. /\ R <= MaxAttempts - 1 + Parallel * (last + 1)
        /\ count < MaxAttempts => R <= count + Parallel * last
    BY <1>3 DEF Throttled
  <2>3. CASE last + 1 <= now
    <3>1. Parallel * (last + 1) \in Nat /\ Parallel * (last + 1) <= Parallel * now
      <4>1. last + 1 \in Nat
        BY <2>1
      <4> QED
        BY <1>1, <2>3, <4>1, ParallelType, ProductGrows
    <3> QED
      <4> DEFINE x == Parallel * (last + 1)
                 y == Parallel * now
      <4>1. R <= MaxAttempts - 1 + x /\ x \in Nat /\ y \in Nat /\ x <= y
        BY <1>1, <2>2, <3>1
      <4> HIDE DEF x, y
      <4>2. R <= MaxAttempts - 1 + y
        BY <1>1, <4>1
      <4> QED
        BY <4>2 DEF y
  <2>4. CASE ~(last + 1 <= now)
    <3>1. last = now /\ Elapsed(k) = 0
      BY <1>1, <2>1, <2>4 DEF Elapsed
    <3>2. Current(k) = count
      BY <1>1, <1>3, <3>1 DEF Current
    <3>3. count < MaxAttempts
      <4>1. SUFFICES ASSUME count >= MaxAttempts PROVE FALSE
        BY <1>1, <2>1
      <4>2. DelayFor(count) \in Nat \ {0}
        BY <2>1, <4>1, DelayPositive
      <4>3. Owed(k) = DelayFor(count) - 0
        BY <1>3, <3>1, <3>2 DEF Owed
      <4> QED
        BY <4>2, <4>3
    <3>4. R <= count + Parallel * now
      BY <2>2, <3>1, <3>3
    <3> QED
      <4> DEFINE y == Parallel * now
      <4>1. R <= count + y /\ y \in Nat
        BY <1>1, <3>4
      <4> HIDE DEF y
      <4>2. R <= MaxAttempts - 1 + y
        BY <1>1, <2>1, <3>3, <4>1
      <4> QED
        BY <4>2 DEF y
  <2> QED
    BY <2>3, <2>4
<1> QED
  BY <1>2, <1>3

LEMMA DelayStep ==
    ASSUME IInv, MaxAttempts <= Decay, NEW n \in Names, Throttled(n), ~(Owed(NameKey(n)) > 0),
           UNCHANGED <<failures, refused, now>>
    PROVE  Throttled(n)'
<1> DEFINE x == Parallel * now
           R == refused[n]
           g == Cardinality(Guessing(n)')
<1>1. now \in Nat /\ MaxAttempts \in Nat \ {0} /\ R \in Nat
  BY TimeAssumption DEF IInv, Types, TypeOK
<1>2. x \in Nat /\ Parallel * (now + 1) = x + Parallel
  BY <1>1, ParallelType, ProductGrows
<1>3. R <= MaxAttempts - 1 + x
  BY OwedNothing
<1>4. g \in 0 .. Parallel
  BY GuessesFinite
<1>5. R + g <= MaxAttempts - 1 + Parallel * (now + 1)
  <2> HIDE DEF x, R, g
  <2>1. R + g <= MaxAttempts - 1 + (x + Parallel)
    BY <1>1, <1>2, <1>3, <1>4, ParallelType
  <2> QED
    BY <1>2, <2>1
<1>6. Parallel' = Parallel
  BY DEF Parallel
<1> QED
  BY <1>5, <1>6 DEF Throttled, NameKey

(***************************************************************************)
(* A refused guess is counted: what was still to be counted of it now is.  *)
(***************************************************************************)
LEMMA RefuseStep ==
    ASSUME IInv, ThrottleInv, MaxAttempts <= Decay, NEW c \in Clients, RefuseLogin(c), NEW n \in Names,
           \A d \in Clients \ {c} : call'[d] = call[d], call'[c].at = "idle"
    PROVE  Throttled(n)'
<1> DEFINE r == call[c]
           k == NameKey(n)
           R == refused[n]
           G == Guessing(n)
           g == Cardinality(G)
           P == Parallel
<1>0. r \in Call /\ Where(r) /\ Throttled(n)
  BY DEF IInv, Types, CallsOK, ThrottleInv
<1>1. /\ now \in Nat /\ MaxAttempts \in Nat \ {0} /\ R \in Nat /\ Decay \in Nat
      /\ refused \in [Names -> Nat]
  BY TimeAssumption DEF IInv, Types, TypeOK
<1>2. now' = now
  BY DEF RefuseLogin, world
<1>3. /\ failures' = [x \in DOMAIN failures \cup KeysOf(c) |->
                      IF x \in KeysOf(c) THEN [count |-> Current(x) + 1, last |-> now]
                      ELSE failures[x]]
      /\ refused' = [refused EXCEPT ![r.name] = @ + 1]
      /\ r.at = "judge"
  BY DEF RefuseLogin, At
<1>4. CASE r.name # n
  <2>1. k \notin KeysOf(c)
    BY <1>4 DEF KeysOf, NameKey
  <2>2. Guessing(n)' \subseteq Guessing(n)
    BY DEF Guessing
  <2>3. /\ refused'[n] = refused[n]
        /\ NameKey(n) \in DOMAIN failures' <=> NameKey(n) \in DOMAIN failures
        /\ NameKey(n) \in DOMAIN failures => failures'[NameKey(n)] = failures[NameKey(n)]
    BY <1>1, <1>3, <1>4, <2>1
  <2>4. now' \in Nat /\ now <= now'
    BY <1>1, <1>2
  <2> QED
    BY <1>0, <2>2, <2>3, <2>4, QuietStep
<1>5. CASE r.name = n
  <2>1. r.op = "login"
    BY <1>0, <1>3 DEF Where, StepsOf, Call, Ops, AdminOps, SignInOps, PageOps
  <2>2. c \in G /\ Guessing(n)' = G \ {c}
    BY <1>3, <1>5, <2>1 DEF Guessing
  <2>3. P \in Nat /\ g \in 1 .. P /\ Cardinality(Guessing(n)') = g - 1
    <3>1. IsFiniteSet(G) /\ g \in 0 .. P /\ P \in Nat
      BY GuessesFinite, ParallelType
    <3>2. Cardinality(G \ {c}) = g - 1
      BY <2>2, <3>1, FS_RemoveElement
    <3>3. Cardinality(Guessing(n)') \in Nat
      BY <3>1, GuessesFinite
    <3> HIDE DEF G
    <3> QED
      BY <2>2, <3>1, <3>2, <3>3
  <2>4. refused'[n] = R + 1
    BY <1>1, <1>3, <1>5
  <2>5. k \in DOMAIN failures' /\ failures'[k] = [count |-> Current(k) + 1, last |-> now]
    <3>1. k \in KeysOf(c)
      BY <1>5 DEF KeysOf, NameKey
    <3> QED
      BY <1>3, <3>1
  <2> DEFINE x == Parallel * (now + 1)
             y == Parallel * now
  <2>6. x \in Nat /\ y \in Nat /\ x = y + Parallel
    <3>1. now + 1 \in Nat
      BY <1>1
    <3> QED
      BY <1>1, <3>1, ParallelType, ProductGrows
  <2>7. R + g <= MaxAttempts - 1 + x
    BY <1>0 DEF Throttled
  <2>8. R + 1 <= MaxAttempts - 1 + x /\ (R + 1) + (g - 1) <= MaxAttempts - 1 + x
    <3> HIDE DEF x, y, R, g, P
    <3> QED BY <1>1, <2>3, <2>6, <2>7
  <2>9. Current(k) \in Nat /\ (Current(k) + 1 < MaxAttempts => R <= Current(k) + y)
    <3>1. CASE k \notin DOMAIN failures
      <4>1. R = 0 /\ Current(k) = 0
        BY <1>0, <3>1 DEF Throttled, Current
      <4> QED
        BY <2>6, <4>1
    <3>2. CASE k \in DOMAIN failures
      <4> DEFINE count == failures[k].count
                 last == failures[k].last
      <4>1. count \in Nat /\ last \in Nat /\ last <= now
        BY <1>1, <3>2 DEF IInv, Types, TypeOK
      <4>2. /\ R <= MaxAttempts - 1 + Parallel * (last + 1)
            /\ count < MaxAttempts => R <= count + Parallel * last
        BY <1>0, <3>2 DEF Throttled
      <4>3. CASE Elapsed(k) >= Decay
        <5>1. Current(k) = 0
          BY <3>2, <4>3 DEF Current
        <5> DEFINE z == Parallel * (last + 1)
        <5>2. last + Decay <= now
          BY <1>1, <4>1, <4>3 DEF Elapsed
        <5>3. y >= Parallel * (last + MaxAttempts)
          <6>1. last + MaxAttempts \in Nat /\ last + MaxAttempts <= now
            BY <1>1, <4>1, <5>2
          <6> QED
            BY <1>1, <6>1, ParallelType, ProductGrows
        <5>4. Parallel * (last + MaxAttempts) >= z + MaxAttempts - 1
          <6>1. Parallel * (last + MaxAttempts) = z + Parallel * (MaxAttempts - 1) /\ z \in Nat
            BY <1>1, <4>1, ParallelType
          <6>2. (MaxAttempts - 1) \in Nat /\ Parallel \in Nat \ {0}
            BY <1>1, <2>3
          <6>3. Parallel * (MaxAttempts - 1) >= MaxAttempts - 1
            <7>1. ASSUME NEW a \in Nat \ {0}, NEW b \in Nat PROVE a * b >= b
              <8>1. a * b = b + (a - 1) * b /\ (a - 1) * b \in Nat
                OBVIOUS
              <8> QED
                BY <8>1
            <7> QED
              BY <6>2, <7>1
          <6> DEFINE u == Parallel * (MaxAttempts - 1)
          <6>4. u \in Nat
            BY <6>2
          <6> HIDE DEF z, u
          <6>5. z + u >= z + MaxAttempts - 1
            BY <1>1, <6>1, <6>3, <6>4 DEF u
          <6> QED
            BY <6>1, <6>5 DEF u
        <5>5. R <= y
          <6> DEFINE w == Parallel * (last + MaxAttempts)
          <6>1. w \in Nat /\ z \in Nat
            BY <1>1, <4>1, ParallelType
          <6>2. R <= MaxAttempts - 1 + z /\ w >= z + MaxAttempts - 1 /\ y >= w
            BY <4>2, <5>3, <5>4
          <6> HIDE DEF w, z, y, R
          <6> QED
            BY <1>1, <2>6, <6>1, <6>2
        <5> QED
          BY <5>1, <5>5, <2>6
      <4>4. CASE ~(Elapsed(k) >= Decay)
        <5>1. Current(k) = count
          BY <3>2, <4>4 DEF Current
        <5>2. Parallel * last \in Nat /\ Parallel * last <= y
          BY <1>1, <4>1, ParallelType, ProductGrows
        <5>3. ASSUME count + 1 < MaxAttempts PROVE R <= count + y
          <6> DEFINE z == Parallel * last
          <6>1. R <= count + z /\ z \in Nat /\ z <= y
            BY <1>1, <4>1, <4>2, <5>2, <5>3
          <6> HIDE DEF z, y
          <6> QED
            BY <1>1, <2>6, <4>1, <6>1
        <5> QED
          BY <4>1, <5>1, <5>3
      <4> QED
        BY <4>3, <4>4
    <3> QED
      BY <3>1, <3>2
  <2>10. Parallel' = Parallel
    BY DEF Parallel
  <2>11. Current(k) + 1 < MaxAttempts => R + 1 <= Current(k) + 1 + y
    <3> HIDE DEF y, R
    <3> QED BY <1>1, <2>6, <2>9
  <2>12. failures'[k].count = Current(k) + 1 /\ failures'[k].last = now
    BY <2>5
  <2>13. NameKey(n)' = k
    BY DEF NameKey
  <2>14. /\ refused'[n] + Cardinality(Guessing(n)') <= MaxAttempts - 1 + Parallel' * (now' + 1)
    BY <1>2, <2>3, <2>4, <2>8, <2>10
  <2>15. /\ refused'[n] <= MaxAttempts - 1 + Parallel' * (failures'[k].last + 1)
         /\ failures'[k].count < MaxAttempts => refused'[n] <= failures'[k].count + Parallel' * failures'[k].last
    BY <2>4, <2>8, <2>10, <2>11, <2>12
  <2> QED
    BY <2>5, <2>13, <2>14, <2>15 DEF Throttled
<1> QED
  BY <1>4, <1>5

(***************************************************************************)
(* A success clears the name.                                              *)
(***************************************************************************)
LEMMA ClearedStep ==
    ASSUME IInv, NEW n \in Names, refused'[n] = 0, NameKey(n) \notin DOMAIN failures', now' = now
    PROVE  Throttled(n)'
<1> DEFINE g == Cardinality(Guessing(n)')
<1>1. now \in Nat /\ MaxAttempts \in Nat \ {0} /\ Parallel \in Nat /\ g \in 0 .. Parallel
  BY TimeAssumption, GuessesFinite, ParallelType DEF IInv, Types, TypeOK
<1>2. Parallel * (now + 1) = Parallel * now + Parallel /\ Parallel * now \in Nat
  BY <1>1, ProductGrows
<1>3. 0 + g <= MaxAttempts - 1 + Parallel * (now + 1)
  <2> DEFINE y == Parallel * now
  <2> HIDE DEF g, y
  <2>1. 0 + g <= MaxAttempts - 1 + (y + Parallel)
    BY <1>1, <1>2 DEF y
  <2> QED
    BY <1>2, <2>1 DEF y
<1>4. Parallel' = Parallel
  BY DEF Parallel
<1> QED
  BY <1>3, <1>4 DEF Throttled, NameKey

(***************************************************************************)
(* A step of a client keeps every name throttled.                          *)
(***************************************************************************)
LEMMA ServeThrottle ==
    ASSUME IInv, ThrottleInv, MaxAttempts <= Decay, NEW c \in Clients, ServeStep(c), NEW n \in Names
    PROVE  Throttled(n)'
<1> DEFINE r == call[c]
<1>0. CallsOK /\ r \in Call /\ Where(r) /\ Throttled(n) /\ refused \in [Names -> Nat]
  BY DEF IInv, Types, TypeOK, CallsOK, ThrottleInv
<1>1. now \in Nat /\ now' = now
  BY StepFrame DEF IInv, Types, TypeOK, world
<1>2. \A d \in Clients \ {c} : call'[d] = call[d]
  BY <1>0, StepIsLocal DEF Moved, CallsOK
<1>3. ASSUME NEW answer, Done(c, answer)
      PROVE  call'[c].at = "idle"
  BY <1>0, <1>3 DEF Done, Local, CallsOK, Call, Idle
<1>4. CASE RefuseLogin(c)
  <2>1. call'[c].at = "idle"
    BY <1>3, <1>4 DEF RefuseLogin
  <2> QED
    BY <1>2, <1>4, <2>1, RefuseStep
<1>5. CASE RecordSuccess(c)
  <2>1. /\ failures' = [x \in DOMAIN failures \ KeysOf(c) |-> failures[x]]
        /\ refused' = [refused EXCEPT ![r.name] = 0]
        /\ call'[c].at = "idle"
    BY <1>3, <1>5 DEF RecordSuccess
  <2>2. CASE r.name = n
    <3>1. NameKey(n) \notin DOMAIN failures' /\ refused'[n] = 0
      BY <1>0, <2>1, <2>2 DEF KeysOf, NameKey
    <3> QED
      BY <1>1, <3>1, ClearedStep
  <2>3. CASE r.name # n
    <3>1. NameKey(n) \notin KeysOf(c)
      BY <2>3 DEF KeysOf, NameKey
    <3>2. /\ refused'[n] = refused[n]
          /\ NameKey(n) \in DOMAIN failures' <=> NameKey(n) \in DOMAIN failures
          /\ NameKey(n) \in DOMAIN failures => failures'[NameKey(n)] = failures[NameKey(n)]
      BY <1>0, <2>1, <2>3, <3>1
    <3>3. Guessing(n)' \subseteq Guessing(n)
      BY <1>2, <2>1 DEF Guessing
    <3>4. now' \in Nat /\ now <= now'
      BY <1>1
    <3> QED
      BY <1>0, <3>2, <3>3, <3>4, QuietStep
  <2> QED
    BY <2>2, <2>3
<1>6. CASE ~RefuseLogin(c) /\ ~RecordSuccess(c)
  <2>1. UNCHANGED <<failures, refused>>
    BY <1>6, StepFrame
  <2>2. CASE c \in Guessing(n)' /\ c \notin Guessing(n)
    <3>1. call'[c].op = "login" /\ call'[c].at \in {"read", "judge"} /\ call'[c].name = n
      BY <2>2 DEF Guessing
    <3>2. CASE Delay(c) /\ Goto(c, "read")
      <4>1. call'[c].name = r.name
        BY <1>0, <3>2 DEF Goto, Local, CallsOK, Call
      <4>2. ~(\E k \in KeysOf(c) : Owed(k) > 0)
        <5>1. CASE Done(c, "limited")
          BY <1>3, <3>1, <5>1
        <5> QED
          BY <3>2, <5>1 DEF Delay
      <4>3. NameKey(n) \in KeysOf(c)
        BY <3>1, <4>1 DEF KeysOf, NameKey
      <4> QED
        BY <1>0, <1>1, <2>1, <4>2, <4>3, DelayStep
    <3>3. CASE Delay(c) /\ ~Goto(c, "read")
      BY <1>3, <3>1, <3>3 DEF Delay
    <3>4. CASE Resolve(c)
      <4>1. r.op \in PageOps
        BY <1>0, <3>4, PageSteps DEF Resolve, At
      <4>2. call'[c].op = r.op
        BY <1>0, <3>4 DEF Resolve, Goto, Local, CallsOK, Call
      <4> QED
        BY <3>1, <4>1, <4>2 DEF PageOps
    <3>5. CASE ReadCredentials(c)
      <4>1. call'[c].op = r.op /\ call'[c].name = r.name /\ r.at = "read"
        BY <1>0, <3>5 DEF ReadCredentials, At, Local, CallsOK, Call
      <4> QED
        BY <2>2, <3>1, <4>1 DEF Guessing
    <3> QED
      BY <1>0, <3>1, <3>2, <3>3, <3>4, <3>5, StepInto
  <2>3. CASE ~(c \in Guessing(n)' /\ c \notin Guessing(n))
    <3>1. Guessing(n)' \subseteq Guessing(n)
      BY <1>2, <2>3 DEF Guessing
    <3>2. now' \in Nat /\ now <= now'
      BY <1>1
    <3> QED
      BY <1>0, <2>1, <3>1, <3>2, QuietStep
  <2> QED
    BY <2>2, <2>3
<1> QED
  BY <1>4, <1>5, <1>6

LEMMA NextThrottle ==
    ASSUME IInv, ThrottleInv, MaxAttempts <= Decay, [Next]_vars
    PROVE  ThrottleInv'
<1> SUFFICES ASSUME NEW n \in Names PROVE Throttled(n)'
  BY DEF ThrottleInv
<1>0. Throttled(n) /\ now \in Nat
  BY DEF ThrottleInv, IInv, Types, TypeOK
<1>1. CASE \E c \in Clients : ServeStep(c)
  BY <1>1, ServeThrottle
<1>2. CASE Tick \/ RenameAtProvider \/ UNCHANGED vars
  <2>1. UNCHANGED <<failures, refused, call>>
    BY <1>2 DEF Tick, RenameAtProvider, vars, memory
  <2>2. now' \in {now, now + 1}
    BY <1>2 DEF Tick, RenameAtProvider, vars
  <2>3. Guessing(n)' \subseteq Guessing(n)
    BY <2>1 DEF Guessing
  <2>4. now' \in Nat /\ now <= now'
    BY <1>0, <2>2
  <2> QED
    BY <1>0, <2>1, <2>3, <2>4, QuietStep
<1>3. CASE Restart
  <2>1. failures' = << >> /\ refused'[n] = 0 /\ now' = now
    BY <1>3 DEF Restart
  <2>2. NameKey(n) \notin DOMAIN failures'
    BY <2>1
  <2> QED
    BY <2>1, <2>2, ClearedStep
<1> QED
  BY <1>1, <1>2, <1>3 DEF Next

LEMMA InitThrottle == ASSUME Init PROVE ThrottleInv
<1> SUFFICES ASSUME NEW n \in Names PROVE Throttled(n)
  BY DEF ThrottleInv
<1>1. refused[n] = 0 /\ NameKey(n) \notin DOMAIN failures /\ now = 0
  BY DEF Init
<1>2. Guessing(n) = {}
  BY DEF Init, Guessing, Idle
<1>3. Cardinality(Guessing(n)) = 0
  BY <1>2, FS_EmptySet
<1>4. Parallel \in Nat /\ MaxAttempts \in Nat \ {0}
  BY ParallelType, TimeAssumption
<1>5. Parallel * (0 + 1) = Parallel
  BY <1>4
<1> QED
  BY <1>1, <1>3, <1>4, <1>5 DEF Throttled

(***************************************************************************)
(* The throttle holds against any number of clients that guess in          *)
(* parallel: between two successes a name fails MaxAttempts - 1 times      *)
(* freely and then, in each unit of time, once for each client at most.    *)
(* The failures must be remembered for as long as it takes to earn one     *)
(* delay, one unit for each attempt (the code's settings: 5 attempts, a    *)
(* base delay of 1 second, 900 seconds until the count is forgotten);      *)
(* with a shorter memory the bound is false.                               *)
(***************************************************************************)
THEOREM GuessesAreThrottled == MaxAttempts <= Decay => (Spec => []BackoffHolds)
<1> SUFFICES ASSUME MaxAttempts <= Decay PROVE Spec => []BackoffHolds
  OBVIOUS
<1>1. Init => ThrottleInv
  BY InitThrottle
<1>2. IInv /\ ThrottleInv /\ [Next]_vars => ThrottleInv'
  BY NextThrottle
<1>3. IInv /\ ThrottleInv => BackoffHolds
  <2> SUFFICES ASSUME IInv, ThrottleInv PROVE BackoffHolds
    OBVIOUS
  <2>1. ASSUME NEW n \in Names
        PROVE  refused[n] <= MaxAttempts - 1 + Cardinality(Clients) * (now + 1)
    <3> DEFINE g == Cardinality(Guessing(n))
               x == Parallel * (now + 1)
    <3>1. refused[n] \in Nat /\ now + 1 \in Nat /\ MaxAttempts \in Nat
      BY TimeAssumption DEF IInv, Types, TypeOK
    <3>2. g \in Nat /\ x \in Nat
      BY <3>1, GuessesFinite, ParallelType
    <3>3. refused[n] + g <= MaxAttempts - 1 + x
      BY DEF ThrottleInv, Throttled
    <3> HIDE DEF g, x
    <3>4. refused[n] <= MaxAttempts - 1 + x
      BY <3>1, <3>2, <3>3
    <3> QED
      BY <3>4 DEF x, Parallel
  <2> QED
    BY <2>1 DEF BackoffHolds, IInv, Types
<1> QED
  BY <1>1, <1>2, <1>3, Always, PTL DEF Spec


-----------------------------------------------------------------------------
(***************************************************************************)
(* The row of a name, before and after a step.                             *)
(***************************************************************************)
LEMMA RowAt ==
    ASSUME TypeOK, NEW n \in Names, NEW i \in Ids, users[i] # NoRow, users[i].name = n
    PROVE  IdOf(n) = i /\ RowOf(n) = users[i] /\ Holders(n) = {i}
<1>1. Holders(n) = {i}
  BY DEF Holders, TypeOK
<1>2. IdOf(n) = i
  BY <1>1 DEF IdOf
<1> QED
  BY <1>1, <1>2 DEF RowOf

LEMMA RowAtNext ==
    ASSUME TypeOK', NEW n \in Names, NEW i \in Ids, users'[i] # NoRow, users'[i].name = n
    PROVE  RowOf(n)' = users'[i]
<1>1. Holders(n)' = {i}
  BY DEF Holders, TypeOK
<1>2. IdOf(n)' = i
  BY <1>1 DEF IdOf
<1> QED
  BY <1>1, <1>2 DEF RowOf

LEMMA RowSame ==
    ASSUME TypeOK, TypeOK', NEW n \in Names,
           \A i \in Ids : \/ users[i] # NoRow /\ users[i].name = n
                          \/ users'[i] # NoRow /\ users'[i].name = n
                          => users'[i] = users[i]
    PROVE  RowOf(n)' = RowOf(n)
<1>1. CASE Holders(n) = {}
  <2>1. Holders(n)' = {}
    BY <1>1 DEF Holders
  <2> QED
    BY <1>1, <2>1 DEF RowOf
<1>2. CASE Holders(n) # {}
  <2>1. PICK i \in Holders(n) : TRUE
    BY <1>2
  <2>2. i \in Ids /\ users[i] # NoRow /\ users[i].name = n
    BY DEF Holders
  <2>3. RowOf(n) = users[i]
    BY <2>2, RowAt
  <2>4. RowOf(n)' = users'[i]
    BY <2>2, RowAtNext
  <2> QED
    BY <2>2, <2>3, <2>4
<1> QED
  BY <1>1, <1>2

(***************************************************************************)
(* What a step does to the row of a name that no account is given or gives *)
(* up: nothing, a change of credentials, or the first account of the name. *)
(***************************************************************************)
LEMMA RowStep ==
    ASSUME IInv, IInv', NEW c \in Clients, ServeStep(c), NEW n \in Names, n \notin raced'
    PROVE  \/ RowOf(n)' = RowOf(n)
           \/ /\ Write(c) /\ call[c].name = n /\ RowOf(n) # NoRow
              /\ RowOf(n)' = Changed(RowOf(n), call[c].op, call[c].stamp)
           \/ RowOf(n) = NoRow /\ (CreateUser(c) \/ WriteProfile(c))
<1> USE DEF IInv, Types
<1> DEFINE r == call[c]
<1>0. r \in Call /\ Where(r) /\ r.name \in Names
  BY DEF CallsOK, Call
<1>1. ASSUME NEW i \in NewIds, NameFree(r.name, NoOne), NEW row, row.name = r.name,
             users' = [users EXCEPT ![i] = row]
      PROVE  RowOf(n)' = RowOf(n) \/ RowOf(n) = NoRow
  <2>1. CASE r.name = n
    <3>1. Holders(n) \subseteq {NoOne} /\ Holders(n) \subseteq Ids
      BY <1>1, <2>1 DEF NameFree, Holders
    <3>2. Holders(n) = {}
      BY <3>1, NobodyAssumption
    <3> QED
      BY <3>2 DEF RowOf
  <2>2. CASE r.name # n
    <3>1. users[i] = NoRow /\ i \in Ids
      BY <1>1 DEF NewIds
    <3>2. users'[i] = row /\ \A j \in Ids \ {i} : users'[j] = users[j]
      BY <1>1, <3>1 DEF TypeOK
    <3> QED
      BY <1>1, <2>2, <3>1, <3>2, RowSame
  <2> QED
    BY <2>1, <2>2
<1>2. CASE UNCHANGED users
  BY <1>2, RowSame
<1>3. CASE Write(c)
  <2> DEFINE i == IdOf(r.name)
             row == Changed(users[i], r.op, r.stamp)
  <2>1. CASE Holders(r.name) # {} /\ users' = [users EXCEPT ![i] = row]
    <3>1. i \in Ids /\ users[i] \in Row /\ users[i].name = r.name /\ RowOf(r.name) = users[i]
      BY <1>0, <2>1, RowOfName
    <3>2. r.op \in (AdminOps \ {"create"}) \cup {"change_password"}
      BY <1>0, <1>3, WriteOps DEF Write, At
    <3>3. row \in Row /\ row.name = r.name
      BY <1>0, <3>1, <3>2, ChangedRow DEF Call, CountsOK
    <3>4. users'[i] = row /\ \A j \in Ids \ {i} : users'[j] = users[j]
      BY <2>1, <3>1 DEF TypeOK
    <3> HIDE DEF row, i
    <3>5. CASE r.name # n
      <4>1. \A j \in Ids : \/ users[j] # NoRow /\ users[j].name = n
                           \/ users'[j] # NoRow /\ users'[j].name = n
                           => users'[j] = users[j]
        BY <3>1, <3>3, <3>4, <3>5
      <4> QED
        BY <4>1, RowSame
    <3>6. CASE r.name = n
      <4>1. users'[i] # NoRow /\ users'[i].name = n
        BY <3>3, <3>4, <3>6, NobodyAssumption
      <4>2. RowOf(n)' = row
        BY <3>1, <3>4, <4>1, RowAtNext
      <4>3. RowOf(n) # NoRow
        BY <3>1, <3>6, NobodyAssumption
      <4>4. RowOf(n)' = Changed(RowOf(n), r.op, r.stamp)
        BY <3>1, <3>6, <4>2 DEF row
      <4> QED
        BY <1>3, <3>6, <4>3, <4>4
    <3> QED
      BY <3>5, <3>6
  <2> QED
    BY <1>2, <1>3, <2>1 DEF Write
<1>4. CASE CreateUser(c)
  <2>1. ASSUME NEW i \in NewIds, NameFree(r.name, NoOne),
               users' = [users EXCEPT ![i] = NewRow(r.name, passwords + 1, TRUE)]
        PROVE  RowOf(n)' = RowOf(n) \/ RowOf(n) = NoRow
    <3> DEFINE row == NewRow(r.name, passwords + 1, TRUE)
    <3>1. row.name = r.name
      BY DEF NewRow
    <3> HIDE DEF row
    <3> QED
      BY <1>1, <2>1, <3>1 DEF row
  <2> QED
    BY <1>2, <1>4, <2>1 DEF CreateUser
<1>5. CASE WriteProfile(c)
  <2>1. ASSUME NEW i \in NewIds, NameFree(r.name, NoOne),
               users' = [users EXCEPT ![i] = NewRow(r.name, 0, FALSE)]
        PROVE  RowOf(n)' = RowOf(n) \/ RowOf(n) = NoRow
    <3> DEFINE row == NewRow(r.name, 0, FALSE)
    <3>1. row.name = r.name
      BY DEF NewRow
    <3> HIDE DEF row
    <3> QED
      BY <1>1, <2>1, <3>1 DEF row
  <2>2. CASE /\ r.id # NoOne /\ users' = [users EXCEPT ![r.id].name = r.name]
             /\ GivenUp(r.id, r.name) \subseteq raced'
    <3>1. r.id \in Ids /\ users[r.id] # NoRow
      BY ZenonT(40), <1>0, <1>5, <2>2 DEF Call, SignInsOK, BySignIn, LinksOK, WriteProfile, At
    <3>2. users[r.id] \in Row
      BY <3>1 DEF TypeOK
    <3> DEFINE row == [users[r.id] EXCEPT !.name = r.name]
    <3>3. row.name = r.name
      BY <3>2 DEF Row
    <3>4. users'[r.id] = row /\ \A j \in Ids \ {r.id} : users'[j] = users[j]
      BY <2>2, <3>1 DEF TypeOK
    <3>5. CASE users[r.id].name = r.name
      <4>1. row = users[r.id]
        BY <3>2, <3>5 DEF Row
      <4> HIDE DEF row
      <4>2. \A j \in Ids : users'[j] = users[j]
        BY <3>1, <3>4, <4>1
      <4> QED
        BY <4>2, RowSame
    <3>6. CASE users[r.id].name # r.name
      <4>1. n # r.name /\ n # users[r.id].name
        BY <2>2, <3>6 DEF GivenUp
      <4> HIDE DEF row
      <4>2. \A j \in Ids : \/ users[j] # NoRow /\ users[j].name = n
                           \/ users'[j] # NoRow /\ users'[j].name = n
                           => users'[j] = users[j]
        BY <3>1, <3>3, <3>4, <4>1
      <4> QED
        BY <4>2, RowSame
    <3> QED
      BY <3>5, <3>6
  <2> QED
    BY <1>2, <1>5, <2>1, <2>2 DEF WriteProfile
<1> QED
  BY <1>2, <1>3, <1>4, <1>5, StepFrame

-----------------------------------------------------------------------------
(***************************************************************************)
(* What holds between a session, the row of its name and a call on that    *)
(* name, as long as no calls have raced for it.  A session with the row's  *)
(* version began after the row's last change, one with an older version    *)
(* before it.                                                              *)
(***************************************************************************)
Follows(session, row, time) ==
    session # NoSession =>
      /\ row # NoRow /\ session.version <= row.version /\ session.created <= time
      /\ session.version = row.version => MaySignIn(row) /\ row.changed <= session.created
      /\ session.version # row.version => row.changed >= session.created

\* A request judges the session the name has, or had; a change is stamped
\* after the session began; a sign-in holds the row as it is, or as it was
\* before it was unblocked.
Part(r, session, row, time) ==
    /\ r.at \in {"account", "drop"} =>
         r.session # NoSession /\ Follows(r.session, row, time) /\ session \in {NoSession, r.session}
    /\ r.at = "drop" => r.session.version # row.version \/ row.changed = r.session.created
    /\ r.at = "write" /\ r.op # "unblock" /\ session # NoSession => session.created <= r.stamp
    /\ r.at \in {"judge", "session"} /\ r.row # NoRow =>
         row # NoRow /\ r.row.version = row.version /\ (MaySignIn(r.row) => MaySignIn(row))
    /\ r.at = "session" => r.row # NoRow /\ MaySignIn(r.row)

\* A change is stamped after any session began that is being judged.
StampedAfter(n) ==
    \A c, d \in Clients : Changing(call, c, n) /\ Resolving(call, d, n) => call[d].session.created <= call[c].stamp

Consistent(n) ==
    /\ Follows(sessions[n], RowOf(n), now)
    /\ \A c \in Clients : call[c].name = n => Part(call[c], sessions[n], RowOf(n), now)
    /\ StampedAfter(n)

StampsPast ==
    /\ \A c \in Clients : call[c].stamp <= now
    /\ \A i \in Ids : users[i] # NoRow => users[i].changed <= now

SessionInv ==
    /\ Racing(call) \subseteq raced
    /\ StampsPast
    /\ \A n \in Names \ raced : Consistent(n)

(***************************************************************************)
(* Time passes, or the session ends, and the same is true.                 *)
(***************************************************************************)
LEMMA FollowsLater ==
    ASSUME NEW s \in Session \cup {NoSession}, NEW row, NEW t \in Nat, NEW u \in Nat, t <= u,
           Follows(s, row, t)
    PROVE  Follows(s, row, u)
BY TimeAssumption DEF Follows, Session

LEMMA PartLater ==
    ASSUME NEW r \in Call, NEW s \in Session \cup {NoSession}, NEW row, NEW t \in Nat, NEW u \in Nat,
           t <= u, NEW s1 \in {s, NoSession}, Part(r, s, row, t)
    PROVE  Part(r, s1, row, u)
<1>1. r.session \in Session \cup {NoSession}
  BY DEF Call
<1>2. Follows(r.session, row, t) => Follows(r.session, row, u)
  BY <1>1, FollowsLater
<1> QED
  BY <1>2 DEF Part

(***************************************************************************)
(* A name that has no account has no session, and nobody judges one.       *)
(***************************************************************************)
LEMMA NobodyThere ==
    ASSUME CallsOK, NEW n \in Names, Consistent(n), RowOf(n) = NoRow
    PROVE  /\ sessions[n] = NoSession
           /\ \A c \in Clients : call[c].name = n =>
                /\ call[c].at \notin {"account", "drop", "session"}
                /\ call[c].at = "judge" => call[c].row = NoRow
<1>1. sessions[n] = NoSession
  BY DEF Consistent, Follows
<1>2. ASSUME NEW c \in Clients, call[c].name = n
      PROVE  /\ call[c].at \notin {"account", "drop", "session"}
             /\ call[c].at = "judge" => call[c].row = NoRow
  <2>1. Part(call[c], sessions[n], NoRow, now)
    BY <1>2 DEF Consistent
  <2>2. Where(call[c])
    BY DEF CallsOK
  <2> QED
    BY <2>1, <2>2 DEF Part, Follows, Where
<1> QED
  BY <1>1, <1>2

(***************************************************************************)
(* The stamps lie in the past.                                             *)
(***************************************************************************)
LEMMA StampsStep ==
    ASSUME IInv, IInv', StampsPast, NEW c \in Clients, ServeStep(c)
    PROVE  StampsPast'
<1> USE DEF IInv, Types
<1> DEFINE r == call[c]
<1>0. r \in Call /\ Where(r) /\ r.name \in Names /\ now \in Nat /\ now' = now /\ r.stamp <= now
  BY StepFrame DEF CallsOK, Call, TypeOK, world, StampsPast
<1>1. \A d \in Clients \ {c} : call'[d] = call[d]
  BY StepIsLocal DEF Moved, CallsOK
<1>2. call'[c].stamp \in {r.stamp, 0, now}
  <2>b. ASSUME NEW answer, Done(c, answer)
        PROVE  call'[c].stamp = 0
    BY <2>b DEF Done, Local, CallsOK, Call, Idle
  <2>c. ASSUME NEW step, Goto(c, step)
        PROVE  call'[c].stamp = r.stamp
    BY <1>0, <2>c DEF Goto, Local, CallsOK, Call
  <2>d. ASSUME NEW q, Local(c, q)
        PROVE  call'[c] = q
    BY <2>d DEF Local, CallsOK
  <2>1. CASE Begin(c)
    <3>1. PICK o, w, g, k, u :
            Local(c, [Idle EXCEPT !.op = Head(script[c]).op, !.name = Head(script[c]).name, !.from = o,
                                  !.password = w, !.identity = g, !.state = k, !.token = u,
                                  !.at = FirstStep(Head(script[c]).op)])
      BY <2>1 DEF Begin
    <3> QED
      BY <3>1, <2>d DEF Idle
  <2>2. CASE Delay(c) \/ RefuseLogin(c) \/ RecordLogin(c) \/ CreateSession(c) \/ RecordSuccess(c)
    BY <2>2, <2>b, <2>c DEF Delay, RefuseLogin, RecordLogin, CreateSession, RecordSuccess
  <2>3. CASE ReadCredentials(c) \/ GetSession(c) \/ Stamp(c) \/ Standing(c)
    BY <2>3, <1>0, <2>b, <2>d DEF ReadCredentials, GetSession, Stamp, Standing, Call
  <2>4. CASE Resolve(c) \/ DropSession(c) \/ Temporary(c) \/ Owner(c) \/ PutState(c) \/ Prove(c)
    BY <2>4, <2>b, <2>c DEF Resolve, DropSession, Temporary, Owner, PutState, Prove
  <2>5. CASE Write(c) \/ CreateUser(c) \/ Issue(c) \/ Consume(c) \/ Mint(c) \/ VerifyToken(c)
    BY <2>5, <2>b, <2>c DEF Write, CreateUser, Issue, Consume, Mint, VerifyToken
  <2>6. CASE Exchange(c) \/ FindLink(c)
    BY <2>6, <1>0, <2>b, <2>d DEF Exchange, FindLink, Call
  <2>7. CASE BindAccount(c)
    BY <2>7, <2>b, <2>d DEF BindAccount, Idle
  <2>8. CASE WriteProfile(c)
    <3>1. ASSUME NEW i, Moved(c, [r EXCEPT !.id = i, !.at = "standing"])
          PROVE  call'[c].stamp = r.stamp
      BY <1>0, <3>1 DEF Moved, CallsOK, Call
    <3> QED
      BY <2>8, <2>b, <3>1 DEF WriteProfile, Moved
  <2> QED
    BY <2>1, <2>2, <2>3, <2>4, <2>5, <2>6, <2>7, <2>8 DEF ServeStep
<1>3. \A d \in Clients : call'[d].stamp <= now'
  BY <1>0, <1>1, <1>2 DEF StampsPast
<1>4. ASSUME NEW i \in Ids, users'[i] # NoRow
      PROVE  users'[i].changed <= now'
  <2>1. CASE users'[i] = users[i]
    BY <1>0, <1>4, <2>1 DEF StampsPast
  <2>2. CASE users'[i].changed \in {Never, r.stamp}
    BY <1>0, <2>2, TimeAssumption
  <2>3. users'[i] = users[i] \/ users'[i].changed \in {Never, r.stamp}
                           \/ (users[i] # NoRow /\ users'[i].changed = users[i].changed)
    <3>1. CASE UNCHANGED users
      BY <3>1
    <3>2. CASE Write(c)
      <4> DEFINE j == IdOf(r.name)
                 row == Changed(users[j], r.op, r.stamp)
      <4>1. CASE Holders(r.name) # {} /\ users' = [users EXCEPT ![j] = row]
        <5>1. j \in Ids /\ users[j] \in Row
          BY <1>0, <4>1, RowOfName
        <5>2. r.op \in (AdminOps \ {"create"}) \cup {"change_password"}
          BY <1>0, <3>2, WriteOps DEF Write, At
        <5>3. row.changed \in {users[j].changed, r.stamp}
          <6>1. CASE r.op = "unblock"
            BY <5>1, <6>1 DEF Changed, Row
          <6>2. CASE r.op # "unblock"
            BY <5>1, <5>2, <6>2 DEF Changed, Row, AdminOps
          <6> QED
            BY <6>1, <6>2
        <5> HIDE DEF row, j
        <5> QED
          BY <4>1, <5>1, <5>3, NobodyAssumption DEF TypeOK
      <4> QED
        BY <3>1, <3>2, <4>1 DEF Write
    <3>3. CASE CreateUser(c)
      BY <3>1, <3>3 DEF CreateUser, NewIds, NewRow, TypeOK
    <3>4. CASE WriteProfile(c)
      <4>1. CASE /\ r.id # NoOne /\ users' = [users EXCEPT ![r.id].name = r.name]
        <5>0. r.id \in Ids /\ users[r.id] # NoRow
          BY <1>0, <3>4, <4>1 DEF Call, SignInsOK, BySignIn, LinksOK, WriteProfile, At
        <5>1. r.id \in Ids /\ users[r.id] # NoRow /\ users[r.id] \in Row
          BY <5>0 DEF TypeOK
        <5> QED
          BY <4>1, <5>1 DEF TypeOK, Row
      <4>2. ASSUME NEW j \in NewIds, users' = [users EXCEPT ![j] = NewRow(r.name, 0, FALSE)]
            PROVE  users'[i] = users[i] \/ users'[i].changed = Never
        BY <4>2 DEF NewIds, NewRow, TypeOK
      <4> QED
        BY <3>1, <3>4, <4>1, <4>2 DEF WriteProfile
    <3> QED
      BY <3>1, <3>2, <3>3, <3>4, StepFrame
  <2> QED
    BY <1>0, <2>1, <2>2, <2>3 DEF StampsPast
<1> QED
  BY <1>3, <1>4 DEF StampsPast

(***************************************************************************)
(* A name that is raced for stays so.                                      *)
(***************************************************************************)
LEMMA RacedGrows ==
    ASSUME NEW c \in Clients, ServeStep(c)
    PROVE  raced \subseteq raced' /\ Racing(call') \subseteq raced'
<1>1. CASE raced' = raced \cup Racing(call')
  BY <1>1
<1>2. CASE WriteProfile(c)
  <2>1. ASSUME NEW answer, Done(c, answer)
        PROVE  raced' = raced \cup Racing(call')
    BY <2>1 DEF Done, Local
  <2> QED
    BY <1>2, <2>1 DEF WriteProfile
<1> QED
  BY <1>1, <1>2, StepIsLocal

(***************************************************************************)
(* What a call holds when it comes to judge a session or an account, or to *)
(* write a change.                                                         *)
(***************************************************************************)
LEMMA Entering ==
    ASSUME IInv, IInv', NEW c \in Clients, ServeStep(c), NEW n \in Names, call'[c].name = n
    PROVE  /\ call'[c].at \in {"account", "drop", "judge", "session"} => UNCHANGED sessions /\ call[c].name = n
           /\ call'[c].at = "account" => call'[c].session = sessions[n] /\ sessions[n] # NoSession
           /\ call'[c].at = "drop" => /\ call[c].at = "account" /\ call'[c].session = call[c].session
                                      /\ Ended(RowOf(n), call[c].session)
           /\ call'[c].at = "judge" => call'[c].row = RowOf(n)
           /\ call'[c].at = "session" => /\ call'[c].row # NoRow \/ n \in raced
                                         /\ call'[c].row # NoRow => MaySignIn(call'[c].row)
                                         /\ \/ call[c].at = "judge" /\ call'[c].row = call[c].row
                                            \/ call'[c].row = RowOf(n)
           /\ call'[c].at = "write" /\ call'[c].op # "unblock" =>
                UNCHANGED sessions /\ call[c].name = n /\ call'[c].stamp = now
<1> USE DEF IInv, Types
<1> DEFINE r == call[c]
           q == call'[c]
<1>0. r \in Call /\ Where(r) /\ q \in Call /\ Where(q)
  BY DEF CallsOK
<1>b. ASSUME NEW answer, Done(c, answer)
      PROVE  q.at = "idle"
  BY <1>b DEF Done, Local, CallsOK, Call, Idle
<1>c. ASSUME NEW step, Goto(c, step)
      PROVE  q = [r EXCEPT !.at = step]
  BY <1>0, <1>c DEF Goto, Local, CallsOK
<1>d. ASSUME NEW record, Local(c, record)
      PROVE  q = record
  BY <1>d DEF Local, CallsOK
<1>1. CASE q.at = "account"
  <2>1. GetSession(c)
    BY <1>1, StepInto
  <2>2. q = [r EXCEPT !.session = sessions[r.name], !.at = "account"] /\ sessions[r.name] # NoSession
    BY <1>1, <2>1, <1>b, <1>d DEF GetSession
  <2>3. q.name = r.name /\ q.session = sessions[r.name]
    BY <1>0, <2>2 DEF Call
  <2> QED
    BY <1>1, <2>1, <2>2, <2>3 DEF GetSession, memory
<1>2. CASE q.at = "drop"
  <2>1. Resolve(c)
    BY <1>2, StepInto
  <2>2. r.op \in PageOps
    BY <2>1, <1>0, PageSteps DEF Resolve, At
  <2>3. AfterResolve(r.op) \in {"temporary", "read", "end"}
    BY <2>2 DEF AfterResolve, PageOps
  <2>4. q.name = r.name /\ q.session = r.session /\ Ended(RowOf(r.name), r.session)
    <3>1. Goto(c, IF Ended(RowOf(r.name), r.session) THEN "drop" ELSE AfterResolve(r.op))
      BY <2>1 DEF Resolve
    <3>2. q.at = IF Ended(RowOf(r.name), r.session) THEN "drop" ELSE AfterResolve(r.op)
      BY <1>0, <1>c, <3>1 DEF Call
    <3>3. q.name = r.name /\ q.session = r.session
      BY <1>0, <1>c, <3>1 DEF Call
    <3> QED
      BY <1>2, <2>3, <3>2, <3>3
  <2> QED
    BY <1>2, <2>1, <2>4 DEF Resolve, memory, At
<1>3. CASE q.at = "judge"
  <2>1. ReadCredentials(c)
    BY <1>3, StepInto
  <2>2. q.name = r.name /\ q.row = RowOf(r.name)
    BY <1>0, <1>d, <2>1 DEF ReadCredentials, Call
  <2> QED
    BY <1>3, <2>1, <2>2 DEF ReadCredentials, memory
<1>4. CASE q.at = "session"
  <2>1. CASE RecordLogin(c)
    <3>1. Goto(c, "session") /\ r.row # NoRow /\ MaySignIn(r.row) /\ r.at = "judge"
      BY <1>4, <1>b, <2>1 DEF RecordLogin, Accepted, Verified, At
    <3>2. q.name = r.name /\ q.row = r.row
      BY <1>0, <1>c, <3>1 DEF Call
    <3> QED
      BY <1>4, <2>1, <3>1, <3>2 DEF RecordLogin, memory
  <2>2. CASE Standing(c)
    <3>1. /\ Local(c, [r EXCEPT !.row = RowOf(r.name), !.at = "session"])
          /\ RowOf(r.name) # NoRow => MaySignIn(RowOf(r.name))
      BY <1>4, <1>b, <2>2 DEF Standing
    <3>2. q.name = r.name /\ q.row = RowOf(r.name)
      BY <1>0, <1>d, <3>1 DEF Call
    <3>3. RowOf(r.name) # NoRow \/ r.name \in raced
      <4>1. r.id \in Ids /\ users[r.id] # NoRow /\ (users[r.id].name = r.name \/ r.name \in raced)
        BY <1>0, <2>2 DEF Standing, At, SignInsOK, BySignIn, Call
      <4>2. users[r.id].name = r.name => Holders(r.name) # {}
        BY <4>1 DEF Holders
      <4> QED
        BY <1>0, <4>1, <4>2, RowOfName, NobodyAssumption DEF Call
    <3> QED
      BY <1>4, <2>2, <3>1, <3>2, <3>3 DEF Standing, memory
  <2> QED
    BY <1>4, <2>1, <2>2, StepInto
<1>5. CASE q.at = "write" /\ q.op # "unblock"
  <2>1. CASE Stamp(c)
    <3>1. q.name = r.name /\ q.stamp = now
      BY <1>0, <1>d, <2>1 DEF Stamp, Call
    <3> QED
      BY <1>5, <2>1, <3>1 DEF Stamp, memory
  <2>2. CASE Begin(c)
    <3>1. PICK o, w, g, k, u :
            Local(c, [Idle EXCEPT !.op = Head(script[c]).op, !.name = Head(script[c]).name, !.from = o,
                                  !.password = w, !.identity = g, !.state = k, !.token = u,
                                  !.at = FirstStep(Head(script[c]).op)])
      BY <2>2 DEF Begin
    <3>2. q.op = Head(script[c]).op /\ q.at = FirstStep(Head(script[c]).op)
      BY <1>d, <3>1 DEF Idle
    <3>3. q.op \in Ops
      BY <1>0 DEF Call
    <3>4. FirstStep(q.op) # "write"
      BY <1>5, <3>3 DEF FirstStep, PageOps
    <3> QED
      BY <1>5, <3>2, <3>4
  <2> QED
    BY <1>5, <2>1, <2>2, StepInto
<1> QED
  BY <1>1, <1>2, <1>3, <1>4, <1>5

(***************************************************************************)
(* What becomes of a session: nothing, its end, or a new one.              *)
(***************************************************************************)
LEMMA SessionStep ==
    ASSUME IInv, NEW c \in Clients, ServeStep(c), NEW n \in Names
    PROVE  \/ sessions'[n] = sessions[n]
           \/ DropSession(c) /\ call[c].name = n /\ sessions'[n] = NoSession
           \/ /\ CreateSession(c) /\ call[c].name = n
              /\ sessions'[n] = [created |-> now, id |-> call[c].id, version |-> VersionOf(call[c].row)]
<1> USE DEF IInv, Types
<1>0. sessions \in [Names -> Session \cup {NoSession}] /\ call[c].name \in Names
  BY DEF TypeOK
<1>1. CASE CreateSession(c)
  BY <1>0, <1>1 DEF CreateSession
<1>2. CASE DropSession(c)
  BY <1>0, <1>2 DEF DropSession, RemoveSession
<1>3. CASE UNCHANGED sessions
  BY <1>3
<1> QED
  BY <1>1, <1>2, <1>3, StepFrame

(***************************************************************************)
(* The calls on a name that are not racing keep apart.                     *)
(***************************************************************************)
LEMMA Apart ==
    ASSUME Racing(call) \subseteq raced, NEW n \in Names, n \notin raced, NEW c \in Clients,
           NEW d \in Clients, c # d
    PROVE  /\ Changing(call, c, n) => ~Changing(call, d, n) /\ ~SigningIn(call, d, n)
           /\ SigningIn(call, c, n) => ~Changing(call, d, n) /\ ~Resolving(call, d, n)
<1>1. n \notin Racing(call)
  OBVIOUS
<1> QED
  BY <1>1 DEF Racing

(***************************************************************************)
(* A step that leaves the row of the name as it is.                        *)
(***************************************************************************)
LEMMA SameRow ==
    ASSUME IInv, IInv', SessionInv, NEW c \in Clients, ServeStep(c), NEW n \in Names, n \notin raced',
           RowOf(n)' = RowOf(n)
    PROVE  Consistent(n)'
<1> DEFINE r == call[c]
           row == RowOf(n)
           s == sessions[n]
           s1 == sessions'[n]
<1>0. /\ CallsOK /\ n \notin raced /\ Racing(call) \subseteq raced /\ Consistent(n) /\ now' = now /\ now \in Nat
      /\ s \in Session \cup {NoSession} /\ r \in Call /\ Where(r) /\ r.name \in Names
  <2>1. n \notin raced
    BY RacedGrows
  <2>2. CallsOK /\ now \in Nat /\ s \in Session \cup {NoSession}
    BY DEF IInv, Types, TypeOK
  <2> QED
    BY <2>1, <2>2, StepFrame DEF SessionInv, world, CallsOK, Call
<1>1. \A d \in Clients \ {c} : call'[d] = call[d]
  BY <1>0, StepIsLocal DEF Moved, CallsOK
<1>2. CASE s1 \in {s, NoSession}
  <2>1. Follows(s1, row, now)
    BY <1>0, <1>2 DEF Consistent, Follows
  <2>2. ASSUME NEW d \in Clients, d # c, call'[d].name = n
        PROVE  Part(call'[d], s1, row, now)
    <3>1. call'[d] = call[d] /\ call[d] \in Call
      BY <1>0, <1>1, <2>2 DEF CallsOK
    <3>2. Part(call[d], s, row, now)
      BY <1>0, <2>2, <3>1 DEF Consistent
    <3> QED
      BY <1>0, <1>2, <3>1, <3>2, PartLater
  <2>3. ASSUME call'[c].name = n
        PROVE  Part(call'[c], s1, row, now)
    <3> DEFINE q == call'[c]
    <3>0. Follows(s, row, now) /\ (r.name = n => Part(r, s, row, now))
      BY <1>0 DEF Consistent
    <3>1. q.at \in {"account", "drop"} =>
            q.session # NoSession /\ Follows(q.session, row, now) /\ s1 \in {NoSession, q.session}
      <4>1. CASE q.at = "account"
        <5>1. q.session = s /\ s # NoSession /\ s1 = s
          BY <2>3, <4>1, Entering
        <5> QED
          BY <3>0, <5>1
      <4>2. CASE q.at = "drop"
        <5>1. r.at = "account" /\ q.session = r.session /\ s1 = s /\ r.name = n
          BY <2>3, <4>2, Entering
        <5> QED
          BY <3>0, <5>1 DEF Part
      <4> QED
        BY <4>1, <4>2
    <3>2. q.at = "drop" => q.session.version # row.version \/ row.changed = q.session.created
      <4> SUFFICES ASSUME q.at = "drop", q.session.version = row.version
                   PROVE  row.changed = q.session.created
        OBVIOUS
      <4>1. r.at = "account" /\ q.session = r.session /\ Ended(row, r.session) /\ r.name = n
        BY <2>3, Entering
      <4>2. r.session # NoSession /\ Follows(r.session, row, now)
        BY <3>0, <4>1 DEF Part
      <4>3. row # NoRow /\ MaySignIn(row) /\ row.changed <= r.session.created
        BY <4>1, <4>2 DEF Follows
      <4>4. ChangedSince(row, r.session)
        BY <4>1, <4>3 DEF Ended
      <4>5. row \in Row /\ r.session \in Session
        BY <1>0, <4>2, <4>3, RowOfName DEF Call, IInv, Types
      <4>6. row.changed \in Int /\ r.session.created \in Int
        BY <4>5, TimeAssumption DEF Row, Session
      <4> QED
        BY <4>1, <4>3, <4>4, <4>6 DEF ChangedSince
    <3>3. q.at = "write" /\ q.op # "unblock" /\ s1 # NoSession => s1.created <= q.stamp
      <4> SUFFICES ASSUME q.at = "write", q.op # "unblock", s1 # NoSession
                   PROVE  s1.created <= q.stamp
        OBVIOUS
      <4>1. s1 = s /\ q.stamp = now
        BY <2>3, Entering
      <4> QED
        BY <3>0, <4>1 DEF Follows
    <3>4. q.at \in {"judge", "session"} /\ q.row # NoRow =>
            row # NoRow /\ q.row.version = row.version /\ (MaySignIn(q.row) => MaySignIn(row))
      <4>1. CASE q.at = "judge"
        <5>1. q.row = row
          BY <2>3, <4>1, Entering
        <5> QED
          BY <5>1
      <4>2. CASE q.at = "session"
        <5>1. r.name = n /\ ((r.at = "judge" /\ q.row = r.row) \/ q.row = row)
          BY <2>3, <4>2, Entering
        <5> QED
          BY <3>0, <5>1 DEF Part
      <4> QED
        BY <4>1, <4>2
    <3>5. q.at = "session" => q.row # NoRow /\ MaySignIn(q.row)
      BY <1>0, <2>3, Entering
    <3> QED
      BY <3>1, <3>2, <3>3, <3>4, <3>5 DEF Part
  <2>4. ASSUME NEW d \in Clients, NEW e \in Clients, Changing(call', d, n), Resolving(call', e, n)
        PROVE  call'[e].session.created <= call'[d].stamp
    <3>1. d # e
      BY <2>4 DEF Changing, Resolving
    <3>2. CASE d # c /\ e # c
      <4>1. Changing(call, d, n) /\ Resolving(call, e, n)
        BY <1>1, <2>4, <3>2 DEF Changing, Resolving
      <4>2. call[e].session.created <= call[d].stamp
        BY <1>0, <4>1 DEF Consistent, StampedAfter
      <4> QED
        BY <1>1, <3>2, <4>2
    <3>3. CASE d = c
      <4>1. call'[c].stamp = now
        BY <2>4, <3>3, Entering DEF Changing
      <4>2. call[e].name = n /\ call[e].at \in {"account", "drop"} /\ call'[e] = call[e]
        BY <1>1, <2>4, <3>1, <3>3 DEF Resolving
      <4>3. Part(call[e], s, row, now)
        BY <1>0, <4>2 DEF Consistent
      <4>4. call[e].session.created <= now
        BY <4>2, <4>3 DEF Part, Follows
      <4> QED
        BY <3>3, <4>1, <4>2, <4>4
    <3>4. CASE e = c
      <4>1. Changing(call, d, n) /\ call'[d] = call[d]
        BY <1>1, <2>4, <3>1, <3>4 DEF Changing
      <4>2. CASE call'[c].at = "account"
        <5>1. call'[c].session = s /\ s # NoSession
          BY <2>4, <3>4, <4>2, Entering DEF Resolving
        <5>2. Part(call[d], s, row, now)
          BY <1>0, <4>1 DEF Consistent, Changing
        <5>3. s.created <= call[d].stamp
          BY <4>1, <5>1, <5>2 DEF Part, Changing
        <5> QED
          BY <3>4, <4>1, <5>1, <5>3
      <4>3. CASE call'[c].at = "drop"
        <5>1. r.at = "account" /\ call'[c].session = r.session /\ r.name = n
          BY <2>4, <3>4, <4>3, Entering DEF Resolving
        <5>2. r.session.created <= call[d].stamp
          BY <1>0, <4>1, <5>1 DEF Consistent, StampedAfter, Resolving
        <5> QED
          BY <3>4, <4>1, <5>1, <5>2
      <4> QED
        BY <2>4, <3>4, <4>2, <4>3 DEF Resolving
    <3> QED
      BY <3>2, <3>3, <3>4
  <2>5. StampedAfter(n)'
    BY <2>4 DEF StampedAfter
  <2>6. \A d \in Clients : call'[d].name = n => Part(call'[d], s1, row, now)
    BY <2>2, <2>3
  <2> QED
    BY <1>0, <2>1, <2>5, <2>6 DEF Consistent
<1>3. CASE ~(s1 \in {s, NoSession})
  <2>1. /\ CreateSession(c) /\ r.name = n
        /\ s1 = [created |-> now, id |-> r.id, version |-> VersionOf(r.row)]
    BY <1>3, SessionStep
  <2>2. r.at = "session" /\ r.row # NoRow /\ Part(r, s, row, now)
    BY <1>0, <2>1 DEF CreateSession, At, Consistent, Part
  <2>3. s1.created = now /\ s1.version = r.row.version
    BY <2>1, <2>2 DEF VersionOf
  <2>4. row # NoRow /\ s1.version = row.version /\ MaySignIn(row) /\ row.changed <= now
    <3>1. row # NoRow /\ r.row.version = row.version /\ MaySignIn(row)
      BY <2>2 DEF Part
    <3>2. Holders(n) # {}
      BY <3>1 DEF RowOf
    <3>3. IdOf(n) \in Ids /\ row = users[IdOf(n)]
      BY <3>2, RowOfName DEF IInv, Types
    <3> QED
      BY <2>3, <3>1, <3>3 DEF SessionInv, StampsPast
  <2>5. Follows(s1, row, now)
    <3>1. row \in Row
      BY <2>4, RowOfName DEF IInv, Types, RowOf
    <3>2. row.version \in Nat
      BY <3>1 DEF Row
    <3> QED
      BY <1>0, <2>3, <2>4, <3>2 DEF Follows
  <2>6. SigningIn(call, c, n)
    BY <2>1, <2>2 DEF SigningIn
  <2>7. call'[c].at \notin {"account", "drop", "write", "judge", "session"}
    <3>1. call'[c].at \in {"idle", "clear"}
      <4>1. CASE Goto(c, "clear")
        BY <1>0, <4>1 DEF Goto, Local, CallsOK, Call
      <4>2. CASE Done(c, "ok")
        BY <1>0, <4>2 DEF Done, Local, CallsOK, Call, Idle
      <4> QED
        BY <2>1, <4>1, <4>2 DEF CreateSession
    <3> QED
      BY <3>1
  <2>8. ASSUME NEW d \in Clients, call'[d].name = n
        PROVE  Part(call'[d], s1, row, now)
    <3>1. CASE d = c
      BY <2>7, <3>1 DEF Part
    <3>2. CASE d # c
      <4>1. call'[d] = call[d] /\ Part(call[d], s, row, now)
        BY <1>0, <1>1, <2>8, <3>2 DEF Consistent
      <4>2. ~Changing(call, d, n) /\ ~Resolving(call, d, n)
        BY <1>0, <2>6, <3>2, Apart
      <4> QED
        BY <2>8, <4>1, <4>2 DEF Part, Changing, Resolving
    <3> QED
      BY <3>1, <3>2
  <2>9. StampedAfter(n)'
    <3>1. ASSUME NEW d \in Clients PROVE ~Changing(call', d, n)
      <4>1. CASE d = c
        BY <2>7, <4>1 DEF Changing
      <4>2. CASE d # c
        <5>1. ~Changing(call, d, n) /\ call'[d] = call[d]
          BY <1>0, <1>1, <2>6, <4>2, Apart
        <5> QED
          BY <5>1 DEF Changing
      <4> QED
        BY <4>1, <4>2
    <3> QED
      BY <3>1 DEF StampedAfter
  <2> QED
    BY <1>0, <2>5, <2>8, <2>9 DEF Consistent
<1> QED
  BY <1>2, <1>3

(***************************************************************************)
(* The first account of a name.                                            *)
(***************************************************************************)
LEMMA FirstRow ==
    ASSUME IInv, IInv', SessionInv, NEW c \in Clients, ServeStep(c), NEW n \in Names, n \notin raced',
           RowOf(n) = NoRow, CreateUser(c) \/ WriteProfile(c)
    PROVE  Consistent(n)'
<1> DEFINE r == call[c]
<1>0. CallsOK /\ n \notin raced /\ Consistent(n) /\ r \in Call
  <2>1. n \notin raced
    BY RacedGrows
  <2>2. CallsOK
    BY DEF IInv, Types
  <2> QED
    BY <2>1, <2>2 DEF SessionInv, CallsOK
<1>1. \A d \in Clients \ {c} : call'[d] = call[d]
  BY <1>0, StepIsLocal DEF Moved, CallsOK
<1>2. sessions'[n] = NoSession
  <2>1. UNCHANGED sessions
    BY DEF CreateUser, WriteProfile, memory
  <2> QED
    BY <1>0, <2>1, NobodyThere
<1>3. call'[c].at \in {"idle", "standing"}
  <2>1. ASSUME NEW answer, Done(c, answer)
        PROVE  call'[c].at = "idle"
    BY <1>0, <2>1 DEF Done, Local, CallsOK, Call, Idle
  <2>2. ASSUME NEW i, Moved(c, [r EXCEPT !.id = i, !.at = "standing"])
        PROVE  call'[c].at = "standing"
    BY <1>0, <2>2 DEF Moved, CallsOK, Call
  <2> QED
    BY <2>1, <2>2 DEF CreateUser, WriteProfile, Moved
<1>4. ASSUME NEW d \in Clients, call'[d].name = n
      PROVE  /\ call'[d].at \notin {"account", "drop", "session"}
             /\ call'[d].at = "judge" => call'[d].row = NoRow
  <2>1. CASE d = c
    BY <1>3, <2>1
  <2>2. CASE d # c
    <3>1. call'[d] = call[d]
      BY <1>1, <2>2
    <3> QED
      BY <1>0, <1>4, <3>1, NobodyThere
  <2> QED
    BY <2>1, <2>2
<1>5. Follows(sessions'[n], RowOf(n)', now')
  BY <1>2 DEF Follows
<1>6. \A d \in Clients : call'[d].name = n => Part(call'[d], sessions'[n], RowOf(n)', now')
  BY <1>2, <1>4 DEF Part
<1>7. StampedAfter(n)'
  BY <1>4 DEF StampedAfter, Resolving
<1> QED
  BY <1>5, <1>6, <1>7 DEF Consistent

(***************************************************************************)
(* A change of credentials is a new version, stamped; unblocking an        *)
(* account is none.                                                        *)
(***************************************************************************)
LEMMA ChangedFields ==
    ASSUME NEW row \in Row, NEW op \in (AdminOps \ {"create"}) \cup {"change_password"}, NEW stamp
    PROVE  LET new == Changed(row, op, stamp) IN
           IF op = "unblock"
           THEN new.version = row.version /\ new.changed = row.changed /\ (MaySignIn(row) => MaySignIn(new))
           ELSE new.version = row.version + 1 /\ new.changed = stamp
<1>1. CASE op = "unblock"
  <2>1. Changed(row, op, stamp) = [row EXCEPT !.blocked = FALSE]
    BY <1>1 DEF Changed
  <2> QED
    BY <1>1, <2>1 DEF Row, MaySignIn
<1>2. CASE op # "unblock"
  <2> DEFINE new == [row EXCEPT !.changed = stamp, !.version = @ + 1]
  <2>1. new.version = row.version + 1 /\ new.changed = stamp
    BY DEF Row
  <2>2. CASE op \in {"set_password", "change_password"}
    <3>1. Changed(row, op, stamp) = [new EXCEPT !.hash = passwords + 1, !.temporary = (op = "set_password")]
      BY <2>2 DEF Changed
    <3> QED
      BY <1>2, <2>1, <3>1
  <2>3. CASE op = "block"
    <3>1. Changed(row, op, stamp) = [new EXCEPT !.blocked = TRUE]
      BY <2>3 DEF Changed
    <3> QED
      BY <1>2, <2>1, <3>1
  <2>4. CASE op \in {"delete", "undelete"}
    <3>1. Changed(row, op, stamp) = [new EXCEPT !.deleted = (op = "delete")]
      BY <2>4 DEF Changed
    <3> QED
      BY <1>2, <2>1, <3>1
  <2> QED
    BY <1>2, <2>2, <2>3, <2>4 DEF AdminOps
<1> QED
  BY <1>1, <1>2

(***************************************************************************)
(* A change of the name's credentials: nobody is signing in and nobody     *)
(* else changes them, and every session there is began before its stamp.   *)
(***************************************************************************)
LEMMA WriteKeeps ==
    ASSUME IInv, IInv', SessionInv, NEW c \in Clients, ServeStep(c), NEW n \in Names, n \notin raced',
           Write(c), call[c].name = n, RowOf(n) # NoRow,
           RowOf(n)' = Changed(RowOf(n), call[c].op, call[c].stamp)
    PROVE  Consistent(n)'
<1> DEFINE r == call[c]
           row == RowOf(n)
           new == Changed(row, r.op, r.stamp)
           s == sessions[n]
<1>0. /\ CallsOK /\ n \notin raced /\ Racing(call) \subseteq raced /\ Consistent(n) /\ now' = now
      /\ r \in Call /\ Where(r) /\ r.at = "write"
  <2>1. n \notin raced
    BY RacedGrows
  <2>2. CallsOK
    BY DEF IInv, Types
  <2> QED
    BY <2>1, <2>2, StepFrame DEF SessionInv, world, CallsOK, Write, At
<1>1. \A d \in Clients \ {c} : call'[d] = call[d]
  BY <1>0, StepIsLocal DEF Moved, CallsOK
<1>2. sessions' = sessions
  BY DEF Write, memory
<1>3. call'[c].at = "idle"
  <2>1. ASSUME NEW answer, Done(c, answer)
        PROVE  call'[c].at = "idle"
    BY <1>0, <2>1 DEF Done, Local, CallsOK, Call, Idle
  <2> QED
    BY <2>1 DEF Write
<1>4. row \in Row /\ s \in Session \cup {NoSession} /\ new # NoRow
  <2>1. row \in Row
    BY RowOfName DEF IInv, Types
  <2>2. r.op \in (AdminOps \ {"create"}) \cup {"change_password"}
    BY <1>0, WriteOps
  <2>3. new \in Row
    BY <1>0, <2>1, <2>2, ChangedRow DEF IInv, Types, CountsOK, Call
  <2> QED
    BY <2>1, <2>3, NobodyAssumption DEF IInv, Types, TypeOK
<1>5. IF r.op = "unblock"
      THEN new.version = row.version /\ new.changed = row.changed /\ (MaySignIn(row) => MaySignIn(new))
      ELSE new.version = row.version + 1 /\ new.changed = r.stamp
  <2>1. r.op \in (AdminOps \ {"create"}) \cup {"change_password"}
    BY <1>0, WriteOps
  <2> HIDE DEF row
  <2> QED
    BY <1>4, <2>1, ChangedFields
<1>6. Follows(s, row, now) /\ Part(r, s, row, now)
  BY <1>0 DEF Consistent
<1>7. ASSUME NEW x \in Session \cup {NoSession}, Follows(x, row, now),
             r.op # "unblock" /\ x # NoSession => x.created <= r.stamp
      PROVE  Follows(x, new, now)
  <2> SUFFICES ASSUME x # NoSession PROVE Follows(x, new, now)
    BY DEF Follows
  <2>1. x.version \in Nat /\ row.version \in Nat
    BY <1>4 DEF Session, Row
  <2>2. CASE r.op = "unblock"
    BY <1>4, <1>5, <1>7, <2>2 DEF Follows
  <2>3. CASE r.op # "unblock"
    <3>1. new.version = row.version + 1 /\ new.changed = r.stamp /\ x.created <= r.stamp
      BY <1>5, <1>7, <2>3
    <3>2. x.version <= row.version /\ x.created <= now
      BY <1>7 DEF Follows
    <3>3. x.version # new.version /\ x.version <= new.version
      BY <2>1, <3>1, <3>2
    <3> HIDE DEF new
    <3> QED
      BY <1>4, <3>1, <3>2, <3>3 DEF Follows
  <2> QED
    BY <2>2, <2>3
<1>8. Follows(s, new, now)
  <2>1. r.op # "unblock" /\ s # NoSession => s.created <= r.stamp
    BY <1>0, <1>6 DEF Part
  <2> QED
    BY <1>4, <1>6, <1>7, <2>1
<1>9. ASSUME NEW d \in Clients, call'[d].name = n
      PROVE  Part(call'[d], s, new, now)
  <2>1. CASE d = c
    BY <1>3, <2>1 DEF Part
  <2>2. CASE d # c
    <3> DEFINE q == call[d]
    <3>1. call'[d] = q /\ q \in Call /\ Part(q, s, row, now) /\ q.name = n
      BY <1>0, <1>1, <1>9, <2>2 DEF Consistent, CallsOK
    <3>2. r.op # "unblock" => ~Changing(call, d, n) /\ ~SigningIn(call, d, n)
      <4>1. r.op # "unblock" => Changing(call, c, n)
        BY <1>0 DEF Changing
      <4> QED
        BY <1>0, <2>2, <4>1, Apart
    <3>3. q.at \in {"account", "drop"} =>
            q.session # NoSession /\ Follows(q.session, new, now) /\ s \in {NoSession, q.session}
      <4> SUFFICES ASSUME q.at \in {"account", "drop"}
                   PROVE  q.session # NoSession /\ Follows(q.session, new, now) /\ s \in {NoSession, q.session}
        OBVIOUS
      <4>1. q.session # NoSession /\ Follows(q.session, row, now) /\ s \in {NoSession, q.session}
        BY <3>1 DEF Part
      <4>2. q.session \in Session \cup {NoSession}
        BY <3>1 DEF Call
      <4>3. r.op # "unblock" => q.session.created <= r.stamp
        BY <1>0, <3>1 DEF Consistent, StampedAfter, Changing, Resolving
      <4> HIDE DEF q
      <4> QED
        BY <1>7, <4>1, <4>2, <4>3
    <3>4. q.at = "drop" => q.session.version # new.version \/ new.changed = q.session.created
      <4> SUFFICES ASSUME q.at = "drop"
                   PROVE  q.session.version # new.version \/ new.changed = q.session.created
        OBVIOUS
      <4>1. q.session # NoSession /\ Follows(q.session, row, now)
            /\ (q.session.version # row.version \/ row.changed = q.session.created)
        BY <3>1 DEF Part
      <4>2. q.session.version <= row.version
        BY <4>1 DEF Follows
      <4>3. q.session.version \in Nat /\ row.version \in Nat
        BY <1>4, <3>1, <4>1 DEF Call, Session, Row
      <4>4. CASE r.op = "unblock"
        BY <1>5, <4>1, <4>4
      <4>5. CASE r.op # "unblock"
        <5>1. new.version = row.version + 1
          BY <1>5, <4>5
        <5> HIDE DEF new, row, q
        <5> QED
          BY <4>2, <4>3, <5>1
      <4> QED
        BY <4>4, <4>5
    <3>5. q.at = "write" /\ q.op # "unblock" /\ s # NoSession => s.created <= q.stamp
      BY <3>1 DEF Part
    <3>6. q.at \in {"judge", "session"} /\ q.row # NoRow =>
            new # NoRow /\ q.row.version = new.version /\ (MaySignIn(q.row) => MaySignIn(new))
      <4> SUFFICES ASSUME q.at \in {"judge", "session"}, q.row # NoRow
                   PROVE  new # NoRow /\ q.row.version = new.version /\ (MaySignIn(q.row) => MaySignIn(new))
        OBVIOUS
      <4>1. r.op = "unblock"
        BY <3>1, <3>2 DEF SigningIn
      <4>2. q.row.version = row.version /\ (MaySignIn(q.row) => MaySignIn(row))
        BY <3>1 DEF Part
      <4> QED
        BY <1>4, <1>5, <4>1, <4>2
    <3>7. q.at = "session" => q.row # NoRow /\ MaySignIn(q.row)
      BY <3>1 DEF Part
    <3> HIDE DEF new, row, q
    <3>8. Part(q, s, new, now)
      BY <3>3, <3>4, <3>5, <3>6, <3>7 DEF Part
    <3> QED
      BY <3>1, <3>8 DEF q
  <2> QED
    BY <2>1, <2>2
<1>10. StampedAfter(n)'
  <2> SUFFICES ASSUME NEW d \in Clients, NEW e \in Clients, Changing(call', d, n), Resolving(call', e, n)
               PROVE  call'[e].session.created <= call'[d].stamp
    BY DEF StampedAfter
  <2>1. d # c /\ e # c
    BY <1>3 DEF Changing, Resolving
  <2>2. Changing(call, d, n) /\ Resolving(call, e, n)
    BY <1>1, <2>1 DEF Changing, Resolving
  <2>3. call[e].session.created <= call[d].stamp
    BY <1>0, <2>2 DEF Consistent, StampedAfter
  <2> QED
    BY <1>1, <2>1, <2>3
<1>11. RowOf(n)' = new
  OBVIOUS
<1> HIDE DEF new, row, s
<1> QED
  BY <1>0, <1>2, <1>8, <1>9, <1>10, <1>11 DEF Consistent, s

(***************************************************************************)
(* A step of a client keeps the sessions consistent.                       *)
(***************************************************************************)
LEMMA ServeSession ==
    ASSUME IInv, IInv', SessionInv, NEW c \in Clients, ServeStep(c)
    PROVE  SessionInv'
<1>1. Racing(call') \subseteq raced'
  BY RacedGrows
<1>2. StampsPast'
  BY StampsStep DEF SessionInv
<1>3. ASSUME NEW n \in Names \ raced'
      PROVE  Consistent(n)'
  BY <1>3, RowStep, SameRow, WriteKeeps, FirstRow
<1>4. Racing(call)' \subseteq raced'
  BY <1>1 DEF Racing, Changing, SigningIn, Resolving
<1> QED
  BY <1>2, <1>3, <1>4 DEF SessionInv

(***************************************************************************)
(* So does a step of the world around them.                                *)
(***************************************************************************)
LEMMA WorldSession ==
    ASSUME IInv, IInv', SessionInv, Tick \/ RenameAtProvider \/ Restart \/ UNCHANGED vars
    PROVE  SessionInv'
<1>1. /\ UNCHANGED <<users, raced>> /\ now \in Nat /\ now' \in Nat /\ now <= now'
  <2>1. now \in Nat /\ now' \in Nat
    BY DEF IInv, Types, TypeOK
  <2>2. now' \in {now, now + 1}
    BY DEF Tick, RenameAtProvider, Restart, vars
  <2> QED
    BY <2>1, <2>2 DEF Tick, RenameAtProvider, Restart, vars, store
<1>2. /\ \A c \in Clients : call'[c] = call[c] \/ call'[c] = Idle
      /\ \A n \in Names : sessions'[n] \in {sessions[n], NoSession}
  BY DEF Tick, RenameAtProvider, Restart, vars, memory
<1>3. Idle.at = "idle" /\ Idle.stamp = 0
  BY DEF Idle
<1>4. CallsOK /\ \A n \in Names : sessions[n] \in Session \cup {NoSession}
  BY DEF IInv, Types, TypeOK
<1>5. Racing(call)' \subseteq raced'
  <2>1. Racing(call)' \subseteq Racing(call)
    BY <1>2, <1>3 DEF Racing, Changing, SigningIn, Resolving
  <2> QED
    BY <1>1, <2>1 DEF SessionInv
<1>6. StampsPast'
  <2>1. ASSUME NEW c \in Clients PROVE call'[c].stamp <= now'
    <3>1. call[c].stamp <= now /\ call[c].stamp \in Int
      BY <1>4, TimeAssumption DEF SessionInv, StampsPast, CallsOK, Call
    <3> QED
      BY <1>1, <1>2, <1>3, <3>1
  <2>2. ASSUME NEW i \in Ids, users'[i] # NoRow PROVE users'[i].changed <= now'
    <3>1. users'[i] = users[i]
      BY <1>1
    <3>2. users[i] \in Row /\ users[i].changed <= now
      BY <2>2, <3>1 DEF SessionInv, StampsPast, IInv, Types, TypeOK
    <3>3. users[i].changed \in Int
      BY <3>2, TimeAssumption DEF Row
    <3> QED
      BY <1>1, <3>1, <3>2, <3>3
  <2> QED
    BY <2>1, <2>2 DEF StampsPast
<1>7. ASSUME NEW n \in Names \ raced'
      PROVE  Consistent(n)'
  <2>1. Consistent(n)
    BY <1>1, <1>7 DEF SessionInv
  <2>2. RowOf(n)' = RowOf(n)
    BY <1>1, RowSame DEF IInv, Types
  <2>3. Follows(sessions'[n], RowOf(n), now')
    <3>1. Follows(sessions[n], RowOf(n), now')
      BY <1>1, <1>4, <2>1, FollowsLater DEF Consistent
    <3> QED
      BY <1>2, <3>1 DEF Follows
  <2>4. ASSUME NEW c \in Clients, call'[c].name = n
        PROVE  Part(call'[c], sessions'[n], RowOf(n), now')
    <3>1. CASE call'[c] = Idle
      BY <1>3, <3>1 DEF Part
    <3>2. CASE call'[c] = call[c]
      <4>1. call[c] \in Call /\ Part(call[c], sessions[n], RowOf(n), now)
        BY <1>4, <2>1, <2>4, <3>2 DEF Consistent, CallsOK
      <4>2. sessions'[n] \in {sessions[n], NoSession}
        BY <1>2
      <4>3. Part(call[c], sessions'[n], RowOf(n), now')
        <5> DEFINE s == sessions[n]
                   s1 == sessions'[n]
                   row == RowOf(n)
        <5>1. s \in Session \cup {NoSession} /\ s1 \in {s, NoSession}
          BY <1>4, <4>2
        <5> HIDE DEF s, s1, row
        <5>2. Part(call[c], s1, row, now')
          BY <1>1, <4>1, <5>1, PartLater DEF s, row
        <5> QED
          BY <5>2 DEF s1, row
      <4> QED
        BY <3>2, <4>3
    <3> QED
      BY <1>2, <3>1, <3>2
  <2>5. StampedAfter(n)'
    BY <1>2, <1>3, <2>1 DEF Consistent, StampedAfter, Changing, Resolving
  <2> QED
    BY <2>2, <2>3, <2>4, <2>5 DEF Consistent
<1> QED
  BY <1>5, <1>6, <1>7 DEF SessionInv

LEMMA NextSession ==
    ASSUME IInv, IInv', SessionInv, [Next]_vars
    PROVE  SessionInv'
BY ServeSession, WorldSession DEF Next

LEMMA InitSession == ASSUME Init, IInv PROVE SessionInv
<1>1. \A c \in Clients : call[c] = Idle
  BY DEF Init
<1>2. Idle.at = "idle" /\ Idle.stamp = 0
  BY DEF Idle
<1>3. Racing(call) \subseteq raced
  BY <1>1, <1>2 DEF Racing, Changing, SigningIn, Resolving
<1>4. now = 0 /\ \A n \in Names : sessions[n] = NoSession
  BY DEF Init
<1>5. ASSUME NEW i \in Ids, users[i] # NoRow PROVE users[i].changed <= now
  <2>1. users[i].changed = Never
    BY <1>5 DEF Init, NewRow
  <2> QED
    BY <1>4, <2>1, TimeAssumption
<1>6. StampsPast
  BY <1>1, <1>2, <1>4, <1>5 DEF StampsPast
<1>7. ASSUME NEW n \in Names PROVE Consistent(n)
  BY <1>1, <1>2, <1>4 DEF Consistent, Follows, Part, StampedAfter, Changing
<1> QED
  BY <1>3, <1>6, <1>7 DEF SessionInv

(***************************************************************************)
(* What the invariant says of a request that judges its session, and of a  *)
(* session that ends.                                                      *)
(***************************************************************************)
LEMMA LetThrough ==
    ASSUME IInv, SessionInv, Next, NEW c \in Clients, At(c, "account"),
           call'[c].at \notin {"account", "drop", "idle"}, call[c].name \notin raced
    PROVE  call[c].session.version = RowOf(call[c].name).version
<1> DEFINE n == call[c].name
           row == RowOf(n)
           session == call[c].session
<1>0. call[c] \in Call /\ n \in Names /\ CallsOK /\ call[c].at = "account"
  BY DEF IInv, Types, CallsOK, Call, At
<1>1. session # NoSession /\ Follows(session, row, now)
  BY <1>0 DEF SessionInv, Consistent, Part
<1>2. ServeStep(c)
  <2>1. ASSUME NEW d \in Clients, ServeStep(d), d # c
        PROVE  FALSE
    <3>1. call'[c] = call[c]
      BY <1>0, <2>1, StepIsLocal DEF Moved, CallsOK
    <3> QED
      BY <1>0, <3>1
  <2>2. CASE Tick \/ RenameAtProvider
    BY <1>0, <2>2 DEF Tick, RenameAtProvider
  <2>3. CASE Restart
    <3>1. call'[c] = call[c] \/ call'[c] = Idle
      BY <2>3 DEF Restart
    <3> QED
      BY <1>0, <3>1 DEF Idle
  <2> QED
    BY <2>1, <2>2, <2>3 DEF Next
<1>3. Resolve(c)
  BY <1>0, <1>2 DEF ServeStep, At, Begin, Delay, ReadCredentials, RefuseLogin, RecordLogin, CreateSession,
     RecordSuccess, GetSession, DropSession, Temporary, Owner, PutState, Prove, Stamp, Write, CreateUser,
     Issue, Consume, Exchange, FindLink, WriteProfile, Standing, Mint, VerifyToken, BindAccount
<1>4. ~Ended(row, session)
  <2>1. SUFFICES ASSUME Ended(row, session) PROVE FALSE
    OBVIOUS
  <2>2. Goto(c, "drop")
    BY <1>3, <2>1 DEF Resolve
  <2>3. call'[c].at = "drop"
    BY <1>0, <2>2 DEF Goto, Local, CallsOK, Call
  <2> QED
    BY <2>3
<1>5. row \in Row /\ session \in Session
  BY <1>0, <1>1, RowOfName DEF Follows, Call, IInv, Types
<1>6. row.changed \in Int /\ session.created \in Nat
  BY <1>5, TimeAssumption DEF Row, Session
<1>7. row.changed = Never \/ row.changed < session.created
  BY <1>4, <1>6 DEF Ended, ChangedSince
<1>8. row.changed < session.created
  BY <1>6, <1>7, TimeAssumption
<1> QED
  BY <1>1, <1>6, <1>8 DEF Follows

LEMMA SessionEnds ==
    ASSUME IInv, SessionInv, Next, NEW n \in Names \ raced, sessions[n] # NoSession,
           sessions'[n] = NoSession, restarts' = restarts
    PROVE  \/ RowOf(n).version # sessions[n].version \/ RowOf(n).changed = sessions[n].created
           \/ \E c \in Clients : At(c, "end") /\ call[c].name = n /\ call'[c].at = "idle"
<1>1. PICK c \in Clients : ServeStep(c)
  <2>1. CASE Tick \/ RenameAtProvider
    BY <2>1 DEF Tick, RenameAtProvider, memory
  <2>2. CASE Restart
    <3>1. restarts \in Nat /\ restarts' = restarts + 1
      BY <2>2, TimeAssumption DEF Restart, IInv, Types, TypeOK
    <3> QED
      BY <3>1
  <2> QED
    BY <2>1, <2>2 DEF Next
<1>2. DropSession(c) /\ call[c].name = n
  <2>1. CASE /\ CreateSession(c) /\ call[c].name = n
             /\ sessions'[n] = [created |-> now, id |-> call[c].id, version |-> VersionOf(call[c].row)]
    <3>1. sessions'[n] \in Session
      <4>1. call[c] \in Call /\ call[c].id \in Ids
        BY <2>1 DEF CreateSession, At, IInv, Types, CallsOK, Where
      <4>2. VersionOf(call[c].row) \in Nat /\ now \in 0 .. MaxTime
        BY <4>1 DEF VersionOf, Call, Row, IInv, Types, TypeOK
      <4> QED
        BY <2>1, <4>1, <4>2 DEF Session
    <3> QED
      BY <3>1, NobodyAssumption
  <2> QED
    BY <1>1, <2>1, SessionStep
<1>3. CASE At(c, "drop")
  <2>1. Part(call[c], sessions[n], RowOf(n), now)
    BY <1>2 DEF SessionInv, Consistent
  <2> QED
    BY <1>3, <2>1 DEF Part, At
<1>4. CASE At(c, "end") /\ Done(c, "ok")
  <2>1. call'[c].at = "idle"
    BY <1>4 DEF Done, Local, Idle, IInv, Types, CallsOK
  <2> QED
    BY <1>2, <1>4, <2>1
<1> QED
  BY <1>2, <1>3, <1>4 DEF DropSession

(***************************************************************************)
(* A request is let through only on a session that began under the         *)
(* credentials its account has now, and a session ends only when they have *)
(* changed or its user logs out: for any number of browsers, shells and    *)
(* calls, in any order, for names no calls have raced for and that no      *)
(* account was given or gave up.                                           *)
(***************************************************************************)
THEOREM SessionsFollowCredentials == Spec => SessionsEndByChange
<1> DEFINE Let == \A c \in Clients :
                    /\ At(c, "account") /\ call'[c].at \notin {"account", "drop", "idle"}
                    /\ call[c].name \notin raced
                    => call[c].session.version = RowOf(call[c].name).version
           End == \A n \in Names \ raced :
                    LET row == RowOf(n) IN
                    /\ sessions[n] # NoSession /\ sessions'[n] = NoSession /\ restarts' = restarts
                    => \/ row = NoRow \/ row.version # sessions[n].version \/ row.changed = sessions[n].created
                       \/ \E c \in Clients : At(c, "end") /\ call[c].name = n /\ call'[c].at = "idle"
<1>1. Init /\ IInv => SessionInv
  BY InitSession
<1>2. IInv /\ IInv' /\ SessionInv /\ [Next]_vars => SessionInv'
  BY NextSession
<1>3. IInv /\ SessionInv /\ [Next]_vars => [Let /\ End]_vars
  <2> SUFFICES ASSUME IInv, SessionInv, Next PROVE Let /\ End
    OBVIOUS
  <2>1. Let
    BY LetThrough
  <2>2. End
    BY SessionEnds
  <2> QED
    BY <2>1, <2>2
<1> QED
  BY <1>1, <1>2, <1>3, Always, PTL DEF Spec, SessionsEndByChange
=============================================================================
