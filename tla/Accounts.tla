------------------------------- MODULE Accounts -------------------------------
(***************************************************************************)
(* Who may use the server: the account store, which the admin's command    *)
(* line (cli/users.py) writes from another process, and what the server    *)
(* holds in memory about sign-ins: sessions, failed attempts, pending      *)
(* provider logins and prompt tokens (services/auth_service.py,            *)
(* infrastructure/accounts, session, oauth and mcp).                       *)
(*                                                                         *)
(* Each method of the store is one SQLite transaction and each method of   *)
(* the in-memory stores is one dictionary access or runs under one lock:   *)
(* these are the actions, and the calls of the clients interleave between  *)
(* them.  A stamp of a credential change is taken before its transaction.  *)
(*                                                                         *)
(* A password is a number, and its hash the same number: 0 is no password. *)
(* Names are taken as normalized; e-mail addresses, profiles and refresh   *)
(* tokens are left out, and a cookie is the name it carries.               *)
(***************************************************************************)
EXTENDS Integers, FiniteSets, Sequences

CONSTANTS
    Ids,          \* account ids (uuid4) the store may hand out
    Names,        \* usernames
    Origins,      \* addresses the sign-ins come from
    Identities,   \* accounts at the providers
    Clients,      \* browsers, admin shells and MCP clients
    Scripts,      \* the calls each client makes, in order: one of these
    MaxTime,      \* bound on the clock
    MaxRestarts,  \* bound on the restarts of the server
    MaxAttempts, MaxDelay, Decay,   \* of the login throttle, its base delay 1
    PendingLife, TokenLife,         \* how long a pending login and a token live
    Never, NoOne, NoRow, NoSession

AdminOps  == {"create", "set_password", "block", "unblock", "delete", "undelete"}
SignInOps == {"login", "callback"}
PageOps   == {"page", "put_state", "change_password", "logout"}
Ops == AdminOps \cup SignInOps \cup PageOps \cup {"begin_login", "mint", "tool"}

ASSUME ScriptsAssumption ==
    Scripts \subseteq [Clients -> Seq([op : Ops, name : Names])]
ASSUME TimeAssumption ==
    /\ {MaxTime, MaxRestarts, MaxAttempts, MaxDelay, Decay, PendingLife, TokenLife} \subseteq Nat
    /\ MaxAttempts > 0 /\ MaxDelay > 0 /\ Never = -1
ASSUME WorldAssumption ==
    Names # {} /\ Origins # {} /\ Identities # {} /\ IsFiniteSet(Clients)

VARIABLES
    users,      \* table users: a row for each id, or NoRow
    links,      \* table oauth_accounts: the id linked to each identity
    appState,   \* table app_state: the names that have a row
    sessions,   \* SessionManager._contexts
    failures,   \* LoginThrottle._failures, by key
    pending,    \* PendingLoginStore._entries
    tokens,     \* PromptTokenIssuer._entries, by expiry
    profile,    \* the name each identity has at its provider
    now,        \* the clock
    script,     \* what each client still has to do
    call,       \* the call each client is in, with its local variables
    passwords,  \* how many passwords have been made up so far
    issued,     \* how many login states have been issued so far
    minted,     \* history: the tokens minted so far
    restarts,   \* restarts so far
    raced,      \* history: the names for which calls have raced, see Racing, or
                \* that an account was given or gave up
    renamed,    \* history: the identities renamed at the provider while a sign-in
                \* of theirs held the name they had before
    refused     \* history: failed attempts on each name since its last success

vars == <<users, links, appState, sessions, failures, pending, tokens, profile, now,
          script, call, passwords, issued, minted, restarts, raced, renamed, refused>>
store  == <<users, links, appState>>
memory == <<sessions, failures, pending, tokens>>
world  == <<profile, now, restarts, renamed>>
counts == <<passwords, issued, minted>>

Keys == ({"username"} \X Names) \cup ({"ip"} \X Origins)

Row     == [name : Names, hash : Nat, temporary : BOOLEAN, blocked : BOOLEAN,
            deleted : BOOLEAN, changed : 0 .. MaxTime \cup {Never}, version : Nat]
Session == [created : 0 .. MaxTime, id : Ids, version : Nat]
Token   == [expiry : Nat, secret : Nat, account : Ids]

ASSUME NobodyAssumption ==
    NoRow \notin Row /\ NoSession \notin Session /\ NoOne \notin Ids \cup Token

Steps == {"idle", "delay", "read", "judge", "session", "clear", "cookie", "account", "drop",
          "temporary", "owner", "upsert", "end", "prove", "stamp", "write", "insert", "issue",
          "consume", "exchange", "link", "profile", "standing", "mint", "verify", "bind"}

Idle == [op |-> "page", name |-> CHOOSE n \in Names : TRUE, from |-> CHOOSE o \in Origins : TRUE,
         password |-> 0, identity |-> CHOOSE g \in Identities : TRUE, state |-> 0,
         token |-> NoOne, row |-> NoRow, session |-> NoSession, id |-> NoOne,
         stamp |-> 0, at |-> "idle", answer |-> "none"]

TypeOK ==
    /\ users \in [Ids -> Row \cup {NoRow}]
    /\ links \in [Identities -> Ids \cup {NoOne}]
    /\ appState \subseteq Names
    /\ sessions \in [Names -> Session \cup {NoSession}]
    /\ \A k \in DOMAIN failures :
         k \in Keys /\ failures[k].count \in Nat \ {0} /\ failures[k].last \in 0 .. now
    /\ \A s \in DOMAIN pending : s \in 1 .. issued /\ pending[s] \in 0 .. now
    /\ \A x \in DOMAIN tokens : x \in Nat /\ tokens[x] \in [secret : Nat, account : Ids]
    /\ profile \in [Identities -> Names]
    /\ now \in 0 .. MaxTime /\ restarts \in 0 .. MaxRestarts
    /\ \A c \in Clients : call[c].at \in Steps /\ call[c].name \in Names
    /\ \A t \in minted : t \in Token
    /\ raced \subseteq Names /\ renamed \subseteq Identities /\ refused \in [Names -> Nat]
    /\ \A i, j \in Ids : users[i] # NoRow /\ users[j] # NoRow /\ users[i].name = users[j].name => i = j

NewRow(n, hash, temporary) ==
    [name |-> n, hash |-> hash, temporary |-> temporary, blocked |-> FALSE,
     deleted |-> FALSE, changed |-> Never, version |-> 0]

\* No account yet, or one with a password of its own (1), and none at the
\* provider.
Init ==
    /\ \/ users = [i \in Ids |-> NoRow]
       \/ \E n \in Names :
            users = [i \in Ids |-> IF i = CHOOSE i0 \in Ids : TRUE THEN NewRow(n, 1, FALSE) ELSE NoRow]
    /\ links = [g \in Identities |-> NoOne]
    /\ appState = {}
    /\ sessions = [n \in Names |-> NoSession]
    /\ failures = << >> /\ pending = << >> /\ tokens = << >>
    /\ profile \in [Identities -> Names]
    /\ now = 0
    /\ script \in Scripts
    /\ call = [c \in Clients |-> Idle]
    /\ passwords = 1 /\ issued = 0 /\ minted = {} /\ restarts = 0
    /\ raced = {} /\ renamed = {} /\ refused = [n \in Names |-> 0]

Holders(n) == {i \in Ids : users[i] # NoRow /\ users[i].name = n}
IdOf(n)    == CHOOSE i \in Holders(n) : TRUE
RowOf(n)   == IF Holders(n) = {} THEN NoRow ELSE users[IdOf(n)]
NewIds     == {i \in Ids : users[i] = NoRow}

At(c, step) == call[c].at = step

\* Calls that race for an account: two changes of its credentials, or one and
\* a sign-in, from the stamp or the read of the account to the write.  A
\* sign-in also races with a request that is judging the session before it.
Changing(calls, c, n)  == calls[c].name = n /\ calls[c].at = "write" /\ calls[c].op # "unblock"
SigningIn(calls, c, n) == calls[c].name = n /\ calls[c].at \in {"judge", "session"}
Resolving(calls, c, n) == calls[c].name = n /\ calls[c].at \in {"account", "drop"}
Racing(calls) ==
    {n \in Names : \E c, d \in Clients :
       /\ c # d
       /\ \/ Changing(calls, c, n) /\ (Changing(calls, d, n) \/ SigningIn(calls, d, n))
          \/ Resolving(calls, c, n) /\ SigningIn(calls, d, n)}

\* The client goes on with its local variables as given.
Local(c, record) ==
    /\ call' = [call EXCEPT ![c] = record]
    /\ raced' = raced \cup Racing(call')
Goto(c, step)   == Local(c, [call[c] EXCEPT !.at = step])
Done(c, answer) == Local(c, [Idle EXCEPT !.op = call[c].op, !.answer = answer])

FirstStep(op) ==
    CASE op = "login" -> "delay"          [] op \in PageOps -> "cookie"
      [] op = "callback" -> "consume"     [] op = "begin_login" -> "issue"
      [] op = "create" -> "insert"        [] op = "unblock" -> "write"
      [] op = "mint" -> "mint"            [] op = "tool" -> "verify"
      [] OTHER -> "stamp"

\* A client makes its next call, with any of the values it may know.
Begin(c) ==
    /\ At(c, "idle") /\ script[c] # << >>
    /\ script' = [script EXCEPT ![c] = Tail(@)]
    /\ LET do == Head(script[c]) IN
       \E o \in Origins, w \in 1 .. passwords, g \in Identities,
          s \in 0 .. issued, t \in minted \cup {NoOne} :
         /\ do.op # "login" => o = Idle.from
         /\ do.op \notin {"login", "change_password"} => w = 1
         /\ do.op # "callback" => g = Idle.identity
         /\ do.op # "callback" => s = 0
         /\ (do.op = "tool") = (t # NoOne)
         /\ Local(c, [Idle EXCEPT !.op = do.op, !.name = do.name, !.from = o, !.password = w,
                                  !.identity = g, !.state = s, !.token = t,
                                  !.at = FirstStep(do.op)])
    /\ UNCHANGED <<store, memory, world, counts, refused>>
-----------------------------------------------------------------------------
(***************************************************************************)
(* LoginThrottle: a delay once a key has MaxAttempts failures, doubling    *)
(* with each further one, and forgotten after Decay of quiet.              *)
(***************************************************************************)
KeysOf(c)     == {<<"username", call[c].name>>, <<"ip", call[c].from>>}
Elapsed(k)    == now - failures[k].last
Current(k)    == IF k \notin DOMAIN failures THEN 0
                 ELSE IF Elapsed(k) >= Decay THEN 0 ELSE failures[k].count

\* Mutant of DelayFor: the first delay comes one failure too late.
DelayForLate(count) ==
    IF count <= MaxAttempts THEN 0
    ELSE IF 2 ^ (count - MaxAttempts) < MaxDelay THEN 2 ^ (count - MaxAttempts) ELSE MaxDelay

DelayFor(count) ==
    IF count < MaxAttempts THEN 0
    ELSE IF 2 ^ (count - MaxAttempts) < MaxDelay THEN 2 ^ (count - MaxAttempts) ELSE MaxDelay

Owed(k) == IF k \in DOMAIN failures THEN DelayFor(Current(k)) - Elapsed(k) ELSE 0

\* login_with_password: delay_for, then the account is read.
Delay(c) ==
    /\ At(c, "delay")
    /\ IF \E k \in KeysOf(c) : Owed(k) > 0 THEN Done(c, "limited") ELSE Goto(c, "read")
    /\ UNCHANGED <<store, memory, world, script, counts, refused>>

\* get_credentials, for a sign-in or a change of password.
ReadCredentials(c) ==
    /\ At(c, "read")
    /\ Local(c, [call[c] EXCEPT !.row = RowOf(call[c].name),
                                !.id  = IF Holders(call[c].name) = {} THEN NoOne ELSE IdOf(call[c].name),
                                !.at  = IF call[c].op = "login" THEN "judge" ELSE "prove"])
    /\ UNCHANGED <<store, memory, world, script, counts, refused>>

MaySignIn(row) == ~row.blocked /\ ~row.deleted
Verified(c)    == call[c].row # NoRow /\ call[c].row.hash = call[c].password
Accepted(c)    == Verified(c) /\ MaySignIn(call[c].row)

\* A refusal of any kind counts against the name and the address.
RefuseLogin(c) ==
    /\ At(c, "judge") /\ ~Accepted(c)
    /\ failures' = [k \in DOMAIN failures \cup KeysOf(c) |->
                      IF k \in KeysOf(c) THEN [count |-> Current(k) + 1, last |-> now]
                      ELSE failures[k]]
    /\ refused' = [refused EXCEPT ![call[c].name] = @ + 1]
    /\ Done(c, "refused")
    /\ UNCHANGED <<store, sessions, pending, tokens, world, script, counts>>

\* record_login: the row may have been renamed meanwhile.
RecordLogin(c) ==
    /\ At(c, "judge") /\ Accepted(c)
    /\ IF Holders(call[c].name) = {} THEN Done(c, "failed") ELSE Goto(c, "session")
    /\ UNCHANGED <<store, memory, world, script, counts, refused>>

VersionOf(row) == IF row = NoRow THEN 0 ELSE row.version

\* SessionManager.create: the one session of the name, replaced if there is one.
CreateSession(c) ==
    /\ At(c, "session")
    /\ sessions' = [sessions EXCEPT ![call[c].name] =
                      [created |-> now, id |-> call[c].id, version |-> VersionOf(call[c].row)]]
    /\ IF call[c].op = "login" THEN Goto(c, "clear") ELSE Done(c, "ok")
    /\ UNCHANGED <<store, failures, pending, tokens, world, script, counts, refused>>

\* record_success clears both counters; the name has signed in.
RecordSuccess(c) ==
    /\ At(c, "clear")
    /\ failures' = [k \in DOMAIN failures \ KeysOf(c) |-> failures[k]]
    /\ refused' = [refused EXCEPT ![call[c].name] = 0]
    /\ Done(c, "ok")
    /\ UNCHANGED <<store, sessions, pending, tokens, world, script, counts>>
-----------------------------------------------------------------------------
(***************************************************************************)
(* A page call carries a cookie with a name.  get_authenticated_user finds *)
(* the session, reads the account and drops a session the account no       *)
(* longer supports; get_current_user refuses while a temporary password is *)
(* to be replaced, and get_owner reads the account's id once more.         *)
(***************************************************************************)
GetSession(c) ==
    /\ At(c, "cookie")
    /\ IF sessions[call[c].name] = NoSession THEN Done(c, "unauthenticated")
       ELSE Local(c, [call[c] EXCEPT !.session = sessions[call[c].name], !.at = "account"])
    /\ UNCHANGED <<store, memory, world, script, counts, refused>>

\* Mutant of ChangedSince: a stamp of the same instant does not count.
ChangedSinceStrictly(row, session) == row.changed # Never /\ row.changed > session.created

\* _credentials_changed_since: equal counts as changed.
ChangedSince(row, session) == row.changed # Never /\ row.changed >= session.created

\* The account no longer supports the session.
Ended(row, session) == row = NoRow \/ ~MaySignIn(row) \/ ChangedSince(row, session)

AfterResolve(op) ==
    CASE op \in {"page", "put_state"} -> "temporary"
      [] op = "change_password" -> "read" [] op = "logout" -> "end"

\* resolve_session reads the account and judges the session it holds.
Resolve(c) ==
    /\ At(c, "account")
    /\ Goto(c, IF Ended(RowOf(call[c].name), call[c].session) THEN "drop"
               ELSE AfterResolve(call[c].op))
    /\ UNCHANGED <<store, memory, world, script, counts, refused>>

\* SessionManager.remove: whichever session the name has by now.
RemoveSession(n) == sessions' = [sessions EXCEPT ![n] = NoSession]

DropSession(c) ==
    /\ \/ At(c, "drop") /\ Done(c, "unauthenticated")
       \/ At(c, "end")  /\ Done(c, "ok")
    /\ RemoveSession(call[c].name)
    /\ UNCHANGED <<store, failures, pending, tokens, world, script, counts, refused>>

\* requires_password_change
Temporary(c) ==
    /\ At(c, "temporary")
    /\ LET row == RowOf(call[c].name) IN
         IF row # NoRow /\ row.temporary THEN Done(c, "change_required")
         ELSE Goto(c, IF call[c].op = "put_state" THEN "upsert" ELSE "owner")
    /\ UNCHANGED <<store, memory, world, script, counts, refused>>

Owner(c) ==
    /\ At(c, "owner")
    /\ Done(c, IF RowOf(call[c].name) = NoRow THEN "unauthenticated" ELSE "ok")
    /\ UNCHANGED <<store, memory, world, script, counts, refused>>

\* set_app_state: the row refers to an existing username.
PutState(c) ==
    /\ At(c, "upsert")
    /\ \/ /\ Holders(call[c].name) # {}
          /\ appState' = appState \cup {call[c].name}
          /\ Done(c, "ok")
       \/ Holders(call[c].name) = {} /\ Done(c, "failed") /\ UNCHANGED appState
    /\ UNCHANGED <<users, links, memory, world, script, counts, refused>>

\* change_password: the current password is proved; the policy may refuse the
\* new one, or find it unchanged.
Prove(c) ==
    /\ At(c, "prove")
    /\ \/ Accepted(c) /\ Goto(c, "stamp")
       \/ Done(c, "refused")
    /\ UNCHANGED <<store, memory, world, script, counts, refused>>
-----------------------------------------------------------------------------
\* The stamp of a change of credentials, before its transaction.
Stamp(c) ==
    /\ At(c, "stamp")
    /\ Local(c, [call[c] EXCEPT !.stamp = now, !.at = "write"])
    /\ UNCHANGED <<store, memory, world, script, counts, refused>>

\* What set_password_hash, block_user, unblock_user, soft_delete_user and
\* restore_user write into the account's row.
Changed(row, op, stamp) ==
    LET new == [row EXCEPT !.changed = stamp, !.version = @ + 1] IN
    CASE op \in {"set_password", "change_password"} ->
           [new EXCEPT !.hash = passwords + 1, !.temporary = (op = "set_password")]
      [] op = "block"    -> [new EXCEPT !.blocked = TRUE]
      [] op = "unblock"  -> [row EXCEPT !.blocked = FALSE]
      [] op = "delete"   -> [new EXCEPT !.deleted = TRUE]
      [] op = "undelete" -> [new EXCEPT !.deleted = FALSE]

Write(c) ==
    LET n == call[c].name IN
    /\ At(c, "write")
    /\ \/ /\ Holders(n) # {}
          /\ users' = [users EXCEPT ![IdOf(n)] = Changed(@, call[c].op, call[c].stamp)]
          /\ Done(c, "ok")
       \/ Holders(n) = {} /\ Done(c, "unknown_user") /\ UNCHANGED users
    /\ passwords' = IF call[c].op \in {"set_password", "change_password"}
                    THEN passwords + 1 ELSE passwords
    /\ UNCHANGED <<links, appState, memory, world, script, issued, minted, refused>>

\* Mutant of NameFree: the column has no UNIQUE constraint.
NameFreeAlways(n, i) == TRUE

\* The UNIQUE constraint on users.username, for the row of id i.
NameFree(n, i) == Holders(n) \subseteq {i}

\* create_user, with a temporary password.
CreateUser(c) ==
    /\ At(c, "insert")
    /\ \/ /\ NameFree(call[c].name, NoOne)
          /\ \E i \in NewIds : users' = [users EXCEPT ![i] = NewRow(call[c].name, passwords + 1, TRUE)]
          /\ Done(c, "ok")
       \/ ~NameFree(call[c].name, NoOne) /\ Done(c, "name_taken") /\ UNCHANGED users
    /\ passwords' = passwords + 1
    /\ UNCHANGED <<links, appState, memory, world, script, issued, minted, refused>>
-----------------------------------------------------------------------------
\* The login states that have expired.
Stale == {s \in DOMAIN pending : now - pending[s] > PendingLife}

\* begin_login: the expired states are dropped one after the other, and a new
\* one is remembered; it fails at a state that another begin_login or callback
\* in between has dropped since the two listed them (KeyError).
Issue(c) ==
    /\ At(c, "issue")
    /\ \/ /\ pending' = [s \in (DOMAIN pending \ Stale) \cup {issued + 1}
                            |-> IF s = issued + 1 THEN now ELSE pending[s]]
          /\ issued' = issued + 1
          /\ Done(c, "ok")
       \/ /\ \E d \in Clients \ {c}, gone \in SUBSET Stale \ {{}} :
               /\ At(d, "issue") \/ (At(d, "consume") /\ call[d].state \in gone)
               /\ pending' = [s \in DOMAIN pending \ gone |-> pending[s]]
          /\ Done(c, "failed") /\ UNCHANGED issued
    /\ UNCHANGED <<store, sessions, failures, tokens, world, script, passwords, minted, refused>>

\* complete_login: the state is taken out before its age is looked at.
Consume(c) ==
    LET s == call[c].state IN
    /\ At(c, "consume")
    /\ IF s \in DOMAIN pending /\ now - pending[s] <= PendingLife
       THEN Goto(c, "exchange") ELSE Done(c, "invalid_state")
    /\ pending' = [x \in DOMAIN pending \ {s} |-> pending[x]]
    /\ UNCHANGED <<store, sessions, failures, tokens, world, script, counts, refused>>

\* exchange_code and fetch_profile: the provider may refuse.
Exchange(c) ==
    /\ At(c, "exchange")
    /\ \/ Local(c, [call[c] EXCEPT !.name = profile[call[c].identity], !.at = "link"])
       \/ Done(c, "invalid_state")
    /\ UNCHANGED <<store, memory, world, script, counts, refused>>

\* get_user_by_provider_account, in a transaction of its own.
FindLink(c) ==
    /\ At(c, "link")
    /\ Local(c, [call[c] EXCEPT !.id = links[call[c].identity], !.at = "profile"])
    /\ UNCHANGED <<store, memory, world, script, counts, refused>>

\* A rename of a user to n is refused while app_state refers to the old name.
Renames(i, n) == users[i].name = n \/ users[i].name \notin appState

GivenUp(i, n) == IF users[i].name = n THEN {} ELSE {users[i].name, n}

\* upsert_provider_user: the account is made or its name refreshed, and the
\* identity linked to it, whatever it is linked to by then, in one transaction
\* that a constraint on the name, the application state or the e-mail address
\* may refuse.
WriteProfile(c) ==
    LET n == call[c].name
        Linked(i, names) ==
          /\ links' = [links EXCEPT ![call[c].identity] = i]
          /\ call' = [call EXCEPT ![c] = [@ EXCEPT !.id = i, !.at = "standing"]]
          /\ raced' = raced \cup names \cup Racing(call') IN
    /\ At(c, "profile")
    /\ \/ /\ call[c].id = NoOne /\ NameFree(n, NoOne)
          /\ \E i \in NewIds : users' = [users EXCEPT ![i] = NewRow(n, 0, FALSE)] /\ Linked(i, {})
       \/ /\ call[c].id # NoOne /\ NameFree(n, call[c].id) /\ Renames(call[c].id, n)
          /\ users' = [users EXCEPT ![call[c].id].name = n]
          /\ Linked(call[c].id, GivenUp(call[c].id, n))
       \/ Done(c, "failed") /\ UNCHANGED <<users, links>>
    /\ UNCHANGED <<appState, memory, world, script, counts, refused>>

\* get_credentials: a blocked or deleted account is refused; a name that the
\* account has given up meanwhile is not.
Standing(c) ==
    LET row == RowOf(call[c].name) IN
    /\ At(c, "standing")
    /\ IF row # NoRow /\ ~MaySignIn(row) THEN Done(c, "failed")
       ELSE Local(c, [call[c] EXCEPT !.row = row, !.at = "session"])
    /\ UNCHANGED <<store, memory, world, script, counts, refused>>
-----------------------------------------------------------------------------
\* _prune: an entry goes when its expiry has passed.
Live(entries) == {x \in DOMAIN entries : x > now}

\* The mint route, with the operator's secret: prune, then a new entry under
\* its expiry, whatever was minted for this prompt in the same instant.
Mint(c) ==
    /\ At(c, "mint")
    /\ \E i \in {i \in Ids : users[i] # NoRow} :
         LET x == now + TokenLife
             secret == Cardinality(minted) + 1 IN
         /\ tokens' = [y \in Live(tokens) \cup {x} |->
                         IF y = x THEN [secret |-> secret, account |-> i] ELSE tokens[y]]
         /\ minted' = minted \cup {[expiry |-> x, secret |-> secret, account |-> i]}
    /\ Done(c, "ok")
    /\ UNCHANGED <<store, sessions, failures, pending, world, script, passwords, issued, refused>>

\* Mutant of Valid: the signature is not compared.
ValidUnsigned(t) == t.expiry > now /\ t.expiry \in DOMAIN tokens

\* PromptTokenIssuer._check
Valid(t) == /\ t.expiry > now /\ t.expiry \in DOMAIN tokens
            /\ tokens[t.expiry].secret = t.secret

VerifyToken(c) ==
    /\ At(c, "verify")
    /\ IF Valid(call[c].token) THEN Goto(c, "bind") ELSE Done(c, "unauthenticated")
    /\ UNCHANGED <<store, memory, world, script, counts, refused>>

\* account_of checks the token again: none when it has expired meanwhile.
BindAccount(c) ==
    LET t == call[c].token IN
    /\ At(c, "bind")
    /\ IF Valid(t) THEN Local(c, [Idle EXCEPT !.op = "tool", !.answer = "ok", !.token = t,
                                              !.id = tokens[t.expiry].account])
       ELSE Done(c, "tool_error")
    /\ UNCHANGED <<store, memory, world, script, counts, refused>>
-----------------------------------------------------------------------------
Tick ==
    /\ now < MaxTime
    /\ now' = now + 1
    /\ UNCHANGED <<store, memory, profile, restarts, renamed, script, call, counts, raced, refused>>

\* A sign-in that has fetched its profile and has yet to write it.
Holding(c) == At(c, "link") \/ At(c, "profile")

\* A user renames the account at the provider, at any moment.
RenameAtProvider ==
    /\ \E g \in Identities, n \in Names :
         /\ profile[g] # n
         /\ profile' = [profile EXCEPT ![g] = n]
         /\ renamed' = renamed \cup
                       {h \in {g} : \E c \in Clients : Holding(c) /\ call[c].identity = h}
    /\ UNCHANGED <<store, memory, now, restarts, script, call, counts, raced, refused>>

\* The server restarts: its calls and its memory are gone, an admin's command
\* is a process of its own.
Restart ==
    /\ restarts < MaxRestarts
    /\ restarts' = restarts + 1
    /\ sessions' = [n \in Names |-> NoSession]
    /\ failures' = << >> /\ pending' = << >> /\ tokens' = << >>
    /\ call' = [c \in Clients |-> IF call[c].op \in AdminOps THEN call[c] ELSE Idle]
    /\ refused' = [n \in Names |-> 0]
    /\ UNCHANGED <<store, profile, now, renamed, script, counts, raced>>

ServeStep(c) ==
    \/ Begin(c)
    \/ Delay(c) \/ ReadCredentials(c) \/ RefuseLogin(c) \/ RecordLogin(c)
    \/ CreateSession(c) \/ RecordSuccess(c)
    \/ GetSession(c) \/ Resolve(c) \/ DropSession(c) \/ Temporary(c) \/ Owner(c)
    \/ PutState(c) \/ Prove(c) \/ Stamp(c) \/ Write(c) \/ CreateUser(c)
    \/ Issue(c) \/ Consume(c) \/ Exchange(c) \/ FindLink(c) \/ WriteProfile(c) \/ Standing(c)
    \/ Mint(c) \/ VerifyToken(c) \/ BindAccount(c)

Next == Tick \/ RenameAtProvider \/ Restart \/ \E c \in Clients : ServeStep(c)

Spec == Init /\ [][Next]_vars
-----------------------------------------------------------------------------
(***************************************************************************)
(* A request is let through only on a session that began under the         *)
(* credentials the account has now: a reset, a block, a delete or an       *)
(* undelete by a process that cannot reach the sessions ends them, through *)
(* nothing but the comparison of two clocks' readings (resolve_session).   *)
(* And nothing else ends one: the server forgets a session when the        *)
(* credentials have changed since, or its user logs out; never the session *)
(* of a user who has just signed in, temporary password or not, unless a   *)
(* request was judging the previous session at that moment (end_session).  *)
(* Names whose sign-in or change raced another change are excepted: there  *)
(* the code decides by stamps taken beforehand.  So are names that an      *)
(* account was given or gave up: a session is found by its name, and goes  *)
(* on for whoever has that name next.                                      *)
(***************************************************************************)
SessionsEndByChange ==
    [][/\ \A c \in Clients :
            /\ At(c, "account") /\ call'[c].at \notin {"account", "drop", "idle"}
            /\ call[c].name \notin raced
            => call[c].session.version = RowOf(call[c].name).version
       /\ \A n \in Names \ raced :
            LET row == RowOf(n) IN
            /\ sessions[n] # NoSession /\ sessions'[n] = NoSession /\ restarts' = restarts
            => \/ row = NoRow \/ row.version # sessions[n].version \/ row.changed = sessions[n].created
               \/ \E c \in Clients : At(c, "end") /\ call[c].name = n /\ call'[c].at = "idle"]_vars

(***************************************************************************)
(* An identity at a provider keeps the account it was first linked to,     *)
(* also when two first sign-ins run at once and both find no link: its     *)
(* documents belong to that id (upsert_provider_user).  Nothing but the    *)
(* UNIQUE name refuses the second one: an identity that is renamed at the  *)
(* provider after one of them has fetched its name, and that gives no e-   *)
(* mail address, can get two accounts, and its link moves to the second.   *)
(***************************************************************************)
LinkKept == [][\A g \in Identities \ renamed : links[g] # NoOne => links'[g] = links[g]]_vars

(***************************************************************************)
(* The throttle holds against attempts made in parallel: between two       *)
(* successes a name can fail MaxAttempts - 1 times freely and then, per    *)
(* unit of time, once for each client at most (LoginThrottle: the delay is *)
(* read, the password checked and the failure counted in three calls).     *)
(* The first conjunct is the types: of the names, no two accounts' alike.  *)
(***************************************************************************)
BackoffHolds ==
    /\ TypeOK
    /\ \A n \in Names : refused[n] <= MaxAttempts - 1 + Cardinality(Clients) * (now + 1)

(***************************************************************************)
(* A tool reads for the account its token was minted for, also when the    *)
(* token expires, is pruned, or shares its instant with another one        *)
(* between the middleware's two checks.                                    *)
(***************************************************************************)
TokenReadsItsAccount ==
    \A c \in Clients : call[c].op = "tool" /\ call[c].answer = "ok"
                         => call[c].id = call[c].token.account
=============================================================================
