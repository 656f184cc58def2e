------------------------------ MODULE MCAccounts ------------------------------
(***************************************************************************)
(* Instances of Accounts: two browsers and an admin's shell, each with a   *)
(* short script, so that every call meets the calls that can disturb it.   *)
(***************************************************************************)
EXTENDS Accounts, TLC

CONSTANTS ann, bob, web, phone, shell

Do(n, ops) == [k \in DOMAIN ops |-> [op |-> ops[k], name |-> n]]
Trio(x, y, z) == (web :> x) @@ (phone :> y) @@ (shell :> z)

MCNever == -1

MCScripts ==
    {\* A reset or a change of the password among sign-ins and requests.
     Trio(Do(ann, <<"login", "page", "change_password">>), Do(ann, <<"login">>),
          Do(ann, <<"set_password">>)),
     \* A block and its end, a logout.
     Trio(Do(ann, <<"login", "page">>), Do(ann, <<"logout">>),
          Do(ann, <<"block", "unblock">>)),
     Trio(Do(ann, <<"login", "page", "put_state">>), << >>, Do(ann, <<"delete", "undelete">>)),
     \* First sign-ins through a provider, a name the admin gives away meanwhile.
     Trio(Do(bob, <<"begin_login", "callback", "put_state">>), Do(bob, <<"begin_login", "callback">>),
          Do(bob, <<"create">>)),
     Trio(Do(bob, <<"begin_login", "callback", "put_state", "begin_login", "callback">>), << >>,
          Do(bob, <<"block">>)),
     \* Guesses in parallel.
     Trio(Do(ann, <<"login", "login">>), Do(ann, <<"login", "login">>), Do(ann, <<"login">>)),
     \* Prompt tokens.
     Trio(Do(ann, <<"mint", "tool">>), Do(ann, <<"mint", "tool">>), Do(bob, <<"create">>))}
===============================================================================
