------------------------------ MODULE TokenGate ------------------------------
(***************************************************************************)
(* What signing in promises, without devices, epochs or tables: a token    *)
(* opens the account once it was earned with the password the account has  *)
(* at that moment or with a code nobody else has used, it stays open until *)
(* it is shut, a change of the password shuts every token of the account   *)
(* in the same step, and what is shut stays shut.                          *)
(***************************************************************************)
CONSTANTS
    Users,      \* accounts
    Passwords,  \* what accounts are opened with
    Codes,      \* codes that are mailed
    Tokens,     \* tokens that may ever be issued
    None        \* no account, password or code

VARIABLES
    password,   \* of each account
    token       \* whose each token is, what it was earned with, and its gate

vars == <<password, token>>

Token == [gate: {"none", "open", "shut"}, user: Users \cup {None},
          password: Passwords \cup {None}, code: Codes \cup {None}]

NoToken == [gate |-> "none", user |-> None, password |-> None, code |-> None]

Init ==
    /\ password \in [Users -> Passwords]
    /\ token = [t \in Tokens |-> NoToken]

Unused(c) == \A t \in Tokens : token[t].code # c

\* A token is issued for a password or for a code.  It may be shut when it comes, when
\* what it was earned with has been overtaken; to be open, it takes the password
\* of now.
Issue(t, new) ==
    /\ token[t].gate = "none"
    /\ new.gate # "none" /\ new.user # None
    /\ \/ new.password # None /\ new.code = None
       \/ new.password = None /\ new.code # None /\ Unused(new.code)
    /\ new.gate = "open" /\ new.password # None => new.password = password[new.user]
    /\ token' = [token EXCEPT ![t] = new]
    /\ UNCHANGED password

Shutting(some) ==
    token' = [t \in Tokens |->
        IF t \in some /\ token[t].gate = "open" THEN [token[t] EXCEPT !.gate = "shut"]
                                                ELSE token[t]]

\* Tokens of an account are shut, some of them or all.
Shut(u, some) ==
    /\ \A t \in some : token[t].user = u
    /\ Shutting(some)
    /\ UNCHANGED password

\* A new password shuts all of them.
ChangePassword(u, p) ==
    /\ password' = [password EXCEPT ![u] = p]
    /\ Shutting({t \in Tokens : token[t].user = u})

Next ==
    \/ \E t \in Tokens, new \in Token : Issue(t, new)
    \/ \E u \in Users :
          \/ \E some \in SUBSET Tokens : Shut(u, some)
          \/ \E p \in Passwords : ChangePassword(u, p)

Spec == Init /\ [][Next]_vars

=============================================================================
