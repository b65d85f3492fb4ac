---------------------------- MODULE SessionsGate ----------------------------
(***************************************************************************)
(* Sessions implements TokenGate.  A token is a request that has been      *)
(* answered with one; its gate is what requireBearer would say of it; a    *)
(* code is the number of its challenge.                                    *)
(***************************************************************************)
EXTENDS Sessions

Gate == INSTANCE TokenGate WITH
    Codes <- ChallengeIds,
    Tokens <- Reqs,
    password <- [u \in Users |-> user[u].pw],
    token <- [t \in Reqs |->
        IF pc[t] = "issued"
        THEN [gate |-> IF Accepted(t) THEN "open" ELSE "shut", user |-> seen[t].user,
              password |-> seen[t].proved, code |-> ch[t]]
        ELSE [gate |-> "none", user |-> None, password |-> None, code |-> None]]

\* Whatever statements interleave, signing in keeps what it promises: tokens open for
\* the current password or a code of their own, all shut when the password changes,
\* none opened again (SignIn, VerifyTwoFactor, requireBearer, bumpEpoch).
KeepsItsPromise == Gate!Spec

=============================================================================
