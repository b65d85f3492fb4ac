--------------------------- MODULE MCAccountCodes ---------------------------
(* Instances of AccountCodes for TLC. *)
EXTENDS AccountCodes, TLC

\* No action names a request, an account, an address or a password.
Interchangeable ==
    Permutations(Reqs) \cup Permutations(Users)
        \cup Permutations(Emails) \cup Permutations(Passwords)

=============================================================================
