--------------------------- MODULE MCInvitations ---------------------------
(* Instances of Invitations for TLC. *)
EXTENDS Invitations, TLC

\* Requests, accounts, addresses, rows and roles are interchangeable.
Interchangeable ==
    Permutations(Reqs) \cup Permutations(Users) \cup Permutations(Emails)
        \cup Permutations(Invites) \cup Permutations(Roles)

=============================================================================
