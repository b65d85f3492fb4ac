---------------------------- MODULE MCMembership ----------------------------
(* Instances of Membership for TLC. *)
EXTENDS Membership, TLC

\* Requests, accounts, rows and custom roles are interchangeable.
Interchangeable ==
    Permutations(Reqs) \cup Permutations(Users)
        \cup Permutations(Memberships) \cup Permutations(CustomRoles)

Nothing == {{}}

Updating == {{"roles.update"}}

Deleting == {{"members.roles.assign"}, {"organization.delete"}}

=============================================================================
