---------------------------- MODULE MCSystemRoles ----------------------------
(* Instances of SystemRoles for TLC. *)
EXTENDS SystemRoles, TLC

\* Requests are interchangeable.
Interchangeable == Permutations(Reqs)

=============================================================================
