------------------------------ MODULE MCFiles ------------------------------
(* Instances of Files for TLC. *)
EXTENDS Files, TLC

\* Requests, accounts and files are interchangeable.
Interchangeable == Permutations(Reqs) \cup Permutations(Users) \cup Permutations(FileIds)

=============================================================================
