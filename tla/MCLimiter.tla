----------------------------- MODULE MCLimiter -----------------------------
(* Instances of Limiter for TLC. *)
EXTENDS Limiter, TLC

\* Requests and addresses are interchangeable.
Interchangeable == Permutations(Reqs) \cup Permutations(Keys)

=============================================================================
