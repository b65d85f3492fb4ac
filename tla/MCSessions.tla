----------------------------- MODULE MCSessions -----------------------------
(* Instances of Sessions for TLC. *)
EXTENDS SessionsGate, TLC

\* Requests, devices and passwords are interchangeable: no action names one.
Interchangeable ==
    Permutations(Reqs) \cup Permutations(Devices) \cup Permutations(Passwords)

=============================================================================
