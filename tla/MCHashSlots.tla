---------------------------- MODULE MCHashSlots ----------------------------
(* Instances of HashSlots for TLC. *)
EXTENDS HashSlots

=============================================================================
