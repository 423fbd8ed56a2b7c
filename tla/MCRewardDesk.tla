----------------------------- MODULE MCRewardDesk -----------------------------
(* Small instances of RewardDesk; the constants are in the .cfg files. *)
EXTENDS RewardDesk

\* Slots, customers and sweepers that are model values are interchangeable.
DeskSymmetry == Permutations(Slots) \cup Permutations(Customers)
=============================================================================
