----------------------------- MODULE MCBonusDesk -----------------------------
(* Small instances of BonusDesk; the constants are in the .cfg files. *)
EXTENDS BonusDesk

\* Slots are interchangeable: no action or property tells them apart.
SlotSymmetry == Permutations(Slots)
=============================================================================
