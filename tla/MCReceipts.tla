----------------------------- MODULE MCReceipts ------------------------------
(* Small instances of Receipts; the other constants are in the .cfg files. *)
EXTENDS Receipts

Receipt(ext, c, net, earned, spent) ==
  [ext |-> ext, customer |-> c, net |-> net, earned |-> earned, spent |-> spent,
   status |-> "completed", mapped |-> TRUE, original |-> NoSale]

(***************************************************************************)
(* Purchases of one friend that earn, spend and qualify; a receipt that    *)
(* arrives as preliminary or as completed, whichever comes first; a refund *)
(* the POS sends as a receipt of its own; and an exchange, a completed     *)
(* receipt that names the first one.                                       *)
(***************************************************************************)
MoneyReceipts ==
  UNION {{Receipt(1, f, 3, 2, 1),
          Receipt(2, f, 2, 0, 2),
          [Receipt(2, f, 2, 0, 2) EXCEPT !.status = "pending"],
          [Receipt(3, f, 1, 0, 0) EXCEPT !.status = "refunded", !.original = 1],
          [Receipt(4, f, 1, 1, 1) EXCEPT !.original = 1]} : f \in Friends}

\* One qualifying purchase of each friend.
ReferralReceipts == {Receipt(1, "ann", 2, 0, 0), Receipt(2, "bob", 2, 0, 0)}

\* Slots are interchangeable: no action or property tells them apart.
SlotSymmetry == Permutations(Slots)
=============================================================================
