------------------------------- MODULE MCTill -------------------------------
(* What a till's screens, session and settings do to a sale, and how sales are   *)
(* numbered and posted on several tills: a behaviour is of one of them.  Two     *)
(* goods, 3 x 33.33 plus VAT, and an inclusive price with a discount: together   *)
(* they leave 59 cents to round, alone 1 and 51.  A cashier, and somebody who    *)
(* only looks things up.                                                         *)
EXTENDS TillSale, TillDesk, TLC

CONSTANTS u1, u2
VARIABLE scene

Stocked ==
  {[total |-> 9999,  disc |-> 0,    cost |-> 6000,  taxable |-> TRUE, inclusive |-> FALSE],
   [total |-> 25000, disc |-> 1051, cost |-> 12000, taxable |-> TRUE, inclusive |-> TRUE]}
Rights == (u1 :> {"sell", "reprint", "sales"}) @@ (u2 :> {"items"})
Symmetry == Permutations(Till)

TillInit == Init /\ DeskInit /\ scene \in {"tills", "desk"}
TillNext ==
  /\ UNCHANGED scene
  /\ \/ scene = "tills" /\ Next     /\ UNCHANGED deskVars
     \/ scene = "desk"  /\ DeskNext /\ UNCHANGED vars
TillSpec == TillInit /\ [][TillNext]_<<vars, deskVars, scene>>
=============================================================================
