---------------------------- MODULE MCShopScreen ----------------------------
(* TLC instance of ShopScreen: two tickets of one day, and a third that has *)
(* the first one's number on the day after.                                 *)
EXTENDS ShopScreen, TLC
CONSTANTS t1, t2, t3
Days     == (t1 :> 0 @@ t2 :> 0 @@ t3 :> 1)
Slips    == (t1 :> "F-001" @@ t2 :> "F-002" @@ t3 :> "F-001")
=============================================================================
