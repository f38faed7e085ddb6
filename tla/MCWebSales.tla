----------------------------- MODULE MCWebSales -----------------------------
(* WebSales with one line of one, or two lines of the same product. *)
EXTENDS WebSales
Baskets == {<<1>>, <<1, 1>>}
=============================================================================
