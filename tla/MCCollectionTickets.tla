----------------------- MODULE MCCollectionTickets -----------------------
(* TLC instances of CollectionTickets. *)
EXTENDS CollectionTickets, TLC

CONSTANT t1

\* One ticket, printed on day 0.
OneTicket == (t1 :> 0)
=============================================================================
