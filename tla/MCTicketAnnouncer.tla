------------------------ MODULE MCTicketAnnouncer ------------------------
(* TLC instances of TicketAnnouncer. *)
EXTENDS TicketAnnouncer, TLC

CONSTANTS t1, t2, k1, k2, alice, brian

\* Two tickets of one day, a code each.
SameDay  == (t1 :> 0 @@ t2 :> 0)
TwoCodes == (t1 :> k1 @@ t2 :> k2)

\* One of the two slips, t1's, is photographed, by both customers.
OneSlip   == (t1 :> {alice, brian} @@ t2 :> {})
=============================================================================
