------------------------- MODULE TicketLifecycle -------------------------
(***************************************************************************)
(* What the shop promises about one day's collection tickets, whoever      *)
(* presses which button: a ticket is printed once, goes ready at most      *)
(* once, and is closed at most once, by one named party.  The announcer    *)
(* calls a customer off the OPEN -> READY step, so "at most once" is what  *)
(* keeps a customer from being called twice.                               *)
(***************************************************************************)
CONSTANT Ticket

VARIABLES shop,     \* shop[t]: the state column of the shop's tickets table
          closedBy  \* closedBy[t]: collected_by, who handed the goods over

vars == <<shop, closedBy>>

Init ==
  /\ shop = [t \in Ticket |-> "absent"]
  /\ closedBy = [t \in Ticket |-> "nobody"]

Issue(t) ==
  /\ shop[t] = "absent"
  /\ shop' = [shop EXCEPT ![t] = "OPEN"]
  /\ UNCHANGED closedBy

GoReady(t) ==
  /\ shop[t] = "OPEN"
  /\ shop' = [shop EXCEPT ![t] = "READY"]
  /\ UNCHANGED closedBy

HandOver(t, who) ==
  /\ shop[t] \in {"OPEN", "READY"}
  /\ shop' = [shop EXCEPT ![t] = "COLLECTED"]
  /\ closedBy' = [closedBy EXCEPT ![t] = who]

Cancel(t) ==
  /\ shop[t] \in {"OPEN", "READY"}
  /\ shop' = [shop EXCEPT ![t] = "CANCELLED"]
  /\ UNCHANGED closedBy

Next ==
  \E t \in Ticket :
    \/ Issue(t)
    \/ GoReady(t)
    \/ \E who \in {"till", "web"} : HandOver(t, who)
    \/ Cancel(t)

Spec == Init /\ [][Next]_vars
=============================================================================
