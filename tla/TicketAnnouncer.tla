------------------------- MODULE TicketAnnouncer -------------------------
(***************************************************************************)
(* The announcer on the shop's laptop (bridge/tickets/announcer.js) and    *)
(* the scans it collects from the server (apps/back/src/routes/tickets.ts, *)
(* webhook, /links and /links/claim).                                      *)
(*                                                                         *)
(* A customer scans the code on a slip; the webhook parks the scan as a    *)
(* TicketLink; one timer of the announcer (poll) attaches the chat to the  *)
(* ticket and claims the scan; the other (beat) calls out tickets that     *)
(* went ready and messages whoever follows them.  The timers interleave at *)
(* every await and share one database connection.                          *)
(***************************************************************************)
EXTENDS Naturals, Sequences, FiniteSets

CONSTANTS
  Ticket,     \* tickets of several days
  Code,       \* what is printed on a slip: codes start over every day
  Day,        \* Day[t]: the trading day of t
  CodeOf,     \* CodeOf[t]: the code printed on t's slip
  Chat,       \* Telegram chats
  Nobody,
  Phones,     \* Phones[t]: the chats of the people who hold t's slip
  CallLimit,  \* tickets called per pass (5 in the code)
  TellLimit,  \* tickets messaged per pass (10 in the code)
  LinkLimit,  \* scans collected per pass (50 in the code)
  LastDay,    \* bound: the last trading day of a behaviour
  MaxScan,    \* bound: scans ever made
  MaxFault    \* bound: lost connections, messages and answers, and kills

ASSUME ConstantsOK ==
  /\ Day \in [Ticket -> Nat]
  /\ CodeOf \in [Ticket -> Code]
  /\ \A t, u \in Ticket : Day[t] = Day[u] /\ CodeOf[t] = CodeOf[u] => t = u
  /\ Nobody \notin Chat
  /\ Phones \in [Ticket -> SUBSET Chat]
  /\ {CallLimit, TellLimit, LinkLimit} \subseteq Nat \ {0}
  /\ {LastDay, MaxScan, MaxFault} \subseteq Nat

VARIABLES
  today,
  shop,      \* shop[t]: the ticket's state; CLOSED is collected or cancelled
  follower,  \* follower[t]: tg_chat_id
  called,    \* called[t]: announced_at is set
  told,      \* told[t]: notified_at is set
  links,     \* the TicketLink rows, oldest first
  beat,      \* where the beat timer stands
  poll,      \* where the poll timer stands
  calls,     \* calls[t]: times t was called out loud
  heard,     \* heard[t]: times a chat was told that t's goods are ready
  applied,   \* the links linkChat has returned from
  faults

stamps == <<follower, called, told>>
history == <<calls, heard, applied>>
vars == <<today, shop, stamps, links, beat, poll, history, faults>>

-----------------------------------------------------------------------------
State == {"absent", "OPEN", "READY", "CLOSED"}

\* slip is the ticket scanned; the row itself holds no more of it than its code.
Link  == [slip : Ticket, chat : Chat, claimed : BOOLEAN]
CodeIn(i) == CodeOf[links[i].slip]

Asleep  == [at |-> "sleep"]

BeatState ==
  {Asleep} \cup [at : {"calling"}, rows : (SUBSET Ticket) \ {{}}]
           \cup [at : {"spoken"}, rows : SUBSET Ticket, now : Ticket]
           \cup [at : {"messaging"}]
           \cup [at : {"writing"}, rows : SUBSET (Ticket \X Chat)]
           \cup [at : {"sent"}, rows : SUBSET (Ticket \X Chat), now : Ticket]

\* batch holds the scans fetched and not finished with, done the ones to claim,
\* and row the ticket the current scan was found to be of.
PollState ==
  {Asleep} \cup [at   : {"linking", "found", "answering", "answered"},
                  batch : SUBSET (1..Len(links)), done : SUBSET (1..Len(links)),
                  row  : SUBSET Ticket, ready : BOOLEAN]
            \cup [at : {"claiming"}, done : SUBSET (1..Len(links))]

TypeOK ==
  /\ today \in 0..LastDay
  /\ shop \in [Ticket -> State]
  /\ follower \in [Ticket -> Chat \cup {Nobody}]
  /\ called \in [Ticket -> BOOLEAN] /\ told \in [Ticket -> BOOLEAN]
  /\ links \in Seq(Link)
  /\ beat \in BeatState
  /\ poll \in PollState
  /\ calls \in [Ticket -> Nat] /\ heard \in [Ticket -> Nat]
  /\ applied \subseteq 1..Len(links)
  /\ faults \in 0..MaxFault

Init ==
  /\ today = 0
  /\ shop = [t \in Ticket |-> "absent"]
  /\ follower = [t \in Ticket |-> Nobody]
  /\ called = [t \in Ticket |-> FALSE] /\ told = [t \in Ticket |-> FALSE]
  /\ links = <<>>
  /\ beat = Asleep
  /\ poll = Asleep
  /\ calls = [t \in Ticket |-> 0] /\ heard = [t \in Ticket |-> 0]
  /\ applied = {}
  /\ faults = 0

Fault == faults < MaxFault /\ faults' = faults + 1

-----------------------------------------------------------------------------
(* The shop, as TicketLifecycle lets it be, and its customers.             *)

Life == {<<"absent", "OPEN">>, <<"OPEN", "READY">>, <<"OPEN", "CLOSED">>, <<"READY", "CLOSED">>}

ShopStep(t) ==
  /\ \E st \in State : /\ <<shop[t], st>> \in Life
                       /\ st = "OPEN" => Day[t] = today
                       /\ shop' = [shop EXCEPT ![t] = st]
  /\ UNCHANGED <<today, stamps, links, beat, poll, history, faults>>

NextDay ==
  /\ today < LastDay
  /\ today' = today + 1
  /\ UNCHANGED <<shop, stamps, links, beat, poll, history, faults>>

\* The webhook, handleTicketStart: one more row, whatever became of the ticket.
\* Telegram delivers an update again when it is not answered, which looks the
\* same as a second scan.
Scan(t, c) ==
  /\ Len(links) < MaxScan
  /\ shop[t] # "absent" /\ c \in Phones[t]
  /\ links' = Append(links, [slip |-> t, chat |-> c, claimed |-> FALSE])
  /\ UNCHANGED <<today, shop, stamps, beat, poll, history, faults>>

-----------------------------------------------------------------------------
(* The beat timer: announce, then notify.  ORDER BY ready_at is left open:  *)
(* a pass takes any of the rows that fit.                                   *)

UpTo(limit, S) ==
  {R \in SUBSET S : Cardinality(R) = limit \/ (R = S /\ Cardinality(R) < limit)}

\* Slip: only the tickets somebody follows on a phone.
mut_ToCall == {t \in Ticket : /\ shop[t] = "READY" /\ ~called[t] /\ Day[t] = today
                              /\ follower[t] # Nobody}

ToCall == {t \in Ticket : shop[t] = "READY" /\ ~called[t] /\ Day[t] = today}
ToTell == {t \in Ticket : /\ shop[t] = "READY" /\ ~told[t] /\ Day[t] = today
                          /\ follower[t] # Nobody}

Calling(rows) == IF rows = {} THEN [at |-> "messaging"] ELSE [at |-> "calling", rows |-> rows]
Writing(rows) == IF rows = {} THEN Asleep ELSE [at |-> "writing", rows |-> rows]

SelectReady ==
  /\ beat.at = "sleep"
  /\ \E rows \in UpTo(CallLimit, ToCall) : beat' = Calling(rows)
  /\ UNCHANGED <<today, shop, stamps, links, poll, history, faults>>

Say(t) ==
  /\ beat.at = "calling" /\ t \in beat.rows
  /\ calls' = [calls EXCEPT ![t] = @ + 1]
  /\ beat' = [at |-> "spoken", rows |-> beat.rows, now |-> t]
  /\ UNCHANGED <<today, shop, stamps, links, poll, heard, applied, faults>>

\* say() resolves either way, and its result is not looked at.
SayFails(t) ==
  /\ Fault
  /\ beat.at = "calling" /\ t \in beat.rows
  /\ beat' = [at |-> "spoken", rows |-> beat.rows, now |-> t]
  /\ UNCHANGED <<today, shop, stamps, links, poll, history>>

\* Slip: the stamp is left to the notify pass.
mut_StampCalled ==
  /\ beat.at = "spoken"
  /\ beat' = Calling(beat.rows \ {beat.now})
  /\ UNCHANGED <<today, shop, stamps, links, poll, history, faults>>

StampCalled ==
  /\ beat.at = "spoken"
  /\ called' = [called EXCEPT ![beat.now] = TRUE]
  /\ beat' = Calling(beat.rows \ {beat.now})
  /\ UNCHANGED <<today, shop, follower, told, links, poll, history, faults>>

SelectFollowed ==
  /\ beat.at = "messaging"
  /\ \E rows \in UpTo(TellLimit, ToTell) : beat' = Writing({<<t, follower[t]>> : t \in rows})
  /\ UNCHANGED <<today, shop, stamps, links, poll, history, faults>>

Send(r) ==
  /\ beat.at = "writing" /\ r \in beat.rows
  /\ heard' = [heard EXCEPT ![r[1]] = @ + 1]
  /\ beat' = [at |-> "sent", rows |-> beat.rows \ {r}, now |-> r[1]]
  /\ UNCHANGED <<today, shop, stamps, links, poll, calls, applied, faults>>

\* The catch stamps the row all the same and never tries the server instead.
SendFails(r) ==
  /\ Fault
  /\ beat.at = "writing" /\ r \in beat.rows
  /\ beat' = [at |-> "sent", rows |-> beat.rows \ {r}, now |-> r[1]]
  /\ UNCHANGED <<today, shop, stamps, links, poll, history>>

StampTold ==
  /\ beat.at = "sent"
  /\ told' = [told EXCEPT ![beat.now] = TRUE]
  /\ beat' = Writing(beat.rows)
  /\ UNCHANGED <<today, shop, follower, called, links, poll, history, faults>>

BeatStep ==
  \/ SelectReady \/ StampCalled \/ SelectFollowed \/ StampTold
  \/ \E t \in Ticket : Say(t)
  \/ \E r \in Ticket \X Chat : Send(r)

-----------------------------------------------------------------------------
(* The poll timer: link.                                                   *)

Unclaimed == {i \in 1..Len(links) : ~links[i].claimed}
OldestUnclaimed == {i \in Unclaimed : Cardinality({j \in Unclaimed : j < i}) < LinkLimit}

\* ticket_day = curdate() and ticket_code = ?, asked anew by every statement.
Today(code) == {t \in Ticket : shop[t] # "absent" /\ Day[t] = today /\ CodeOf[t] = code}

\* After the last scan the ones that went through are claimed, if there are any.
Linking(batch, done) ==
  IF batch # {} THEN [at |-> "linking", batch |-> batch, done |-> done,
                      row |-> {}, ready |-> FALSE]
  ELSE IF done # {} THEN [at |-> "claiming", done |-> done] ELSE Asleep

FetchLinks ==
  /\ poll.at = "sleep"
  /\ poll' = Linking(OldestUnclaimed, {})
  /\ UNCHANGED <<today, shop, stamps, links, beat, history, faults>>

Current(i) == i \in poll.batch /\ \A j \in poll.batch : i <= j

\* linkChat returns: on to the next scan.
Return(i) ==
  /\ applied' = applied \cup {i}
  /\ poll' = Linking(poll.batch \ {i}, poll.done \cup {i})

\* Slip: the check for another phone is dropped.
mut_Refused(row, c) == row = {}

\* The scans answered with a word to the customer and nothing else: no such
\* ticket waiting today, or another phone follows it.
Refused(row, c) == \A t \in row : follower[t] \notin {Nobody, c}

FindTicket(i) ==
  /\ poll.at = "linking" /\ Current(i)
  /\ LET row == {t \in Today(CodeIn(i)) : shop[t] \in {"OPEN", "READY"}}
     IN \/ Refused(row, links[i].chat) /\ Return(i)
        \/ /\ ~Refused(row, links[i].chat)
           /\ poll' = [poll EXCEPT !.at = "found", !.row = row,
                                   !.ready = \E t \in row : shop[t] = "READY"]
           /\ UNCHANGED applied
  /\ UNCHANGED <<today, shop, stamps, links, beat, calls, heard, faults>>

\* UPDATE tickets SET tg_chat_id: no condition on the state or on the follower.
Attached(i) ==
  [t \in Ticket |-> IF t \in Today(CodeIn(i)) THEN links[i].chat ELSE follower[t]]

\* Slip: the notified stamp is set together with the chat.
mut_Attach(i) ==
  /\ poll.at = "found" /\ Current(i)
  /\ follower' = Attached(i)
  /\ told' = [t \in Ticket |-> told[t] \/ t \in Today(CodeIn(i))]
  /\ IF poll.ready THEN poll' = [poll EXCEPT !.at = "answering"] /\ UNCHANGED applied
                   ELSE Return(i)
  /\ UNCHANGED <<today, shop, called, links, beat, calls, heard, faults>>

Attach(i) ==
  /\ poll.at = "found" /\ Current(i)
  /\ follower' = Attached(i)
  /\ IF poll.ready THEN poll' = [poll EXCEPT !.at = "answering"] /\ UNCHANGED applied
                   ELSE Return(i)
  /\ UNCHANGED <<today, shop, called, told, links, beat, calls, heard, faults>>

\* "Your goods are ready now".
Answer ==
  /\ poll.at = "answering"
  /\ heard' = [t \in Ticket |-> IF t \in poll.row THEN heard[t] + 1 ELSE heard[t]]
  /\ poll' = [poll EXCEPT !.at = "answered"]
  /\ UNCHANGED <<today, shop, stamps, links, beat, calls, applied, faults>>

\* reply() swallows its errors.
AnswerFails ==
  /\ Fault
  /\ poll.at = "answering"
  /\ poll' = [poll EXCEPT !.at = "answered"]
  /\ UNCHANGED <<today, shop, stamps, links, beat, history>>

Answered(i) == [t \in Ticket |-> told[t] \/ t \in Today(CodeIn(i))]

StampAnswered(i) ==
  /\ poll.at = "answered" /\ Current(i)
  /\ told' = Answered(i)
  /\ Return(i)
  /\ UNCHANGED <<today, shop, follower, called, links, beat, calls, heard, faults>>

\* POST /tickets/links/claim.
Claimed(done) ==
  [i \in 1..Len(links) |-> IF i \in done THEN [links[i] EXCEPT !.claimed = TRUE] ELSE links[i]]

Claim ==
  /\ poll.at = "claiming"
  /\ links' = Claimed(poll.done)
  /\ poll' = Asleep
  /\ UNCHANGED <<today, shop, stamps, beat, history, faults>>

\* No answer; the rows may have been claimed.
ClaimFails ==
  /\ Fault
  /\ poll.at = "claiming"
  /\ links' \in {links, Claimed(poll.done)}
  /\ poll' = Asleep
  /\ UNCHANGED <<today, shop, stamps, beat, history>>

PollStep ==
  \/ FetchLinks \/ Answer \/ Claim
  \/ \E i \in 1..Len(links) : FindTicket(i) \/ Attach(i) \/ StampAnswered(i)

-----------------------------------------------------------------------------
\* The connection is lost under either timer.  A pass of beat ends; the scans
\* that find no connection are left unclaimed: the current one and those after
\* it, until beat reconnects.  The UPDATE in flight may have landed.
BeatLost == beat.at # "sleep" /\ beat' = Asleep

LostRun(lost) ==
  /\ \E i \in lost : Current(i)
  /\ \A i \in lost, j \in poll.batch : j < i => j \in lost

ScansLost ==
  /\ poll.at \in {"linking", "found", "answered"}
  /\ \E lost \in SUBSET poll.batch :
       LostRun(lost) /\ poll' = Linking(poll.batch \ lost, poll.done)

Landed(i) ==
  \/ poll.at = "found" /\ follower' = Attached(i) /\ UNCHANGED told
  \/ poll.at = "answered" /\ told' = Answered(i) /\ UNCHANGED follower

ConnectionLost ==
  /\ Fault
  /\ \/ BeatLost /\ UNCHANGED <<poll, follower, told>>
     \/ /\ BeatLost \/ UNCHANGED beat
        /\ ScansLost
        /\ \/ UNCHANGED <<follower, told>>
           \/ \E i \in poll.batch : Current(i) /\ Landed(i)
  /\ UNCHANGED <<today, shop, called, links, history>>

Killed ==
  /\ Fault
  /\ beat.at # "sleep" \/ poll.at # "sleep"
  /\ beat' = Asleep /\ poll' = Asleep
  /\ UNCHANGED <<today, shop, stamps, links, history>>

Faults ==
  \/ AnswerFails \/ ClaimFails \/ ConnectionLost \/ Killed
  \/ \E t \in Ticket : SayFails(t)
  \/ \E r \in Ticket \X Chat : SendFails(r)

-----------------------------------------------------------------------------
Next ==
  \/ NextDay
  \/ \E t \in Ticket : ShopStep(t) \/ \E c \in Chat : Scan(t, c)
  \/ BeatStep
  \/ PollStep
  \/ Faults

Spec == Init /\ [][Next]_vars

\* Each timer sets itself again when its pass is over, whatever came of it.
FairSpec == Spec /\ WF_vars(BeatStep) /\ WF_vars(PollStep)

-----------------------------------------------------------------------------
\* A customer is called at most once, and once more for each time the announcer
\* was interrupted between the call and the stamp ("the number is called again
\* on restart"); never for a ticket that was not ready.
CalledOncePerFault ==
  \A t \in Ticket : /\ calls[t] <= 1 + faults
                    /\ calls[t] > 0 => shop[t] \in {"READY", "CLOSED"}

\* A ticket once followed on a phone is never handed to another, not even by an
\* attach that straddles midnight and lands on the next day's ticket.
FollowerKept ==
  [][\A t \in Ticket : follower[t] # Nobody => follower'[t] = follower[t]]_vars

\* "They are claimed only after being applied": a scan is off the server's list
\* only when the announcer got through with it.
ClaimedWasApplied ==
  \A i \in 1..Len(links) : links[i].claimed => i \in applied

\* The inductive strengthening of the three.  Nothing is issued before its day,
\* and nobody follows what was not issued; the chat about to be attached is in
\* dispute on no ticket of its code from today on, so that midnight cannot make
\* it replace another; what is on its way to be called is not stamped, and a call
\* too many stands between Say and its stamp; what is to be claimed was applied.
ShopInv  == \A t \in Ticket : /\ shop[t] # "absent" => Day[t] <= today
                              /\ follower[t] # Nobody => shop[t] # "absent"
FoundInv == poll.at = "found" =>
              \A i \in poll.batch, t \in Ticket :
                Current(i) /\ CodeOf[t] = CodeIn(i) /\ Day[t] >= today
                  => follower[t] \in {Nobody, links[i].chat}
BeatInv  == beat.at \in {"calling", "spoken"} =>
              \A t \in beat.rows : ~called[t] /\ shop[t] \in {"READY", "CLOSED"}
CallsInv == \A t \in Ticket :
              /\ calls[t] <= 1 + faults
              /\ calls[t] > faults => called[t] \/ (beat.at = "spoken" /\ beat.now = t)
              /\ calls[t] > 0 => shop[t] \in {"READY", "CLOSED"}
ClaimInv == /\ poll.at # "sleep" => poll.done \subseteq applied
            /\ \A i \in 1..Len(links) : links[i].claimed => i \in applied
AnnouncerInv == ShopInv /\ FoundInv /\ BeatInv /\ CallsInv /\ ClaimInv

Waiting(t) == shop[t] = "READY" /\ Day[t] = today

\* A ready ticket is called out and stamped before the day is over, unless it is
\* collected first, through kills and lost connections; only a fault can make
\* the stamp stand for a call nobody heard.
ReadyIsCalled ==
  \A t \in Ticket :
    Waiting(t) ~> (called[t] /\ (calls[t] > 0 \/ faults > 0)) \/ ~Waiting(t)

\* "I will message you the moment your goods are ready" (the webhook's answer to
\* a scan): whoever scans before or after the goods are ready is told, however
\* the two timers cross and whatever is interrupted.
ScannerHears ==
  \A t \in Ticket :
    (Waiting(t) /\ (follower[t] # Nobody \/ \E i \in Unclaimed : links[i].slip = t))
      ~> (told[t] /\ (heard[t] > 0 \/ faults > 0)) \/ ~Waiting(t)
=============================================================================
