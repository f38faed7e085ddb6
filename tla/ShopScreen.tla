----------------------------- MODULE ShopScreen -----------------------------
(***************************************************************************)
(* The screen customers watch while they wait.  A page on the wall asks the*)
(* server every few seconds for the day's ready numbers (display/page.tsx, *)
(* GET /display/state in routes/display.ts) and calls the new ones over the*)
(* speakers, one at a time.  It is left alone for weeks; the numbers on the*)
(* slips start again every morning.                                        *)
(***************************************************************************)
EXTENDS Integers, Sequences, SequencesExt

CONSTANTS
  Ticket,
  DayOf,     \* DayOf[t]: ticketDay
  CodeOf,    \* CodeOf[t]: the number on the slip, one of each a day
  Poll,      \* requests of the page in the air at once
  Cap,       \* numbers in one answer (12 in the code)
  LastDay,   \* bound: days
  MaxFault   \* bound: failed polls, reloads, tickets set back

ASSUME ScreenConstantsOK ==
  /\ LastDay \in Nat /\ MaxFault \in Nat /\ Cap \in Nat \ {0}
  /\ DayOf \in [Ticket -> 0..LastDay]
  /\ \A t, u \in Ticket : CodeOf[t] = CodeOf[u] /\ DayOf[t] = DayOf[u] => t = u

Silence == "silence"

VARIABLES
  today,
  state,      \* the server's copy of the tickets (CollectionTickets)
  readied,    \* the tickets that went ready, by readyAt
  poll,       \* poll[q]: a request, and the answer on its way
  loaded,     \* whether the page has had an answer yet (seen is not null)
  seen,       \* the page's seen: codes, of whatever day
  queue,      \* the page's queue, of the tickets its codes were read from
  shown,      \* the numbers on the screen
  announcing,
  calls,      \* history: the tickets called
  since,      \* history: calls made before this page was loaded
  seeded,     \* history: tickets on the first answer of this page
  faults

boardVars == <<today, state, readied>>
pageVars  == <<loaded, seen, queue, shown, seeded>>
callVars  == <<announcing, calls, since>>
vars == <<boardVars, poll, pageVars, callVars, faults>>

Code  == {CodeOf[t] : t \in Ticket}
Idle  == [at |-> "idle", list |-> <<>>]
Codes(S) == {CodeOf[t] : t \in S}

TypeOK ==
  /\ today \in 0..LastDay
  /\ state \in [Ticket -> {"absent", "OPEN", "READY", "COLLECTED"}]
  /\ readied \in Seq(Ticket) /\ IsInjective(readied)
  /\ \A q \in Poll : poll[q].at \in {"idle", "answered"} /\ poll[q].list \in Seq(Ticket)
  /\ loaded \in BOOLEAN /\ seen \subseteq Code
  /\ queue \in Seq(Ticket) /\ shown \in Seq(Ticket) /\ Len(shown) <= Cap
  /\ announcing \in Ticket \cup {Silence}
  /\ calls \in Seq(Ticket) /\ since \in 0..Len(calls)
  /\ seeded \subseteq Ticket
  /\ faults \in 0..MaxFault

Init ==
  /\ today = 0 /\ state = [t \in Ticket |-> "absent"] /\ readied = <<>>
  /\ poll = [q \in Poll |-> Idle]
  /\ loaded = FALSE /\ seen = {} /\ queue = <<>> /\ shown = <<>> /\ seeded = {}
  /\ announcing = Silence /\ calls = <<>> /\ since = 0
  /\ faults = 0

Fault == faults < MaxFault /\ faults' = faults + 1

-----------------------------------------------------------------------------
(* The server's board.                                                     *)

NextDay ==
  /\ today < LastDay
  /\ today' = today + 1
  /\ UNCHANGED <<state, readied, poll, pageVars, callVars, faults>>

Move(t, from, to) ==
  /\ DayOf[t] = today /\ state[t] \in from
  /\ state' = [state EXCEPT ![t] = to]
  /\ UNCHANGED <<today, poll, pageVars, callVars>>

Issue(t)   == Move(t, {"absent"}, "OPEN") /\ UNCHANGED <<readied, faults>>
GoReady(t) == Move(t, {"OPEN"}, "READY") /\ readied' = Append(readied, t) /\ UNCHANGED faults
Collect(t) == Move(t, {"OPEN", "READY"}, "COLLECTED") /\ UNCHANGED <<readied, faults>>

\* A push under way when READY was pressed sets the card back for a while.
SetBack(t) ==
  /\ Move(t, {"READY"}, "OPEN")
  /\ readied' = SelectSeq(readied, LAMBDA u : u # t) /\ Fault

OnBoard(t) == state[t] = "READY" /\ DayOf[t] = today

\* The newest of today's ready tickets, no more than the screen can show.
Board ==
  LET newest == Reverse(SelectSeq(readied, OnBoard))
  IN SubSeq(newest, 1, IF Len(newest) < Cap THEN Len(newest) ELSE Cap)

-----------------------------------------------------------------------------
(* The page.                                                               *)

\* GET /display/state, read for a poll of the page.  The interval does not wait for
\* the poll before, and answers take what time they take.
Ask(q) ==
  /\ poll[q].at = "idle"
  /\ poll' = [poll EXCEPT ![q] = [at |-> "answered", list |-> Board]]
  /\ UNCHANGED <<boardVars, pageVars, callVars, faults>>

\* The numbers of an answer the page has not seen yet, as the answer has them.
New(list) == SelectSeq(list, LAMBDA t : CodeOf[t] \notin seen)

\* The first answer only says what was ready before the page came up.
Arrive(q) ==
  LET list == poll[q].list IN
  /\ poll[q].at = "answered"
  /\ poll' = [poll EXCEPT ![q] = Idle]
  /\ shown' = list
  /\ loaded' = TRUE
  /\ seen' = seen \cup Codes(Range(list))
  /\ IF loaded
     THEN queue' = queue \o New(list) /\ UNCHANGED seeded
     ELSE seeded' = Range(list) /\ UNCHANGED queue
  /\ UNCHANGED <<boardVars, callVars, faults>>

\* Whatever is on the screen stays there.
PollFails(q) ==
  /\ poll[q].at # "idle" /\ Fault
  /\ poll' = [poll EXCEPT ![q] = Idle]
  /\ UNCHANGED <<boardVars, pageVars, callVars>>

\* Slip: the interval takes the next number whether or not one is being called.
mut_Announce ==
  /\ queue # <<>>
  /\ announcing' = Head(queue) /\ queue' = Tail(queue)
  /\ calls' = IF announcing = Silence THEN Append(calls, Head(queue)) ELSE calls
  /\ UNCHANGED <<boardVars, poll, loaded, seen, shown, seeded, since, faults>>

\* One announcement at a time.
Announce ==
  /\ announcing = Silence /\ queue # <<>>
  /\ announcing' = Head(queue) /\ queue' = Tail(queue)
  /\ calls' = Append(calls, Head(queue))
  /\ UNCHANGED <<boardVars, poll, loaded, seen, shown, seeded, since, faults>>

\* Nine seconds later.
FallSilent ==
  /\ announcing # Silence
  /\ announcing' = Silence
  /\ UNCHANGED <<boardVars, poll, pageVars, calls, since, faults>>

\* A power cut or a browser that restarts: the page begins again.
Reload ==
  /\ loaded /\ Fault
  /\ poll' = [q \in Poll |-> Idle]
  /\ loaded' = FALSE /\ seen' = {} /\ queue' = <<>> /\ shown' = <<>> /\ seeded' = {}
  /\ announcing' = Silence /\ since' = Len(calls)
  /\ UNCHANGED <<boardVars, calls>>

-----------------------------------------------------------------------------
PollStep(q) == Ask(q) \/ Arrive(q)

Next ==
  \/ NextDay \/ Announce \/ FallSilent \/ Reload
  \/ \E t \in Ticket : Issue(t) \/ GoReady(t) \/ Collect(t) \/ SetBack(t)
  \/ \E q \in Poll : PollStep(q) \/ PollFails(q)

Spec == Init /\ [][Next]_vars

\* The timers of the page go on, and the server answers.
FairSpec ==
  /\ Spec
  /\ WF_vars(Announce) /\ WF_vars(FallSilent)
  /\ \A q \in Poll : WF_vars(PollStep(q))

-----------------------------------------------------------------------------
Called == Range(SubSeq(calls, since + 1, Len(calls)))

\* A number that stays on the board of a page that stays up is called, unless it
\* was there when the page came up or this page has used that number before,
\* for another day's ticket.
ReadyIsCalled ==
  \A t \in Ticket :
    <>[](loaded /\ t \in Range(Board)) => <>(CodeOf[t] \in Codes(seeded \cup Called))
=============================================================================
