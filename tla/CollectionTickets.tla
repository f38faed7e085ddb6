------------------------ MODULE CollectionTickets ------------------------
(***************************************************************************)
(* Collection tickets between the shop and the web.                        *)
(*                                                                         *)
(* The shop's MySQL holds the tickets (shop).  Postgres holds a copy for   *)
(* the web board (board) and a queue of presses made on the web (queue,    *)
(* the PendingChange table).  A sync agent beside the shop's database      *)
(* pushes the tickets up (POST /tickets/sync) and then applies the queued  *)
(* presses to MySQL (bridge/pusher.js, run).  Requests are handled by      *)
(* asynchronous handlers that interleave at every await; answers get lost, *)
(* requests outlive the client's timeout, and either process may die.      *)
(***************************************************************************)
EXTENDS Naturals, Sequences, FiniteSets

CONSTANTS
  Ticket,       \* tickets, named by (ticketDay, ticketCode)
  IssueDay,     \* IssueDay[t]: the trading day of ticket t
  Staff,        \* concurrent requests to /ready and /collect
  Agent,        \* sync agents polling the queue
  Stale,        \* the agents that start too old to know the ticket change types
  Call,         \* concurrent requests to /tickets/sync
  NoCall,
  Batch,        \* tickets per push request (150 in the code)
  Window,       \* changes handed out per poll (50 in the code)
  CatchUpDays,  \* how far back the catch-up push looks (3 in the code)
  LastDay,      \* bound: the last trading day of a behaviour
  MaxChange,    \* bound: changes ever queued
  MaxFault      \* bound: lost messages, failed statements and crashes

ASSUME ConstantsOK ==
  /\ IssueDay \in [Ticket -> Nat]
  /\ Stale \subseteq Agent
  /\ NoCall \notin Call
  /\ Batch \in Nat \ {0} /\ Window \in Nat \ {0}
  /\ {CatchUpDays, LastDay, MaxChange, MaxFault} \subseteq Nat

VARIABLES
  today,     \* the shop's trading day
  shop,      \* shop[t]: MySQL tickets.state, "absent" before it is printed
  closedBy,  \* closedBy[t]: MySQL tickets.collected_by
  board,     \* board[t]: Postgres Ticket.state, "absent" before the first push
  queue,     \* the PendingChange rows, oldest first
  desk,      \* desk[s]: where a /ready or /collect handler stands
  call,      \* call[c]: where a /tickets/sync handler stands
  pc,        \* pc[a]: where an agent stands in its cycle
  snap,      \* snap[a]: the states it selected from MySQL
  rest,      \* rest[a]: the selected tickets it has not sent yet
  on,        \* on[a]: the request whose answer it awaits
  todo,      \* todo[a]: the fetched changes it has not finished with
  faults

shopVars  == <<shop, closedBy>>
webVars   == <<board, queue, desk>>
agentVars == <<pc, snap, rest, on, todo>>
vars == <<today, shopVars, webVars, call, agentVars, faults>>

-----------------------------------------------------------------------------
State  == {"absent", "OPEN", "READY", "COLLECTED", "CANCELLED"}
Kind   == {"ticket_ready", "ticket_collected"}
Change == [ticket : Ticket, kind : Kind, status : {"pending", "applied", "failed"}]
Press  == [ticket : Ticket, kind : Kind]

\* Definitions whose name has a mut_ prefix are plausible slips of the definition
\* they precede; nothing uses them but the mutation runs named in PROJECT.json.

\* The state a press asks for, and the states MySQL accepts it from.
Target(k) == IF k = "ticket_ready" THEN "READY" ELSE "COLLECTED"

\* Slip: the WHERE clause of the ready UPDATE loses its guard on the state.
mut_From(k) == {"OPEN", "READY", "COLLECTED"}
From(k) == IF k = "ticket_ready" THEN {"OPEN"} ELSE {"OPEN", "READY"}

\* The states in which the web refuses a press as already done.
Answered(k) == IF k = "ticket_ready" THEN State \ {"OPEN"} ELSE {"COLLECTED"}

Pending == {i \in 1..Len(queue) : queue[i].status = "pending"}

Held    == {queue[i].ticket : i \in Pending}
Oldest  == {i \in Pending : Cardinality({j \in Pending : j < i}) < Window}

NothingRead == [t \in Ticket |-> "absent"]
FreeCall    == [at |-> "free", rows |-> NothingRead, held |-> {}, left |-> {}]
Idle        == [at |-> "idle"]

CallRecord == [at   : {"free", "received", "writing"},
               rows : [Ticket -> State],
               held : SUBSET Ticket,
               left : SUBSET Ticket]
Where == {"idle", "pushing", "waiting", "fetching", "applying", "landed", "errored", "refusing"}

TypeOK ==
  /\ today \in 0..LastDay
  /\ shop \in [Ticket -> State]
  /\ closedBy \in [Ticket -> {"nobody", "till", "web"}]
  /\ board \in [Ticket -> State]
  /\ queue \in Seq(Change)
  /\ desk \in [Staff -> {Idle} \cup [at : {"found", "queued"}, press : Press]]
  /\ call \in [Call -> CallRecord]
  /\ pc \in [Agent -> Where]
  /\ snap \in [Agent -> [Ticket -> State]]
  /\ rest \in [Agent -> SUBSET Ticket]
  /\ on \in [Agent -> Call \cup {NoCall}]
  /\ todo \in [Agent -> SUBSET (1..Len(queue))]
  /\ faults \in 0..MaxFault

Init ==
  /\ today = 0
  /\ shop = NothingRead
  /\ closedBy = [t \in Ticket |-> "nobody"]
  /\ board = NothingRead
  /\ queue = <<>>
  /\ desk = [s \in Staff |-> Idle]
  /\ call = [c \in Call |-> FreeCall]
  /\ pc = [a \in Agent |-> "idle"]
  /\ snap = [a \in Agent |-> NothingRead]
  /\ rest = [a \in Agent |-> {}]
  /\ on = [a \in Agent |-> NoCall]
  /\ todo = [a \in Agent |-> {}]
  /\ faults = 0

Fault == faults < MaxFault /\ faults' = faults + 1

-----------------------------------------------------------------------------
(* The tills (FumasV5, outside src/).                                      *)

TillIssue(t) ==
  /\ shop[t] = "absent" /\ IssueDay[t] = today
  /\ shop' = [shop EXCEPT ![t] = "OPEN"]
  /\ UNCHANGED <<today, closedBy, webVars, call, agentVars, faults>>

TillReady(t) ==
  /\ shop[t] = "OPEN"
  /\ shop' = [shop EXCEPT ![t] = "READY"]
  /\ UNCHANGED <<today, closedBy, webVars, call, agentVars, faults>>

TillCollect(t) ==
  /\ shop[t] \in {"OPEN", "READY"}
  /\ shop' = [shop EXCEPT ![t] = "COLLECTED"]
  /\ closedBy' = [closedBy EXCEPT ![t] = "till"]
  /\ UNCHANGED <<today, webVars, call, agentVars, faults>>

TillCancel(t) ==
  /\ shop[t] \in {"OPEN", "READY"}
  /\ shop' = [shop EXCEPT ![t] = "CANCELLED"]
  /\ UNCHANGED <<today, closedBy, webVars, call, agentVars, faults>>

NextDay ==
  /\ today < LastDay
  /\ today' = today + 1
  /\ UNCHANGED <<shopVars, webVars, call, agentVars, faults>>

-----------------------------------------------------------------------------
(* The web handlers POST /tickets/ready and /tickets/collect.  Each reads  *)
(* the copy, queues the change, then moves the copy: three awaits, no      *)
(* transaction.                                                            *)

InFlight == {s \in Staff : desk[s].at = "found"}

FindTicket(s, t, k) ==
  /\ desk[s].at = "idle"
  /\ Len(queue) + Cardinality(InFlight) < MaxChange
  /\ board[t] # "absent"
  /\ board[t] \notin Answered(k)
  /\ desk' = [desk EXCEPT ![s] = [at |-> "found", press |-> [ticket |-> t, kind |-> k]]]
  /\ UNCHANGED <<today, shopVars, board, queue, call, agentVars, faults>>

QueueChange(s) ==
  /\ desk[s].at = "found"
  /\ queue' = Append(queue, [ticket |-> desk[s].press.ticket,
                             kind   |-> desk[s].press.kind,
                             status |-> "pending"])
  /\ desk' = [desk EXCEPT ![s].at = "queued"]
  /\ UNCHANGED <<today, shopVars, board, call, agentVars, faults>>

\* Slip: the card is moved before the change is queued, and the request fails.
mut_MoveCard(s) ==
  /\ desk[s].at # "idle"
  /\ board' = [board EXCEPT ![desk[s].press.ticket] = Target(desk[s].press.kind)]
  /\ desk' = [desk EXCEPT ![s] = Idle]
  /\ UNCHANGED <<today, shopVars, queue, call, agentVars, faults>>

MoveCard(s) ==
  /\ desk[s].at = "queued"
  /\ board' = [board EXCEPT ![desk[s].press.ticket] = Target(desk[s].press.kind)]
  /\ desk' = [desk EXCEPT ![s] = Idle]
  /\ UNCHANGED <<today, shopVars, queue, call, agentVars, faults>>

\* A database error or a restart between two of the awaits.
DeskDies(s) ==
  /\ Fault
  /\ desk[s].at # "idle"
  /\ desk' = [desk EXCEPT ![s] = Idle]
  /\ UNCHANGED <<today, shopVars, board, queue, call, agentVars>>

DeskStep(s) == QueueChange(s) \/ MoveCard(s)

-----------------------------------------------------------------------------
(* The web handler POST /tickets/sync.  It reads which tickets have a      *)
(* change pending once, then upserts its rows one by one.                  *)

ReadHeld(c) ==
  /\ call[c].at = "received"
  /\ call' = [call EXCEPT ![c].at = "writing", ![c].held = Held]
  /\ UNCHANGED <<today, shopVars, webVars, agentVars, faults>>

\* Slip: the held set is consulted for tickets marked ready only.
mut_Upserted(c, t) ==
  IF board[t] = "READY" /\ t \in call[c].held THEN board[t] ELSE call[c].rows[t]

Upserted(c, t) ==
  IF board[t] # "absent" /\ t \in call[c].held THEN board[t] ELSE call[c].rows[t]

UpsertRow(c, t) ==
  /\ call[c].at = "writing"
  /\ t \in call[c].left
  /\ board' = [board EXCEPT ![t] = Upserted(c, t)]
  /\ call' = [call EXCEPT ![c].left = @ \ {t}]
  /\ UNCHANGED <<today, shopVars, queue, desk, agentVars, faults>>

\* The agent awaiting this answer goes on to its next slice or to the queue.
Awaiting(c) == {a \in Agent : pc[a] = "waiting" /\ on[a] = c}

AfterSlice(c, more) ==
  /\ pc' = [a \in Agent |-> IF a \in more THEN "pushing"
                            ELSE IF a \in Awaiting(c) THEN "fetching" ELSE pc[a]]
  /\ on' = [a \in Agent |-> IF on[a] = c THEN NoCall ELSE on[a]]
  /\ snap' = [a \in Agent |-> IF a \in Awaiting(c) \ more THEN NothingRead ELSE snap[a]]
  /\ rest' = [a \in Agent |-> IF a \in Awaiting(c) \ more THEN {} ELSE rest[a]]

AnswerPush(c) ==
  /\ call[c].at = "writing"
  /\ call[c].left = {}
  /\ call' = [call EXCEPT ![c] = FreeCall]
  /\ AfterSlice(c, {a \in Awaiting(c) : rest[a] # {}})
  /\ UNCHANGED <<today, shopVars, webVars, todo, faults>>

\* The handler throws or the server restarts: the rows written stay written.
CallDies(c) ==
  /\ Fault
  /\ call[c].at # "free"
  /\ call' = [call EXCEPT ![c] = FreeCall]
  /\ AfterSlice(c, {})
  /\ UNCHANGED <<today, shopVars, webVars, todo>>

CallStep(c) == ReadHeld(c) \/ AnswerPush(c) \/ \E t \in Ticket : UpsertRow(c, t)

-----------------------------------------------------------------------------
(* The agent's push, pushTickets(conn, backDays): one SELECT, then the     *)
(* rows in slices, giving up at the first slice that is not answered 200.  *)

\* Slip: every push looks at today only, the catch-up as well.
mut_Selected(back) == {t \in Ticket : shop[t] # "absent" /\ IssueDay[t] >= today}

Selected(back) == {t \in Ticket : shop[t] # "absent" /\ IssueDay[t] + back >= today}

SelectTickets(a, back) ==
  /\ pc[a] = "idle"
  /\ snap' = [snap EXCEPT ![a] = [t \in Ticket |-> IF t \in Selected(back) THEN shop[t]
                                                                           ELSE "absent"]]
  /\ rest' = [rest EXCEPT ![a] = Selected(back)]
  /\ pc' = [pc EXCEPT ![a] = IF Selected(back) = {} THEN "fetching" ELSE "pushing"]
  /\ UNCHANGED <<today, shopVars, webVars, call, on, todo, faults>>

\* Slip: the push is not awaited before the queue is fetched.
mut_SendSlice(a, c) ==
  /\ pc[a] = "pushing"
  /\ call[c].at = "free"
  /\ call' = [call EXCEPT ![c] = [at |-> "received", rows |-> snap[a],
                                  held |-> {}, left |-> rest[a]]]
  /\ pc' = [pc EXCEPT ![a] = "fetching"]
  /\ snap' = [snap EXCEPT ![a] = NothingRead]
  /\ rest' = [rest EXCEPT ![a] = {}]
  /\ UNCHANGED <<today, shopVars, webVars, on, todo, faults>>

SendSlice(a, c) ==
  /\ pc[a] = "pushing"
  /\ call[c].at = "free"
  /\ \E slice \in SUBSET rest[a] :
       /\ \/ Cardinality(slice) = Batch
          \/ slice = rest[a] /\ Cardinality(slice) < Batch
       /\ call' = [call EXCEPT ![c] = [at |-> "received", rows |-> snap[a],
                                       held |-> {}, left |-> slice]]
       /\ rest' = [rest EXCEPT ![a] = @ \ slice]
  /\ pc' = [pc EXCEPT ![a] = "waiting"]
  /\ on' = [on EXCEPT ![a] = c]
  /\ UNCHANGED <<today, shopVars, webVars, snap, todo, faults>>

\* The request never arrives, or its answer is late: the agent moves on, and
\* a request that did arrive is still being worked through.
PushFails(a) ==
  /\ Fault
  /\ pc[a] \in {"pushing", "waiting"}
  /\ pc' = [pc EXCEPT ![a] = "fetching"]
  /\ snap' = [snap EXCEPT ![a] = NothingRead]
  /\ rest' = [rest EXCEPT ![a] = {}]
  /\ on' = [on EXCEPT ![a] = NoCall]
  /\ UNCHANGED <<today, shopVars, webVars, call, todo>>

-----------------------------------------------------------------------------
(* The agent's write-back, applyPendingChanges(conn, token): fetch the     *)
(* oldest pending changes, then for each one run the UPDATE and report.    *)
(* It runs after every push, and again on its own when somebody asks for a *)
(* refresh.                                                                *)

FetchChanges(a) ==
  /\ pc[a] \in {"idle", "fetching"}
  /\ todo' = [todo EXCEPT ![a] = Oldest]
  /\ pc' = [pc EXCEPT ![a] = IF Oldest = {} THEN "idle" ELSE "applying"]
  /\ UNCHANGED <<today, shopVars, webVars, call, snap, rest, on, faults>>

\* The loop body works on the oldest change fetched and not finished with.
Current(a, i) == i \in todo[a] /\ \A j \in todo[a] : i <= j

\* UPDATE tickets SET state = ... WHERE ... AND state IN (...).
Update(ch) ==
  IF shop[ch.ticket] \in From(ch.kind)
  THEN /\ shop' = [shop EXCEPT ![ch.ticket] = Target(ch.kind)]
       /\ closedBy' = IF ch.kind = "ticket_collected"
                      THEN [closedBy EXCEPT ![ch.ticket] = "web"] ELSE closedBy
  ELSE UNCHANGED shopVars

\* loop.js brings an outdated agent up to date with its next start, on the next
\* day at the latest; started again, it fetches the same changes.
Outdated(a) == a \in Stale /\ today = 0

ApplyChange(a) ==
  /\ pc[a] = "applying" /\ ~ Outdated(a)
  /\ \E i \in todo[a] : Current(a, i) /\ Update(queue[i])
  /\ pc' = [pc EXCEPT ![a] = "landed"]
  /\ UNCHANGED <<today, webVars, call, snap, rest, on, todo, faults>>

\* The statement fails, or lands and the connection is lost before the reply.
ApplyFails(a) ==
  /\ Fault
  /\ pc[a] = "applying" /\ ~ Outdated(a)
  /\ \/ UNCHANGED shopVars
     \/ \E i \in todo[a] : Current(a, i) /\ Update(queue[i])
  /\ pc' = [pc EXCEPT ![a] = "errored"]
  /\ UNCHANGED <<today, webVars, call, snap, rest, on, todo>>

\* An agent from before these types throws "Unknown change type".
RefuseChange(a) ==
  /\ pc[a] = "applying" /\ Outdated(a)
  /\ pc' = [pc EXCEPT ![a] = "refusing"]
  /\ UNCHANGED <<today, shopVars, webVars, call, snap, rest, on, todo, faults>>

Finish(a, i) ==
  /\ todo' = [todo EXCEPT ![a] = @ \ {i}]
  /\ pc' = [pc EXCEPT ![a] = IF todo[a] = {i} THEN "idle" ELSE "applying"]

\* POST /sync/mark-change-applied and /sync/mark-change-failed.
Mark(i, status) ==
  /\ queue' = [queue EXCEPT ![i].status = status]
  /\ UNCHANGED <<board, desk>>

\* Slip: the report is left out.
mut_ReportApplied(a) ==
  /\ pc[a] = "landed"
  /\ \E i \in todo[a] : Current(a, i) /\ Finish(a, i)
  /\ UNCHANGED <<today, shopVars, webVars, call, snap, rest, on, faults>>

ReportApplied(a) ==
  /\ pc[a] = "landed"
  /\ \E i \in todo[a] : Current(a, i) /\ Mark(i, "applied") /\ Finish(a, i)
  /\ UNCHANGED <<today, shopVars, call, snap, rest, on, faults>>

\* No answer: the catch block reports the change as failed.  A 500 is not
\* looked at, and the change counts as reported.
ReportAppliedFails(a) ==
  /\ Fault
  /\ pc[a] = "landed"
  /\ \E i \in todo[a] :
       /\ Current(a, i)
       /\ \/ /\ UNCHANGED webVars
             /\ Finish(a, i)
          \/ /\ Mark(i, "applied") \/ UNCHANGED webVars
             /\ pc' = [pc EXCEPT ![a] = "errored"]
             /\ UNCHANGED todo
  /\ UNCHANGED <<today, shopVars, call, snap, rest, on>>

ReportFailed(a) ==
  /\ pc[a] = "errored"
  /\ \E i \in todo[a] : Current(a, i) /\ Mark(i, "failed") /\ Finish(a, i)
  /\ UNCHANGED <<today, shopVars, call, snap, rest, on, faults>>

\* A refusal leaves the change as it is, for an agent that knows the type.
ReportRefusal(a) ==
  /\ pc[a] = "refusing"
  /\ \E i \in todo[a] : Current(a, i) /\ Finish(a, i)
  /\ UNCHANGED <<today, shopVars, webVars, call, snap, rest, on, faults>>

\* No answer to a failure report: the exception leaves the loop.
ReportFailedFails(a) ==
  /\ Fault
  /\ pc[a] \in {"errored", "refusing"}
  /\ \/ UNCHANGED webVars
     \/ pc[a] = "errored" /\ \E i \in todo[a] : Current(a, i) /\ Mark(i, "failed")
  /\ todo' = [todo EXCEPT ![a] = {}]
  /\ pc' = [pc EXCEPT ![a] = "idle"]
  /\ UNCHANGED <<today, shopVars, call, snap, rest, on>>

\* The process is killed and started again by bridge/loop.js, or the fetch is
\* not answered 200 and the cycle ends there.
AgentDies(a) ==
  /\ Fault
  /\ pc[a] # "idle"
  /\ pc' = [pc EXCEPT ![a] = "idle"]
  /\ snap' = [snap EXCEPT ![a] = NothingRead]
  /\ rest' = [rest EXCEPT ![a] = {}]
  /\ on' = [on EXCEPT ![a] = NoCall]
  /\ todo' = [todo EXCEPT ![a] = {}]
  /\ UNCHANGED <<today, shopVars, webVars, call>>

AgentStep(a) ==
  \/ \E back \in {0, CatchUpDays} : SelectTickets(a, back)
  \/ \E c \in Call : SendSlice(a, c)
  \/ FetchChanges(a) \/ ApplyChange(a) \/ RefuseChange(a)
  \/ ReportApplied(a) \/ ReportFailed(a) \/ ReportRefusal(a)

AgentFault(a) ==
  \/ PushFails(a) \/ ApplyFails(a) \/ ReportAppliedFails(a)
  \/ ReportFailedFails(a) \/ AgentDies(a)

-----------------------------------------------------------------------------
TillStep(t) == TillIssue(t) \/ TillReady(t) \/ TillCollect(t) \/ TillCancel(t)

Next ==
  \/ NextDay
  \/ \E t \in Ticket : TillStep(t)
  \/ \E s \in Staff : \/ \E t \in Ticket, k \in Kind : FindTicket(s, t, k)
                      \/ DeskStep(s) \/ DeskDies(s)
  \/ \E c \in Call : CallStep(c) \/ CallDies(c)
  \/ \E a \in Agent : AgentStep(a) \/ AgentFault(a)

Spec == Init /\ [][Next]_vars

\* Days go by; loop.js starts the agent every few seconds and the catch-up falls due every
\* fifteen minutes, whatever became of the last one; handlers run to their end,
\* and the server takes an agent's push however many others it is serving (Call
\* bounds them only here).
Fairness ==
  /\ WF_vars(NextDay)
  /\ \A s \in Staff : WF_vars(DeskStep(s))
  /\ \A c \in Call : WF_vars(CallStep(c))
  /\ \A a \in Agent : /\ WF_vars(AgentStep(a))
                      /\ SF_vars(\E c \in Call : SendSlice(a, c))
                      /\ SF_vars(SelectTickets(a, CatchUpDays))

FairSpec == Spec /\ Fairness

-----------------------------------------------------------------------------
Rank(st) == CASE st = "absent" -> 0 [] st = "OPEN" -> 1 [] st = "READY" -> 2
              [] OTHER -> 3

\* Whatever is pressed on the web, retried, or raced at the counter, the shop's
\* tickets only live the life TicketLifecycle allows: ready at most once, closed
\* at most once, and the name of whoever closed it never overwritten (the WHERE
\* clauses of the two UPDATEs in pusher.js).
Lifecycle == INSTANCE TicketLifecycle WITH Ticket <- Ticket, shop <- shop, closedBy <- closedBy
ShopKeepsLifecycle == Lifecycle!Spec

\* The board never shows a ticket further along than the shop has it, unless a
\* press on the web asked for that and the queue still says the press has not
\* landed (pending, or failed and waiting for the next push to take it back).
BoardAheadIsBacked ==
  \A t \in Ticket :
    Rank(board[t]) > Rank(shop[t]) =>
      \E i \in 1..Len(queue) :
        /\ queue[i].ticket = t
        /\ queue[i].status # "applied"
        /\ Rank(Target(queue[i].kind)) >= Rank(board[t])

\* A change the queue calls applied is in the shop's database: the ticket is at
\* least as far along as the press asked for.  (pusher.js used to mark changes
\* applied that no branch had handled.)
AppliedHasLanded ==
  \A i \in 1..Len(queue) :
    queue[i].status = "applied" => Rank(shop[queue[i].ticket]) >= Rank(Target(queue[i].kind))

\* The inductive strengthening of the two: what the pushes carry is never ahead
\* of the shop, every press on its way has its change queued, and an agent about
\* to report a change applied has seen it land.
Landed(i) == Rank(shop[queue[i].ticket]) >= Rank(Target(queue[i].kind))
Backed(t, st) ==
  \/ Rank(st) <= Rank(shop[t])
  \/ \E i \in 1..Len(queue) : /\ queue[i].ticket = t
                              /\ Rank(st) <= Rank(Target(queue[i].kind))
QueuedFor(press) ==
  \E i \in 1..Len(queue) : queue[i].ticket = press.ticket /\ queue[i].kind = press.kind

BoardInv == \A t \in Ticket : /\ Backed(t, board[t])
                              /\ board[t] # "absent" => shop[t] # "absent"
QueueInv == \A i \in 1..Len(queue) : /\ shop[queue[i].ticket] # "absent"
                                     /\ queue[i].status = "applied" => Landed(i)
DeskInv  == \A s \in Staff :
              /\ desk[s].at = "found" => shop[desk[s].press.ticket] # "absent"
              /\ desk[s].at = "queued" => QueuedFor(desk[s].press)
SnapInv  == \A a \in Agent, t \in Ticket : Rank(snap[a][t]) <= Rank(shop[t])
CallInv  == \A c \in Call, t \in Ticket : Rank(call[c].rows[t]) <= Rank(shop[t])
AgentInv == \A a \in Agent : pc[a] = "landed" =>
              \A i \in todo[a] : Current(a, i) => Landed(i)
TicketsInv == BoardInv /\ QueueInv /\ DeskInv /\ SnapInv /\ CallInv /\ AgentInv

\* Once a press is pending and no push that missed it is still being written,
\* the card cannot be taken back until the press is settled, however many
\* pushes of older states arrive meanwhile (the held set of /tickets/sync).
Protected(t) ==
  /\ t \in Held
  /\ \A c \in Call : call[c].at = "writing" /\ t \in call[c].left => t \in call[c].held
ProtectedUntilSettled ==
  [][\A t \in Ticket :
       Protected(t) /\ board[t] # "absent" =>
         /\ Protected(t)' \/ t \notin Held'
         /\ call' # call => board'[t] = board[t]]_vars

\* With one agent and no fault a push takes a card back only from under a press
\* still pending: an applied press never bounces, because the agent waits for
\* its push to be answered before it applies anything (run in pusher.js, and
\* loop.js refusing to start twice).
AppliedNeverBounces ==
  [][faults = 0 /\ call' # call =>
       \A t \in Ticket : Rank(board'[t]) < Rank(board[t]) => t \in Held]_vars

\* Why it holds: until something fails, a slice under way is the one its agent
\* waits for, and of every ticket an agent carries, the state it carries is not
\* behind the board or a press on it is pending, and not behind any press applied.
Fresh(a, t) ==
  /\ t \in Held \/ Rank(board[t]) <= Rank(snap[a][t])
  /\ \A i \in 1..Len(queue) : queue[i].ticket = t /\ queue[i].status = "applied" =>
                               Rank(Target(queue[i].kind)) <= Rank(snap[a][t])
NoFailInv  == /\ \A i \in 1..Len(queue) : queue[i].status # "failed"
              /\ \A a \in Agent : pc[a] # "errored"
SliceInv   == \A c \in Call : call[c].at # "free" =>
                \E a \in Agent : /\ pc[a] = "waiting" /\ on[a] = c
                                 /\ call[c].rows = snap[a]
                                 /\ \A t \in call[c].left : snap[a][t] # "absent"
CarriedInv == \A a \in Agent : pc[a] \in {"pushing", "waiting"} =>
                \A t \in Ticket : /\ t \in rest[a] => snap[a][t] # "absent"
                                  /\ snap[a][t] # "absent" => Fresh(a, t)
PushInv == faults = 0 => NoFailInv /\ SliceInv /\ CarriedInv

\* Every press is settled: it is applied or it has failed, never pending for
\* ever, as long as one agent that knows the type keeps running.
PressSettles ==
  \A i \in 1..MaxChange :
    (i <= Len(queue)) ~> (i <= Len(queue) /\ queue[i].status # "pending")

\* Once the shop, the staff and the faults are done, the board agrees with the
\* shop on every ticket the catch-up push still covers, the ones whose press
\* failed included ("that ticket should revert").
BoardConverges ==
  <>[](\A t \in Ticket :
         shop[t] # "absent" /\ IssueDay[t] + CatchUpDays >= today => board[t] = shop[t])
=============================================================================
