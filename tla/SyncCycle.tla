----------------------------- MODULE SyncCycle -----------------------------
(***************************************************************************)
(* The refresh of the dashboard.  Somebody presses Refresh; the agent finds*)
(* the request on its next poll, reads the day's metrics and, when due, the*)
(* stock of the catalogue out of the shop's MySQL, pushes both and saves   *)
(* its checkpoint (run, buildProducts and buildMetrics in pusher.js;       *)
(* routes/sync.ts).  The stock is not summed anew: the agent keeps the last*)
(* total in its checkpoint and adds the day's movements.                   *)
(***************************************************************************)
EXTENDS Integers, Sequences, FiniteSets, FiniteSetsExt

CONSTANTS
  Post,      \* POST /sync/metrics requests the server has in hand at once
  NoPost,
  LastDay,   \* bound: days
  MaxMove,   \* bound: sales
  MaxAsk,    \* bound: presses of Refresh
  MaxOld,    \* bound: pushes of an agent from before v20260501
  MaxFault   \* bound: crashes, failed queries and requests, lost answers

ASSUME SyncConstantsOK ==
  /\ NoPost \notin Post
  /\ {LastDay, MaxMove, MaxAsk, MaxOld, MaxFault} \subseteq Nat

None == -1
Day  == 0..LastDay

VARIABLES
  today,
  moved,     \* moved[d]: rows of stran of day d, one sale of one unit each
  asked, pending,   \* SyncRequests made, and those not yet fulfilled
  cp,        \* checkpoint.json: date, stockMap; counted, again: see Nothing
  cycle,     \* the run of the agent
  post,      \* post[k]: a request of /sync/metrics
  snaps,     \* MetricsSnapshot rows in the order of capturedAt
  catalogue, \* the stock of the catalogue
  page,      \* a dashboard: the press it waits for, or what it shows for it
  olds, faults

shopVars   == <<today, moved>>
askVars    == <<asked, pending>>
agentVars  == <<cp, cycle>>
serverVars == <<post, snaps, catalogue>>
vars == <<shopVars, askVars, agentVars, serverVars, page, olds, faults>>

\* The rows of stran when each day has moved that much, and the stock they sum to.
Movements(days) == UNION {{d} \X (1..days[d]) : d \in Day}
Total(days)     == Cardinality(Movements(days))
NoMoves         == [d \in Day |-> 0]

\* A reading of the stock: its total and, as history, the ledger when it was read, the
\* movements of each day that have entered the total, and how many entered it again.
Nothing  == [qty |-> None, of |-> NoMoves, counted |-> NoMoves, again |-> 0]
NoStock  == [date |-> None, stock |-> None, counted |-> NoMoves, again |-> 0]
NoCycle  == [at |-> "idle", day |-> 0, was |-> NoStock, due |-> FALSE,
             stock |-> Nothing, figure |-> None, seen |-> 0, post |-> NoPost, pushed |-> FALSE]
IdlePost == [at |-> "idle", day |-> 0, figure |-> 0, old |-> FALSE, seen |-> 0]
NoPress  == [at |-> "idle", press |-> 0, seen |-> 0, amid |-> FALSE]

TypeOK ==
  /\ today \in Day /\ moved \in [Day -> 0..MaxMove]
  /\ asked \in 0..MaxAsk /\ pending \in 0..asked
  /\ cp.date \in {None} \cup 0..today /\ cp.stock \in Nat \cup {None}
  /\ cycle.at \in {"idle", "taken", "read", "built", "sent", "answered", "pushed"}
  /\ cycle.figure \in {None} \cup 0..MaxMove /\ cycle.post \in Post \cup {NoPost}
  /\ \A k \in Post : post[k].at \in {"idle", "checked", "deleted"}
  /\ \A i \in DOMAIN snaps : snaps[i].day \in 0..today /\ snaps[i].figure \in 0..MaxMove
  /\ {cp.counted, cycle.stock.of, catalogue.of} \subseteq [Day -> 0..MaxMove]
  /\ olds \in 0..MaxOld /\ faults \in 0..MaxFault
  /\ page.at \in {"idle", "waiting", "fresh"} /\ page.press \in 0..asked

Init ==
  /\ today = 0 /\ moved = NoMoves
  /\ asked = 0 /\ pending = 0
  /\ cp = NoStock
  /\ cycle = NoCycle
  /\ post = [k \in Post |-> IdlePost]
  /\ snaps = <<>> /\ catalogue = Nothing
  /\ olds = 0 /\ faults = 0
  /\ page = NoPress

Fault == faults < MaxFault /\ faults' = faults + 1

-----------------------------------------------------------------------------
(* The shop, and the dashboard.                                            *)

Sell ==
  /\ Total(moved) < MaxMove
  /\ moved' = [moved EXCEPT ![today] = @ + 1]
  /\ UNCHANGED <<today, askVars, agentVars, serverVars, page, olds, faults>>

NextDay ==
  /\ today < LastDay
  /\ today' = today + 1
  /\ UNCHANGED <<moved, askVars, agentVars, serverVars, page, olds, faults>>

\* POST /sync/request, from a dashboard that then waits.
Press ==
  /\ asked < MaxAsk /\ page.at # "waiting"
  /\ asked' = asked + 1 /\ pending' = pending + 1
  /\ page' = [NoPress EXCEPT !.at = "waiting", !.press = asked',
                            !.amid = cycle.at = "built" \/ \E k \in Post : post[k].at # "idle"]
  /\ UNCHANGED <<shopVars, agentVars, serverVars, olds, faults>>

\* From another dashboard, or with an answer that is lost.
Request ==
  /\ asked < MaxAsk
  /\ asked' = asked + 1 /\ pending' = pending + 1
  /\ \/ UNCHANGED <<page, faults>>
     \/ page.at # "waiting" /\ page' = NoPress /\ Fault
  /\ UNCHANGED <<shopVars, agentVars, serverVars, olds>>

Newest == {i \in DOMAIN snaps : \A j \in DOMAIN snaps : j <= i}

\* GET /sync/metrics/latest, every three seconds, until the snapshot is of a time after
\* the press.
\* Slip: any snapshot will do.
mut_PollLatest ==
  /\ page.at = "waiting"
  /\ \E i \in Newest : page' = [page EXCEPT !.at = "fresh", !.seen = snaps[i].seen]
  /\ UNCHANGED <<shopVars, askVars, agentVars, serverVars, olds, faults>>

PollLatest ==
  /\ page.at = "waiting"
  /\ \E i \in Newest : /\ snaps[i].stamp >= page.press
                      /\ page' = [page EXCEPT !.at = "fresh", !.seen = snaps[i].seen]
  /\ UNCHANGED <<shopVars, askVars, agentVars, serverVars, olds, faults>>

\* Five minutes are over: whatever there is is shown, with a note.
RefreshTimesOut ==
  /\ page.at = "waiting"
  /\ page' = NoPress
  /\ UNCHANGED <<shopVars, askVars, agentVars, serverVars, olds, faults>>

-----------------------------------------------------------------------------
(* The agent.                                                              *)

\* The oldest request is handed out and marked, and the checkpoint read.  The products
\* are due on a new day, and when the last were sent four hours ago.
TakeRefresh ==
  /\ cycle.at = "idle" /\ pending > 0
  /\ pending' = pending - 1
  /\ \E fourHours \in BOOLEAN :
       cycle' = [NoCycle EXCEPT !.at = "taken", !.day = today, !.was = cp,
                                !.due = cp.date # today \/ fourHours]
  /\ UNCHANGED <<shopVars, asked, cp, serverVars, page, olds, faults>>

\* The total of the checkpoint and what moved today, or the sum of the whole ledger
\* when there is no total yet.
\* Slip: the day's movements are left out.
mut_StockNow == IF cycle.was.stock # None THEN cycle.was.stock ELSE Total(moved)

StockNow == IF cycle.was.stock # None THEN cycle.was.stock + moved[today] ELSE Total(moved)

\* What has entered the total with that, and what of it for another time: today's
\* movements of an earlier reading are in the total already.
CountedNow == IF cycle.was.stock # None THEN [cycle.was.counted EXCEPT ![today] = moved[today]] ELSE moved
AgainNow   == IF cycle.was.stock # None THEN cycle.was.again + cycle.was.counted[today] ELSE 0

Reading(qty, counted, again) ==
  /\ cycle' = [cycle EXCEPT !.at = "read",
                 !.stock = [qty |-> qty, of |-> moved, counted |-> counted, again |-> again]]
  /\ UNCHANGED <<shopVars, askVars, cp, serverVars, page, olds>>

ReadProducts ==
  /\ cycle.at = "taken" /\ cycle.due
  /\ Reading(StockNow, CountedNow, AgainNow) /\ UNCHANGED faults

\* The query of the movements or of the whole ledger fails: there are none, then.
ReadProductsFails ==
  /\ cycle.at = "taken" /\ cycle.due /\ Fault
  /\ IF cycle.was.stock # None THEN Reading(cycle.was.stock, cycle.was.counted, cycle.was.again)
                               ELSE Reading(0, NoMoves, 0)

SkipProducts ==
  /\ cycle.at = "taken"
  /\ IF cycle.due THEN Fault ELSE UNCHANGED faults
  /\ cycle' = [cycle EXCEPT !.at = "read"]
  /\ UNCHANGED <<shopVars, askVars, cp, serverVars, page, olds>>

BuildMetrics ==
  /\ cycle.at = "read"
  /\ cycle' = [cycle EXCEPT !.at = "built", !.figure = moved[cycle.day], !.seen = asked]
  /\ UNCHANGED <<shopVars, askVars, cp, serverVars, page, olds, faults>>

\* No connection, or a query that fails: the cycle goes on without metrics.
BuildMetricsFails ==
  /\ cycle.at = "read" /\ Fault
  /\ cycle' = [cycle EXCEPT !.at = "answered"]
  /\ UNCHANGED <<shopVars, askVars, cp, serverVars, page, olds>>

PushMetrics(k) ==
  /\ cycle.at = "built" /\ post[k].at = "idle"
  /\ post' = [post EXCEPT ![k] = [IdlePost EXCEPT !.at = "checked", !.day = cycle.day, !.figure = cycle.figure, !.seen = cycle.seen]]
  /\ cycle' = [cycle EXCEPT !.at = "sent", !.post = k, !.figure = None, !.seen = 0]
  /\ UNCHANGED <<shopVars, askVars, cp, snaps, catalogue, page, olds, faults>>

\* The request fails or times out; the server may have it all the same.
PushMetricsFails ==
  /\ cycle.at = "sent" /\ Fault
  /\ cycle' = [cycle EXCEPT !.at = "answered", !.post = NoPost]
  /\ UNCHANGED <<shopVars, askVars, cp, serverVars, page, olds>>

\* POST /sync/products: the stock is set to what the agent says.
SyncProducts ==
  /\ cycle.at = "answered"
  /\ catalogue' = IF cycle.stock = Nothing THEN catalogue ELSE cycle.stock
  /\ cycle' = [cycle EXCEPT !.at = "pushed"]
  /\ UNCHANGED <<shopVars, askVars, cp, post, snaps, page, olds, faults>>

\* A batch that fails is logged and left.
SyncProductsFails ==
  /\ cycle.at = "answered" /\ cycle.stock # Nothing /\ Fault
  /\ cycle' = [cycle EXCEPT !.at = "pushed"]
  /\ UNCHANGED <<shopVars, askVars, cp, serverVars, page, olds>>

\* An empty total, of a ledger that is empty or could not be read, is not kept.
SaveCheckpoint ==
  /\ cycle.at = "pushed"
  /\ LET date == IF cycle.pushed THEN cycle.day ELSE cycle.was.date
     IN cp' = IF cycle.stock.qty > 0
              THEN [date |-> date, stock |-> cycle.stock.qty,
                    counted |-> cycle.stock.counted, again |-> cycle.stock.again]
              ELSE [cycle.was EXCEPT !.date = date]
  /\ cycle' = NoCycle
  /\ UNCHANGED <<shopVars, askVars, serverVars, page, olds, faults>>

AgentDies ==
  /\ cycle.at # "idle" /\ Fault
  /\ cycle' = NoCycle
  /\ UNCHANGED <<shopVars, askVars, cp, serverVars, page, olds>>

-----------------------------------------------------------------------------
(* POST /sync/metrics.                                                     *)

Accurate(d) == \E i \in DOMAIN snaps : snaps[i].day = d /\ ~snaps[i].old /\ snaps[i].figure > 0

\* An agent from before v20260501 sends figures that count drafts; they are answered
\* and dropped while the day has an accurate snapshot.
OldPush(k) ==
  /\ olds < MaxOld /\ post[k].at = "idle"
  /\ olds' = olds + 1
  /\ post' = IF Accurate(today) THEN post ELSE
       [post EXCEPT ![k] = [at |-> "checked", day |-> today, figure |-> moved[today], old |-> TRUE, seen |-> asked]]
  /\ UNCHANGED <<shopVars, askVars, agentVars, snaps, catalogue, page, faults>>

DeleteDay(k) ==
  /\ post[k].at = "checked"
  /\ snaps' = [i \in {j \in DOMAIN snaps : snaps[j].day # post[k].day} |-> snaps[i]]
  /\ post' = [post EXCEPT ![k].at = "deleted"]
  /\ UNCHANGED <<shopVars, askVars, agentVars, catalogue, page, olds, faults>>

After(rows) == Max({0} \cup DOMAIN rows) + 1

CreateSnapshot(k) ==
  /\ post[k].at = "deleted"
  /\ LET row == [day |-> post[k].day, figure |-> post[k].figure, old |-> post[k].old,
                 seen |-> post[k].seen, stamp |-> asked]
     IN snaps' = [i \in DOMAIN snaps \cup {After(snaps)} |-> IF i = After(snaps) THEN row ELSE snaps[i]]
  /\ post' = [post EXCEPT ![k] = IdlePost]
  /\ cycle' = IF cycle.post = k
              THEN [cycle EXCEPT !.at = "answered", !.post = NoPost, !.pushed = TRUE] ELSE cycle
  /\ UNCHANGED <<shopVars, askVars, cp, catalogue, page, olds, faults>>

\* A statement fails or the server goes down: whoever waits times out.
PostDies(k) ==
  /\ post[k].at # "idle" /\ Fault
  /\ post' = [post EXCEPT ![k] = IdlePost]
  /\ cycle' = IF cycle.post = k THEN [cycle EXCEPT !.at = "answered", !.post = NoPost] ELSE cycle
  /\ UNCHANGED <<shopVars, askVars, cp, snaps, catalogue, page, olds>>

-----------------------------------------------------------------------------
AgentStep ==
  \/ TakeRefresh \/ ReadProducts \/ (~cycle.due /\ SkipProducts) \/ BuildMetrics
  \/ (\E k \in Post : PushMetrics(k)) \/ SyncProducts \/ SaveCheckpoint

PostStep(k) == DeleteDay(k) \/ CreateSnapshot(k)

AgentFault ==
  \/ ReadProductsFails \/ SkipProducts \/ BuildMetricsFails \/ PushMetricsFails
  \/ SyncProductsFails \/ AgentDies

Next ==
  \/ Sell \/ NextDay
  \/ Press \/ Request \/ PollLatest \/ RefreshTimesOut \/ AgentStep \/ AgentFault
  \/ \E k \in Post : OldPush(k) \/ PostStep(k) \/ PostDies(k)

Spec == Init /\ [][Next]_vars

-----------------------------------------------------------------------------
\* Between the stock shown and the ledger it was read from stand two things and nothing
\* else, whatever fails in between: movements made after the last reading of their day,
\* which no later one looks for, and those an earlier reading of the same day had already
\* added, which count again with each (buildProducts in pusher.js adds the movements of
\* today to a total of which it does not know when it was read).
StockOffByRereads ==
  catalogue # Nothing =>
    /\ catalogue.qty = Total(catalogue.counted) + catalogue.again
    /\ \A d \in Day : catalogue.counted[d] <= catalogue.of[d]

\* The cached total is a cache: to lose it "only loses the cache - next run does the full
\* query once" (buildProducts), so that what is read with it is what the full query would
\* have said.  It is not: see the run StockCache.
CacheIsTheLedger == cycle.stock # Nothing /\ faults = 0 => cycle.stock.qty = Total(cycle.stock.of)

\* A dashboard that says it is refreshed shows figures read after the press, unless figures
\* read before were on their way to be written when Refresh was pressed: their snapshot
\* is newer than the press all the same (requestRefresh in dashboard/page.tsx compares
\* the time of writing).
RefreshedAfterPress ==
  page.at = "fresh" => page.seen >= page.press \/ page.amid

\* The inductive strengthening of StockOffByRereads.  A total and the movements it counts keep
\* together on their way from the reading to the catalogue and through the checkpoint.
Sums(qty, c) == c.counted \in [Day -> Nat] /\ c.again \in Nat /\ qty = Total(c.counted) + c.again
Within(c, ledger) == \A d \in Day : c.counted[d] <= ledger[d]

Kept(c, ledger) == /\ DOMAIN c = DOMAIN NoStock
                   /\ c.stock = None \/ (Sums(c.stock, c) /\ Within(c, ledger))
Exact(r) == r = Nothing \/ (Sums(r.qty, r) /\ Within(r, r.of))
StockInv == /\ today \in Day /\ moved \in [Day -> Nat]
            /\ Kept(cp, moved) /\ Kept(cycle.was, moved) /\ Within(cycle.stock, moved)
            /\ Exact(cycle.stock) /\ Exact(catalogue)

\* And of RefreshedAfterPress.  What is on its way to be written was read after the press
\* that is waited for, for at the press nothing was; and so was what is written since.
RefreshInv ==
  /\ asked \in Nat /\ {page.press, page.seen, cycle.seen} \subseteq 0..asked
  /\ DOMAIN page = DOMAIN NoPress /\ DOMAIN cycle = DOMAIN NoCycle /\ DOMAIN post = Post
  /\ \A k \in Post : DOMAIN post[k] = DOMAIN IdlePost /\ post[k].seen \in 0..asked
  /\ \A i \in DOMAIN snaps : {snaps[i].seen, snaps[i].stamp} \subseteq 0..asked
  /\ ~page.amid =>
       /\ cycle.at = "built" => cycle.seen >= page.press
       /\ \A k \in Post : post[k].at # "idle" => post[k].seen >= page.press
       /\ \A i \in DOMAIN snaps : snaps[i].stamp >= page.press => snaps[i].seen >= page.press
  /\ RefreshedAfterPress
=============================================================================
