------------------------------ MODULE WebSales ------------------------------
(***************************************************************************)
(* Sales made on the web and their way into the shop's books.              *)
(* Customers order (POST /orders) and staff sell over the counter (POST    *)
(* /pos/sale, and POST /orders with channel COUNTER); orders are cancelled *)
(* from the dashboard and processed from a Telegram button.  The sync      *)
(* agent fetches the counter sales the shop does not know yet, writes each *)
(* into MySQL statement by statement under the next free receipt number,   *)
(* and reports it synced (writeBackSales in bridge/pusher.js).  A run of   *)
(* the agent may outlive the loop that started it, so that two are at it.  *)
(* The tills' own receipt numbers start with a letter and never meet these.*)
(* Handlers interleave wherever they await.  One product; an order is the  *)
(* quantities of its lines.                                                *)
(***************************************************************************)
EXTENDS Integers, FiniteSets, SequencesExt

CONSTANTS
  Request,     \* requests in hand at once
  Agent,       \* runs of the sync agent at once
  Basket,      \* the orders placed: sequences of quantities
  OnHand,      \* stock at the start
  Window,      \* sales handed out per write-back (50 in the code)
  MaxOrder,    \* bound: orders
  MaxPress,    \* bound: presses of Cancel and of the Telegram button
  MaxFault     \* bound: lost messages, failed statements, crashes

ASSUME WebSalesConstantsOK ==
  /\ IsFiniteSet(Request)
  /\ {OnHand, MaxOrder, MaxPress, MaxFault} \subseteq Nat
  /\ Window \in Nat \ {0}
  /\ \A b \in Basket : b \in Seq(Nat \ {0}) /\ b # <<>>

VARIABLES
  order,     \* the SalesOrder rows
  stock,     \* Product.stockQty
  req,       \* req[r]: where a request handler stands
  owner,     \* owner[n]: whose pos_header row receipt n is, for each number in use
  lines,     \* lines[n]: statements run for it after the header
  agent,     \* agent[a]: where a run stands, the sales it fetched, its nextNo
  late,      \* reports on their way after they were given up on
  presses, faults,
  spoilt     \* history: what may put the shelf wrong was done (ShelfMatchesOrders)

webVars   == <<order, stock, req>>
shopVars  == <<owner, lines>>
vars == <<webVars, shopVars, agent, late, presses, faults, spoilt>>

Order == [channel : {"ONLINE", "COUNTER"}, status : {"PENDING", "PAID", "FULFILLED", "CANCELLED"},
          basket : Basket, synced : BOOLEAN, receipt : Nat]
Done  == [at |-> "idle", todo |-> {}, next |-> 0]
Idle  == [at |-> "idle", order |-> 0, basket |-> <<>>]
Used  == DOMAIN owner

RowsOK ==
  /\ order \in Seq(Order)
  /\ req \in [Request -> [at : {"idle", "checked", "sold", "cancelling", "processing"},
                          order : Nat, basket : Seq(Nat \ {0})]]
  /\ Used \subseteq Nat \ {0} /\ owner \in [Used -> DOMAIN order] /\ lines \in [Used -> Nat]
  /\ agent \in [Agent -> [at : {"idle", "header", "lines", "mark"},
                          todo : SUBSET DOMAIN order, next : Nat]]
  /\ late \subseteq [order : DOMAIN order, receipt : Nat]
  /\ presses \in 0..MaxPress /\ faults \in 0..MaxFault
TypeOK == RowsOK /\ stock \in Int /\ spoilt \in BOOLEAN /\ Len(order) <= MaxOrder

Init ==
  /\ order = <<>> /\ stock = OnHand
  /\ req = [r \in Request |-> Idle]
  /\ owner = <<>> /\ lines = <<>>
  /\ agent = [a \in Agent |-> Done] /\ late = {} /\ presses = 0 /\ faults = 0 /\ spoilt = FALSE

Fault == faults < MaxFault /\ faults' = faults + 1

\* What sets hold together, each element under the index of its own set.
Tagged(f) == UNION {{i} \X f[i] : i \in DOMAIN f}
\* The units of a basket, each under its line, and how many they are.
Units(b) == Tagged([i \in DOMAIN b |-> 1..b[i]])
Total(b) == Cardinality(Units(b))

-----------------------------------------------------------------------------
(* Orders and counter sales.                                               *)

NewOrder(c, s, b) ==
  Append(order, [channel |-> c, status |-> s, basket |-> b, synced |-> FALSE, receipt |-> 0])

\* Requests may have their turn only while there is room for their order.
Checked == {r \in Request : req[r].at = "checked"}
Room    == Len(order) + Cardinality(Checked) < MaxOrder

\* POST /orders looks at the stock of each line by itself, inside a transaction
\* that locks nothing it reads.
InStock(b) == \A i \in DOMAIN b : b[i] <= stock

CheckOrder(r, b) ==
  /\ req[r].at = "idle" /\ Room
  /\ InStock(b)
  /\ req' = [req EXCEPT ![r] = [Idle EXCEPT !.at = "checked", !.basket = b]]
  /\ UNCHANGED <<order, stock, shopVars, agent, late, presses, faults, spoilt>>

\* The transaction commits: the order is there and every line is taken off.
CommitOrder(r) ==
  /\ req[r].at = "checked"
  /\ \E c \in {"ONLINE", "COUNTER"} : order' = NewOrder(c, "PENDING", req[r].basket)
  /\ stock' = stock - Total(req[r].basket)
  /\ req' = [req EXCEPT ![r] = Idle]
  /\ UNCHANGED <<shopVars, agent, late, presses, faults, spoilt>>

\* POST /pos/sale creates the order, and then takes the lines off one by one.
SellAtCounter(r, b) ==
  /\ req[r].at = "idle" /\ Room
  /\ order' = NewOrder("COUNTER", "PAID", b)
  /\ req' = [req EXCEPT ![r] = [Idle EXCEPT !.at = "sold", !.basket = b]]
  /\ UNCHANGED <<stock, shopVars, agent, late, presses, faults, spoilt>>

TakeLine(r) ==
  /\ req[r].at = "sold"
  /\ LET b == req[r].basket IN
       /\ stock' = stock - Head(b)
       /\ req' = [req EXCEPT ![r] = IF Len(b) = 1 THEN Idle ELSE [@ EXCEPT !.basket = Tail(b)]]
  /\ UNCHANGED <<order, shopVars, agent, late, presses, faults, spoilt>>

\* An order that a request in hand is about to cancel, or to process.
AtWork(o, steps) == \E r \in Request : req[r].at \in steps /\ req[r].order = o

\* POST /orders/:id/cancel reads the order, puts its lines back and sets the status.
\* Slip: an order that is cancelled already is not refused.
mut_ReadForCancel(r, o) ==
  /\ req[r].at = "idle" /\ presses < MaxPress
  /\ presses' = presses + 1
  /\ req' = [req EXCEPT ![r] = [Idle EXCEPT !.at = "cancelling", !.order = o]]
  /\ spoilt' = (spoilt \/ AtWork(o, {"cancelling", "processing"}))
  /\ UNCHANGED <<order, stock, shopVars, agent, late, faults>>

ReadForCancel(r, o) ==
  /\ req[r].at = "idle"
  /\ order[o].status # "CANCELLED" /\ presses < MaxPress
  /\ presses' = presses + 1
  /\ req' = [req EXCEPT ![r] = [Idle EXCEPT !.at = "cancelling", !.order = o]]
  /\ spoilt' = (spoilt \/ AtWork(o, {"cancelling", "processing"}))
  /\ UNCHANGED <<order, stock, shopVars, agent, late, faults>>

CommitCancel(r) ==
  /\ req[r].at = "cancelling"
  /\ LET o == req[r].order IN
       /\ stock' = stock + Total(order[o].basket)
       /\ order' = [order EXCEPT ![o].status = "CANCELLED"]
  /\ req' = [req EXCEPT ![r] = Idle]
  /\ UNCHANGED <<shopVars, agent, late, presses, faults, spoilt>>

\* The Telegram button: whatever is not FULFILLED becomes so.
ReadForProcess(r, o) ==
  /\ req[r].at = "idle"
  /\ order[o].status # "FULFILLED" /\ presses < MaxPress
  /\ presses' = presses + 1
  /\ req' = [req EXCEPT ![r] = [Idle EXCEPT !.at = "processing", !.order = o]]
  /\ spoilt' = (spoilt \/ order[o].status = "CANCELLED" \/ AtWork(o, {"cancelling"}))
  /\ UNCHANGED <<order, stock, shopVars, agent, late, faults>>

CommitProcess(r) ==
  /\ req[r].at = "processing"
  /\ order' = [order EXCEPT ![req[r].order].status = "FULFILLED"]
  /\ req' = [req EXCEPT ![r] = Idle]
  /\ UNCHANGED <<stock, shopVars, agent, late, presses, faults, spoilt>>

\* The API is restarted, or the transaction fails: what was committed stays.
RequestDies(r) ==
  /\ req[r].at # "idle" /\ Fault
  /\ req' = [req EXCEPT ![r] = Idle]
  /\ spoilt' = (spoilt \/ req[r].at = "sold")
  /\ UNCHANGED <<order, stock, shopVars, agent, late, presses>>

-----------------------------------------------------------------------------
(* writeBackSales.                                                         *)

LastNo == IF Used = {} THEN 0 ELSE Max(Used)

\* Slip: sales that are synced are handed out again.
mut_Unsynced == {o \in DOMAIN order : order[o].channel = "COUNTER"}

Unsynced == {o \in DOMAIN order : order[o].channel = "COUNTER" /\ ~ order[o].synced}
Oldest   == {o \in Unsynced : Cardinality({p \in Unsynced : p < o}) < Window}

\* The sales and, once for all of them, the next free receipt number.  It takes
\* the death of a loop to have two runs at once.
Fetch(a) ==
  /\ agent[a].at = "idle" /\ Oldest # {}
  /\ IF \A b \in Agent : agent[b].at = "idle" THEN UNCHANGED faults ELSE Fault
  /\ agent' = [agent EXCEPT ![a] = [at |-> "header", todo |-> Oldest, next |-> LastNo + 1]]
  /\ UNCHANGED <<webVars, shopVars, late, presses, spoilt>>

Sale(a) == Min(agent[a].todo)
No(a)   == agent[a].next

\* On to the next sale and the next number.
NextSale(a) ==
  LET rest == agent[a].todo \ {Sale(a)} IN
    agent' = [agent EXCEPT ![a] =
                IF rest = {} THEN Done ELSE [at |-> "header", todo |-> rest, next |-> No(a) + 1]]

Added(f, n, v) == [k \in DOMAIN f \cup {n} |-> IF k = n THEN v ELSE f[k]]

\* receiptno is unique: a number the other run took is refused, and the sale left
\* for the next round.
\* Slip: the report goes out as soon as the header is in.
mut_WriteHeader(a) ==
  /\ agent[a].at = "header"
  /\ IF No(a) \notin Used
     THEN /\ owner' = Added(owner, No(a), Sale(a)) /\ lines' = Added(lines, No(a), 0)
          /\ agent' = [agent EXCEPT ![a].at = "mark"]
     ELSE NextSale(a) /\ UNCHANGED shopVars
  /\ UNCHANGED <<webVars, late, presses, faults, spoilt>>

WriteHeader(a) ==
  /\ agent[a].at = "header"
  /\ IF No(a) \notin Used
     THEN /\ owner' = Added(owner, No(a), Sale(a)) /\ lines' = Added(lines, No(a), 0)
          /\ agent' = [agent EXCEPT ![a].at = "lines"]
     ELSE NextSale(a) /\ UNCHANGED shopVars
  /\ UNCHANGED <<webVars, late, presses, faults, spoilt>>

\* A line and its stock movement are two statements.
Needed(o) == 2 * Len(order[o].basket)

WriteLine(a) ==
  /\ agent[a].at = "lines"
  /\ lines' = [lines EXCEPT ![No(a)] = @ + 1]
  /\ agent' = [agent EXCEPT ![a].at = IF lines'[No(a)] = Needed(Sale(a)) THEN "mark" ELSE "lines"]
  /\ UNCHANGED <<webVars, owner, late, presses, faults, spoilt>>

SetSynced(m) == order' = [order EXCEPT ![m.order].synced = TRUE, ![m.order].receipt = m.receipt]
ThisMark(a)  == [order |-> Sale(a), receipt |-> No(a)]

MarkSynced(a) ==
  /\ agent[a].at = "mark"
  /\ SetSynced(ThisMark(a)) /\ NextSale(a)
  /\ UNCHANGED <<stock, req, shopVars, late, presses, faults, spoilt>>

\* The report is refused, lost, still on its way, or arrives and is not answered.
MarkFails(a) ==
  /\ agent[a].at = "mark" /\ Fault
  /\ \/ UNCHANGED <<order, late>>
     \/ late' = late \cup {ThisMark(a)} /\ UNCHANGED order
     \/ SetSynced(ThisMark(a)) /\ UNCHANGED late
  /\ NextSale(a)
  /\ UNCHANGED <<stock, req, shopVars, presses, spoilt>>

LateMark(m) ==
  /\ m \in late
  /\ late' = late \ {m}
  /\ SetSynced(m)
  /\ UNCHANGED <<stock, req, shopVars, agent, presses, faults, spoilt>>

\* A statement fails: what is written of the sale stays, and it comes up again.
SaleFails(a) ==
  /\ agent[a].at \in {"header", "lines"} /\ Fault
  /\ NextSale(a)
  /\ UNCHANGED <<webVars, shopVars, late, presses, spoilt>>

AgentDies(a) ==
  /\ agent[a].at # "idle" /\ Fault
  /\ agent' = [agent EXCEPT ![a] = Done]
  /\ UNCHANGED <<webVars, shopVars, late, presses, spoilt>>

-----------------------------------------------------------------------------
Arrive(r) ==
  \/ \E b \in Basket : CheckOrder(r, b) \/ SellAtCounter(r, b)
  \/ \E o \in DOMAIN order : ReadForCancel(r, o) \/ ReadForProcess(r, o)

Proceed(r) == CommitOrder(r) \/ TakeLine(r) \/ CommitCancel(r) \/ CommitProcess(r)

WriteBack(a) == Fetch(a) \/ WriteHeader(a) \/ WriteLine(a) \/ MarkSynced(a)

Next ==
  \/ \E r \in Request : Arrive(r) \/ Proceed(r) \/ RequestDies(r)
  \/ \E a \in Agent : WriteBack(a) \/ MarkFails(a) \/ SaleFails(a) \/ AgentDies(a)
  \/ \E m \in late : LateMark(m)

Spec == Init /\ [][Next]_vars

-----------------------------------------------------------------------------
Whole(n, o) == n \in Used /\ owner[n] = o /\ lines[n] = Needed(o)

\* A sale the web shows as synced is in the shop's books, complete, under the
\* very receipt number it shows, whatever was lost, late or written twice.
SyncedMeansWritten ==
  \A o \in DOMAIN order : order[o].synced => Whole(order[o].receipt, o)

\* A sale is written under a second receipt number only at the price of a fault:
\* whatever batches overlap, refused numbers are skipped and marks come late, each
\* receipt of it beside the first has cost one.
Receipts(o) == {n \in Used : owner[n] = o}
SecondReceiptsCostFaults == \A o \in DOMAIN order : Cardinality(Receipts(o)) <= 1 + faults

\* What is missing from the shelf is what the orders not cancelled took: lines still to
\* be taken off, cancelled meanwhile or not, come out even in the end, and so does every
\* order that is processed, cancelled and pressed for again.  Only three things spoil it:
\* a cancellation and another press of the same order that overlap, each having read it
\* before the other wrote; the Telegram button pressed for an order that is cancelled,
\* which makes it FULFILLED and does not ask; a counter sale that broke off between its
\* lines (routes/orders.ts, routes/pos.ts).
Standing     == {o \in DOMAIN order : order[o].status # "CANCELLED"}
OnOrder      == Cardinality(Tagged([o \in Standing |-> Units(order[o].basket)]))
Selling      == {r \in Request : req[r].at = "sold"}
StillToTake  == Cardinality(Tagged([r \in Selling |-> Units(req[r].basket)]))
ShelfMatchesOrders ==
  stock = OnHand - OnOrder + StillToTake \/ spoilt

-----------------------------------------------------------------------------
\* The inductive strengthening of SyncedMeansWritten.  A run has a receipt of its own
\* at hand, with as many lines as it has come to; what is on its way to be marked is
\* written, and no run writes under its number any more.
ReqInv ==
  \A r \in Request :
    /\ req[r].at = "checked" => req[r].basket \in Basket
    /\ req[r].at = "sold" => req[r].basket # <<>>
    /\ req[r].at \in {"cancelling", "processing"} => req[r].order \in DOMAIN order
Writing(a) == agent[a].at \in {"lines", "mark"}
AgentInv ==
  /\ \A a \in Agent : agent[a].at # "idle" => agent[a].todo # {} /\ No(a) > 0
  /\ \A a \in Agent : Writing(a) =>
       /\ No(a) \in Used /\ owner[No(a)] = Sale(a)
       /\ IF agent[a].at = "mark" THEN lines[No(a)] = Needed(Sale(a)) ELSE lines[No(a)] < Needed(Sale(a))
  /\ \A a, b \in Agent : Writing(a) /\ Writing(b) /\ No(a) = No(b) => a = b
BooksInv ==
  /\ \A m \in late : Whole(m.receipt, m.order)
  /\ SyncedMeansWritten
SalesInv == ReqInv /\ AgentInv /\ BooksInv

\* Of SecondReceiptsCostFaults: receipts are counted with those to come, from the runs
\* that have the sale in their batch still to write, or from the next if none is at it.
AtIt(o)   == {a \in Agent : agent[a].at # "idle" /\ o \in agent[a].todo}
ToWrite(o) == {a \in AtIt(o) : Writing(a) => Sale(a) # o}
Waits(o)  == ~ order[o].synced /\ AtIt(o) = {}
ReceiptsInv ==
  \A o \in DOMAIN order :
    /\ IsFiniteSet(Receipts(o)) /\ IsFiniteSet(ToWrite(o))
    /\ Cardinality(Receipts(o)) + Cardinality(ToWrite(o)) + (IF Waits(o) THEN 1 ELSE 0) <= 1 + faults

\* And of ShelfMatchesOrders: who cancels an order is alone with it, and it stands.  The
\* orders there are and those about to be fit the bound.
Pressing == {r \in Request : req[r].at \in {"cancelling", "processing"}}
PressInv ==
  \A r \in Pressing :
    /\ req[r].order \in Standing
    /\ req[r].at = "cancelling" => \A s \in Pressing : req[s].order = req[r].order => s = r
ShelfInv ==
  /\ stock \in Int /\ spoilt \in BOOLEAN /\ Len(order) + Cardinality(Checked) <= MaxOrder
  /\ spoilt = FALSE => PressInv /\ stock = OnHand - OnOrder + StillToTake
=============================================================================
