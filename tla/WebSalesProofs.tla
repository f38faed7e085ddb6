--------------------------- MODULE WebSalesProofs ---------------------------
(***************************************************************************)
(* Proofs about WebSales, for every set of requests, runs of the agent and *)
(* baskets, every window, and any number of orders, presses and faults.    *)
(***************************************************************************)
EXTENDS WebSales, WellFoundedInduction, FiniteSetTheorems, TLAPS

Reqs   == [at : {"idle", "checked", "sold", "cancelling", "processing"},
           order : Nat, basket : Seq(Nat \ {0})]
Agents == [at : {"idle", "header", "lines", "mark"}, todo : SUBSET DOMAIN order, next : Nat]

\* The receipt numbers in use are bounded.
NumbersInv == \E top \in Nat : \A n \in Used : n <= top

-----------------------------------------------------------------------------
(* Least and greatest numbers.                                             *)

LEMMA LeastNumber ==
  ASSUME NEW S \in SUBSET Nat, S # {}
  PROVE  Min(S) \in S /\ \A y \in S : Min(S) <= y
<1> DEFINE R == {ss \in Nat \X Nat : ss[1] < ss[2]}
<1>1. IsWellFoundedOn(R, Nat)
  BY NatLessThanWellFounded DEF OpToRel
<1>2. IsWellFoundedOn(R, S)
  BY <1>1, IsWellFoundedOnSubset
<1> HIDE DEF R
<1>3. PICK x \in S : \A y \in S : <<y, x>> \notin R
  BY <1>2, WFMin
<1>4. ASSUME NEW y \in S
      PROVE  x <= y
  <2>1. ~(y < x)
    BY <1>3 DEF R
  <2>2. QED
    BY <2>1
<1>5. QED
  BY <1>4 DEF Min

\* A bounded set has a greatest element: its least bound.
LEMMA LastNoType ==
  ASSUME RowsOK, NumbersInv
  PROVE  LastNo \in Nat
<1>1. Used \subseteq Nat
  BY DEF RowsOK
<1>2. CASE Used = {}
  BY <1>2 DEF LastNo
<1>3. CASE Used # {}
  <2> DEFINE Bounds == {t \in Nat : \A n \in Used : n <= t}
             top == Min(Bounds)
  <2>1. Bounds \in SUBSET Nat /\ Bounds # {}
    BY DEF NumbersInv
  <2> HIDE DEF Bounds
  <2>2. top \in Bounds /\ \A t \in Bounds : top <= t
    BY <2>1, LeastNumber
  <2> HIDE DEF top
  <2>4. top \in Nat /\ \A n \in Used : n <= top
    BY <2>2 DEF Bounds
  <2>5. top \in Used
    <3>1. SUFFICES ASSUME top \notin Used
                   PROVE  FALSE
      OBVIOUS
    <3>2. PICK n \in Used : n \in Nat
      BY <1>1, <1>3
    <3>3. n <= top /\ n # top /\ \A j \in Used : j <= top /\ j # top /\ j \in Nat
      BY <1>1, <2>4, <3>1, <3>2
    <3>4. top - 1 \in Nat /\ \A j \in Used : j <= top - 1
      BY <2>4, <3>2, <3>3
    <3>5. top <= top - 1
      BY <2>2, <3>4 DEF Bounds
    <3>6. QED
      BY <2>4, <3>5
  <2>6. \E x \in Used : \A y \in Used : x >= y
    BY <1>1, <2>4, <2>5
  <2>7. Max(Used) \in Used
    BY <2>6 DEF Max
  <2>8. QED
    BY <1>1, <1>3, <2>7 DEF LastNo
<1>4. QED
  BY <1>2, <1>3

-----------------------------------------------------------------------------
(* What the steps leave alone.                                             *)

\* Orders are added and change their status; none goes, none changes its lines, and
\* what is synced stays so.
OrdersKept ==
  /\ order' \in Seq(Order) /\ DOMAIN order \subseteq DOMAIN order'
  /\ \A o \in DOMAIN order :
       order'[o].basket = order[o].basket /\ (order[o].synced => order'[o].synced)
\* And none comes to be synced, or under another number.
MarksKept ==
  \A o \in DOMAIN order' :
    order'[o].synced => /\ o \in DOMAIN order /\ order[o].synced
                        /\ order'[o].receipt = order[o].receipt

LEMMA Ordered ==
  ASSUME RowsOK
  PROVE  /\ DOMAIN order \subseteq Nat \ {0}
         /\ \A o \in DOMAIN order : /\ order[o] \in Order /\ order[o].basket \in Basket
                                     /\ Needed(o) \in Nat /\ Needed(o) > 0
<1>1. order \in Seq(Order)
  BY DEF RowsOK
<1>2. DOMAIN order = 1..Len(order) /\ Len(order) \in Nat
  BY <1>1
<1>3. ASSUME NEW o \in DOMAIN order
      PROVE  /\ order[o] \in Order /\ order[o].basket \in Basket
             /\ Needed(o) \in Nat /\ Needed(o) > 0
  <2>1. order[o] \in Order
    BY <1>1, <1>2
  <2>2. order[o].basket \in Basket
    BY <2>1 DEF Order
  <2>3. order[o].basket \in Seq(Nat \ {0}) /\ order[o].basket # <<>>
    BY <2>2, WebSalesConstantsOK
  <2>4. Len(order[o].basket) \in Nat /\ Len(order[o].basket) # 0
    BY <2>3
  <2>5. Needed(o) \in Nat /\ Needed(o) > 0
    BY <2>4 DEF Needed
  <2>6. QED
    BY <2>1, <2>2, <2>5
<1>4. QED
  BY <1>2, <1>3

\* A new order comes last.
LEMMA Appended ==
  ASSUME RowsOK, NEW c \in {"ONLINE", "COUNTER"}, NEW s \in {"PENDING", "PAID"}, NEW b \in Basket,
         order' = NewOrder(c, s, b)
  PROVE  OrdersKept /\ MarksKept
<1> DEFINE row == [channel |-> c, status |-> s, basket |-> b, synced |-> FALSE, receipt |-> 0]
<1>1. row \in Order /\ row.synced = FALSE
  BY DEF Order
<1>2. order \in Seq(Order) /\ order' = Append(order, row)
  BY DEF RowsOK, NewOrder
<1> HIDE DEF row
<1>3. /\ order' \in Seq(Order) /\ Len(order') = Len(order) + 1 /\ Len(order) \in Nat
      /\ DOMAIN order = 1..Len(order) /\ DOMAIN order' = 1..(Len(order) + 1)
      /\ \A o \in DOMAIN order : order'[o] = order[o]
      /\ order'[Len(order) + 1] = row
  BY <1>1, <1>2
<1>4. \A o \in DOMAIN order' : o \in DOMAIN order \/ o = Len(order) + 1
  BY <1>3
<1>5. QED
  BY <1>1, <1>3, <1>4 DEF OrdersKept, MarksKept

LEMMA StatusSet ==
  ASSUME RowsOK, NEW o \in DOMAIN order, NEW s \in {"FULFILLED", "CANCELLED"},
         order' = [order EXCEPT ![o].status = s]
  PROVE  OrdersKept /\ MarksKept
<1> DEFINE row == [order[o] EXCEPT !.status = s]
<1>1. order \in Seq(Order) /\ order[o] \in Order
  BY Ordered DEF RowsOK
<1>2. /\ row \in Order /\ row.basket = order[o].basket /\ row.synced = order[o].synced
      /\ row.receipt = order[o].receipt
  BY <1>1 DEF Order
<1>3. order' = [order EXCEPT ![o] = row]
  BY <1>1
<1> HIDE DEF row
<1>4. /\ order' \in Seq(Order) /\ DOMAIN order' = DOMAIN order
      /\ order'[o] = row /\ \A p \in DOMAIN order \ {o} : order'[p] = order[p]
  BY <1>1, <1>2, <1>3
<1>5. QED
  BY <1>2, <1>4 DEF OrdersKept, MarksKept

LEMMA MarkSet ==
  ASSUME RowsOK, NEW m \in [order : DOMAIN order, receipt : Nat], SetSynced(m)
  PROVE  /\ OrdersKept /\ DOMAIN order' = DOMAIN order
         /\ order'[m.order].synced /\ order'[m.order].receipt = m.receipt
         /\ \A o \in DOMAIN order \ {m.order} : order'[o] = order[o]
<1> DEFINE row == [order[m.order] EXCEPT !.synced = TRUE, !.receipt = m.receipt]
<1>1. order \in Seq(Order) /\ m.order \in DOMAIN order /\ order[m.order] \in Order /\ m.receipt \in Nat
  BY Ordered DEF RowsOK
<1>2. /\ row \in Order /\ row.basket = order[m.order].basket
      /\ row.synced = TRUE /\ row.receipt = m.receipt
  BY <1>1 DEF Order
<1>3. order' = [order EXCEPT ![m.order] = row]
  BY <1>1 DEF SetSynced
<1> HIDE DEF row
<1>4. /\ order' \in Seq(Order) /\ DOMAIN order' = DOMAIN order
      /\ order'[m.order] = row /\ \A p \in DOMAIN order \ {m.order} : order'[p] = order[p]
  BY <1>1, <1>2, <1>3
<1>5. QED
  BY <1>1, <1>2, <1>4 DEF OrdersKept

-----------------------------------------------------------------------------
(* Requests.                                                               *)

LEMMA RequestSteps ==
  ASSUME RowsOK, SalesInv, NEW r \in Request, Arrive(r) \/ Proceed(r) \/ RequestDies(r)
  PROVE  /\ OrdersKept /\ MarksKept /\ UNCHANGED <<owner, lines, agent, late>>
         /\ req' \in [Request -> Reqs] /\ ReqInv'
         /\ presses' \in 0..MaxPress /\ faults' \in 0..MaxFault
<1>1. /\ order \in Seq(Order) /\ req \in [Request -> Reqs]
      /\ presses \in 0..MaxPress /\ faults \in 0..MaxFault
  BY DEF RowsOK, Reqs
<1>2. DOMAIN order \subseteq Nat /\ \A b \in Basket : b \in Seq(Nat \ {0}) /\ b # <<>>
  BY Ordered, WebSalesConstantsOK
<1>3. UNCHANGED <<owner, lines, agent, late>>
  BY DEF Arrive, CheckOrder, SellAtCounter, ReadForCancel, ReadForProcess, Proceed, CommitOrder,
         TakeLine, CommitCancel, CommitProcess, RequestDies, shopVars
<1>4. presses' \in 0..MaxPress /\ faults' \in 0..MaxFault
  <2>1. MaxPress \in Nat /\ MaxFault \in Nat
    BY WebSalesConstantsOK
  <2>2. presses' = presses \/ (presses < MaxPress /\ presses' = presses + 1)
    BY DEF Arrive, CheckOrder, SellAtCounter, ReadForCancel, ReadForProcess, Proceed, CommitOrder,
           TakeLine, CommitCancel, CommitProcess, RequestDies
  <2>3. faults' = faults \/ (faults < MaxFault /\ faults' = faults + 1)
    BY DEF Arrive, CheckOrder, SellAtCounter, ReadForCancel, ReadForProcess, Proceed, CommitOrder,
           TakeLine, CommitCancel, CommitProcess, RequestDies, Fault
  <2>4. QED
    BY <1>1, <2>1, <2>2, <2>3
<1>5. ASSUME NEW v \in Reqs, req' = [req EXCEPT ![r] = v], OrdersKept,
             v.at = "checked" => v.basket \in Basket,
             v.at = "sold" => v.basket # <<>>,
             v.at \in {"cancelling", "processing"} => v.order \in DOMAIN order
      PROVE  req' \in [Request -> Reqs] /\ ReqInv'
  BY <1>1, <1>5 DEF SalesInv, ReqInv, OrdersKept
<1>6. Idle \in Reqs /\ Idle.at = "idle" /\ Idle.order = 0
  BY DEF Idle, Reqs
<1>7. ASSUME UNCHANGED order
      PROVE  OrdersKept /\ MarksKept
  BY <1>1, <1>7 DEF OrdersKept, MarksKept
<1>8. ASSUME NEW b \in Basket, CheckOrder(r, b) \/ SellAtCounter(r, b)
      PROVE  OrdersKept /\ MarksKept /\ req' \in [Request -> Reqs] /\ ReqInv'
  <2>1. PICK at \in {"checked", "sold"} : req' = [req EXCEPT ![r] = [Idle EXCEPT !.at = at, !.basket = b]]
    BY <1>8 DEF CheckOrder, SellAtCounter
  <2>2. /\ [Idle EXCEPT !.at = at, !.basket = b] \in Reqs
        /\ [Idle EXCEPT !.at = at, !.basket = b].at = at
        /\ [Idle EXCEPT !.at = at, !.basket = b].basket = b
    BY <1>2 DEF Idle, Reqs
  <2>3. OrdersKept /\ MarksKept
    BY <1>7, <1>8, Appended DEF CheckOrder, SellAtCounter
  <2>4. QED
    BY <1>2, <1>5, <2>1, <2>2, <2>3
<1>9. ASSUME CommitOrder(r)
      PROVE  OrdersKept /\ MarksKept /\ req' \in [Request -> Reqs] /\ ReqInv'
  <2>1. req[r].basket \in Basket
    BY <1>9 DEF CommitOrder, SalesInv, ReqInv
  <2>2. OrdersKept /\ MarksKept
    BY <1>9, <2>1, Appended DEF CommitOrder
  <2>3. QED
    BY <1>5, <1>6, <1>9, <2>2 DEF CommitOrder
<1>10. ASSUME TakeLine(r)
       PROVE  OrdersKept /\ MarksKept /\ req' \in [Request -> Reqs] /\ ReqInv'
  <2>1. OrdersKept /\ MarksKept
    BY <1>7, <1>10 DEF TakeLine
  <2>2. req[r].at = "sold" /\ req[r].basket # <<>> /\ req[r] \in Reqs
    BY <1>1, <1>10 DEF TakeLine, SalesInv, ReqInv
  <2>3. req[r].basket \in Seq(Nat \ {0})
    BY <2>2 DEF Reqs
  <2>4. CASE Len(req[r].basket) = 1
    BY <1>5, <1>6, <1>10, <2>1, <2>4 DEF TakeLine
  <2>5. CASE Len(req[r].basket) # 1
    <3>1. Tail(req[r].basket) \in Seq(Nat \ {0}) /\ Tail(req[r].basket) # <<>>
      <4>1. Len(req[r].basket) \in Nat /\ Len(req[r].basket) # 0
        BY <2>2, <2>3
      <4>2. Tail(req[r].basket) \in Seq(Nat \ {0}) /\ Len(Tail(req[r].basket)) = Len(req[r].basket) - 1
        BY <2>2, <2>3
      <4>3. Len(Tail(req[r].basket)) # 0
        BY <2>5, <4>1, <4>2
      <4>4. Len(<<>>) = 0
        OBVIOUS
      <4>5. QED
        BY <4>2, <4>3, <4>4
    <3>2. /\ [req[r] EXCEPT !.basket = Tail(req[r].basket)] \in Reqs
          /\ [req[r] EXCEPT !.basket = Tail(req[r].basket)].at = "sold"
          /\ [req[r] EXCEPT !.basket = Tail(req[r].basket)].basket = Tail(req[r].basket)
      BY <2>2, <3>1 DEF Reqs
    <3>3. req' = [req EXCEPT ![r] = [req[r] EXCEPT !.basket = Tail(req[r].basket)]]
      BY <1>10, <2>5 DEF TakeLine
    <3>4. QED
      BY <1>5, <2>1, <3>1, <3>2, <3>3
  <2>6. QED
    BY <2>1, <2>4, <2>5
<1>11. ASSUME NEW o \in DOMAIN order, ReadForCancel(r, o) \/ ReadForProcess(r, o)
       PROVE  OrdersKept /\ MarksKept /\ req' \in [Request -> Reqs] /\ ReqInv'
  <2>1. OrdersKept /\ MarksKept
    BY <1>7, <1>11 DEF ReadForCancel, ReadForProcess
  <2>2. PICK at \in {"cancelling", "processing"} : req' = [req EXCEPT ![r] = [Idle EXCEPT !.at = at, !.order = o]]
    BY <1>11 DEF ReadForCancel, ReadForProcess
  <2>3. /\ [Idle EXCEPT !.at = at, !.order = o] \in Reqs
        /\ [Idle EXCEPT !.at = at, !.order = o].at = at
        /\ [Idle EXCEPT !.at = at, !.order = o].order = o
    <3>1. o \in Nat
      BY <1>2
    <3>2. QED
      BY <1>6, <3>1 DEF Reqs
  <2>4. QED
    BY <1>5, <2>1, <2>2, <2>3
<1>12. ASSUME CommitCancel(r) \/ CommitProcess(r)
       PROVE  OrdersKept /\ MarksKept /\ req' \in [Request -> Reqs] /\ ReqInv'
  <2>1. req[r].order \in DOMAIN order
    BY <1>12 DEF CommitCancel, CommitProcess, SalesInv, ReqInv
  <2>2. PICK s \in {"FULFILLED", "CANCELLED"} : order' = [order EXCEPT ![req[r].order].status = s]
    BY <1>12 DEF CommitCancel, CommitProcess
  <2>3. OrdersKept /\ MarksKept
    BY <2>1, <2>2, StatusSet
  <2>4. QED
    BY <1>5, <1>6, <1>12, <2>3 DEF CommitCancel, CommitProcess
<1>13. ASSUME RequestDies(r)
       PROVE  OrdersKept /\ MarksKept /\ req' \in [Request -> Reqs] /\ ReqInv'
  <2>1. OrdersKept /\ MarksKept
    BY <1>7, <1>13 DEF RequestDies
  <2>2. QED
    BY <1>5, <1>6, <1>13, <2>1 DEF RequestDies
<1>14. QED
  BY <1>3, <1>4, <1>8, <1>9, <1>10, <1>11, <1>12, <1>13 DEF Arrive, Proceed

-----------------------------------------------------------------------------
(* Runs of the agent.                                                      *)

LEMMA SaleFacts ==
  ASSUME RowsOK, AgentInv, NEW a \in Agent, agent[a].at # "idle"
  PROVE  Sale(a) \in agent[a].todo /\ Sale(a) \in DOMAIN order /\ No(a) \in Nat \ {0}
<1>1. agent[a] \in Agents
  BY DEF RowsOK, Agents
<1>2. agent[a].todo \subseteq DOMAIN order /\ agent[a].todo # {} /\ No(a) \in Nat /\ No(a) > 0
  BY <1>1 DEF Agents, AgentInv, No
<1>3. agent[a].todo \in SUBSET Nat
  BY <1>2, Ordered
<1>4. QED
  BY <1>2, <1>3, LeastNumber DEF Sale

\* What is written stays written.
LEMMA WholeKept ==
  ASSUME RowsOK, OrdersKept, NEW n, NEW o \in DOMAIN order, Whole(n, o),
         n \in Used', owner'[n] = owner[n], lines'[n] = lines[n]
  PROVE  Whole(n, o)'
  BY DEF Whole, Needed, OrdersKept

LEMMA BooksKept ==
  ASSUME RowsOK, BooksInv, OrdersKept, MarksKept, late' \subseteq late,
         \A n \in Used, o \in DOMAIN order : Whole(n, o) =>
            n \in Used' /\ owner'[n] = owner[n] /\ lines'[n] = lines[n]
  PROVE  BooksInv'
<1>1. late \subseteq [order : DOMAIN order, receipt : Nat]
  BY DEF RowsOK
<1>2. ASSUME NEW n, NEW o \in DOMAIN order, Whole(n, o)
      PROVE  Whole(n, o)'
  BY <1>2, WholeKept DEF Whole
<1>3. ASSUME NEW m \in late'
      PROVE  Whole(m.receipt, m.order)'
  <2>1. m.order \in DOMAIN order /\ Whole(m.receipt, m.order)
    BY <1>1 DEF BooksInv
  <2>2. QED
    BY <1>2, <2>1
<1>4. ASSUME NEW o \in DOMAIN order', order'[o].synced
      PROVE  Whole(order[o].receipt, o)'
  <2>1. o \in DOMAIN order /\ order[o].synced /\ order'[o].receipt = order[o].receipt
    BY <1>4 DEF MarksKept
  <2>2. PICK n : n = order[o].receipt
    OBVIOUS
  <2>3. Whole(n, o)
    BY <2>1, <2>2 DEF BooksInv, SyncedMeansWritten
  <2>4. Whole(n, o)'
    BY <1>2, <2>1, <2>3
  <2>5. QED
    BY <2>1, <2>2, <2>4 DEF Whole, Needed
<1>5. QED
  BY <1>3, <1>4 DEF BooksInv, SyncedMeansWritten

\* A run that turns to another sale, or stops, leaves the others as they were.
LEMMA AgentMoves ==
  ASSUME RowsOK, AgentInv, OrdersKept, UNCHANGED <<owner, lines>>,
         NEW a \in Agent, NEW v \in Agents, agent' = [agent EXCEPT ![a] = v],
         v.at = "idle" \/ (v.at = "header" /\ v.todo # {} /\ v.next > 0)
  PROVE  AgentInv'
<1>1. agent \in [Agent -> Agents]
  BY DEF RowsOK, Agents
<1>2. agent'[a] = v /\ \A b \in Agent \ {a} : agent'[b] = agent[b]
  BY <1>1
<1>3. ~Writing(a)' /\ \A b \in Agent : Writing(b)' => b # a
  BY <1>2 DEF Writing
<1>4. ASSUME NEW b \in Agent \ {a}
      PROVE  /\ agent'[b].at = agent[b].at /\ Writing(b)' = Writing(b) /\ No(b)' = No(b) /\ Sale(b)' = Sale(b)
             /\ Writing(b) => Needed(Sale(b))' = Needed(Sale(b))
  <2>1. agent'[b].at = agent[b].at /\ Writing(b)' = Writing(b) /\ No(b)' = No(b) /\ Sale(b)' = Sale(b)
    BY <1>2 DEF Writing, No, Sale
  <2>2. ASSUME Writing(b)
        PROVE  Needed(Sale(b))' = Needed(Sale(b))
    <3>1. Sale(b) \in DOMAIN order
      BY <2>2, SaleFacts DEF Writing
    <3>2. QED
      BY <2>1, <3>1 DEF Needed, OrdersKept
  <2>3. QED
    BY <2>1, <2>2
<1>5. \A b \in Agent : agent'[b].at # "idle" => agent'[b].todo # {} /\ No(b)' > 0
  BY <1>2 DEF AgentInv, No
<1>6. \A b \in Agent : Writing(b)' =>
       /\ No(b)' \in Used' /\ owner'[No(b)'] = Sale(b)'
       /\ IF agent'[b].at = "mark" THEN lines'[No(b)'] = Needed(Sale(b))' ELSE lines'[No(b)'] < Needed(Sale(b))'
  BY <1>3, <1>4 DEF AgentInv, Used
<1>7. \A b, c \in Agent : Writing(b)' /\ Writing(c)' /\ No(b)' = No(c)' => b = c
  BY <1>3, <1>4 DEF AgentInv
<1>8. QED
  BY <1>5, <1>6, <1>7 DEF AgentInv

\* On to the next sale, or to an end.
LEMMA NextSaleFacts ==
  ASSUME RowsOK, AgentInv, NEW a \in Agent, agent[a].at # "idle", NextSale(a)
  PROVE  \E v \in Agents : /\ agent' = [agent EXCEPT ![a] = v]
                           /\ v.at = "idle" \/ (v.at = "header" /\ v.todo # {} /\ v.next > 0)
<1> DEFINE rest == agent[a].todo \ {Sale(a)}
<1>1. agent[a] \in Agents /\ No(a) \in Nat
  BY SaleFacts DEF RowsOK, Agents
<1>2. rest \in SUBSET DOMAIN order
  BY <1>1 DEF Agents
<1>3. CASE rest = {}
  <2>1. Done \in Agents /\ Done.at = "idle"
    BY DEF Done, Agents
  <2>2. QED
    BY <1>3, <2>1 DEF NextSale
<1>4. CASE rest # {}
  <2> DEFINE v == [at |-> "header", todo |-> rest, next |-> No(a) + 1]
  <2>1. agent' = [agent EXCEPT ![a] = v]
    BY <1>4 DEF NextSale
  <2>2. v \in Agents
    BY <1>1, <1>2 DEF Agents
  <2>3. v.at = "header" /\ v.todo # {} /\ v.next > 0
    BY <1>1, <1>4
  <2>4. QED
    BY <2>1, <2>2, <2>3
<1>5. QED
  BY <1>3, <1>4

-----------------------------------------------------------------------------
(* Steps.                                                                  *)

Good == RowsOK /\ NumbersInv /\ SalesInv

LEMMA RowsKept ==
  ASSUME RowsOK, OrdersKept, req' \in [Request -> Reqs],
         presses' \in 0..MaxPress, faults' \in 0..MaxFault,
         Used' \subseteq Nat \ {0}, owner' \in [Used' -> DOMAIN order], lines' \in [Used' -> Nat],
         agent' \in [Agent -> Agents], late' \subseteq [order : DOMAIN order, receipt : Nat]
  PROVE  RowsOK'
<1>1. order' \in Seq(Order) /\ DOMAIN order \subseteq DOMAIN order'
  BY DEF OrdersKept
<1>2. owner' \in [Used' -> DOMAIN order']
  BY <1>1
<1>3. late' \subseteq [order : DOMAIN order', receipt : Nat]
  BY <1>1
<1>4. agent' \in [Agent -> [at : {"idle", "header", "lines", "mark"}, todo : SUBSET DOMAIN order', next : Nat]]
  <2>1. \A v \in Agents : v \in [at : {"idle", "header", "lines", "mark"}, todo : SUBSET DOMAIN order', next : Nat]
    BY <1>1 DEF Agents
  <2>2. QED
    BY <2>1
<1>5. QED
  BY <1>1, <1>2, <1>3, <1>4 DEF RowsOK, Reqs

LEMMA Unpacked ==
  ASSUME Good
  PROVE  /\ RowsOK /\ NumbersInv /\ ReqInv /\ AgentInv /\ BooksInv
         /\ req \in [Request -> Reqs] /\ agent \in [Agent -> Agents]
         /\ presses \in 0..MaxPress /\ faults \in 0..MaxFault
         /\ Used \subseteq Nat \ {0} /\ owner \in [Used -> DOMAIN order] /\ lines \in [Used -> Nat]
         /\ late \subseteq [order : DOMAIN order, receipt : Nat]
  BY DEF Good, SalesInv, RowsOK, Reqs, Agents

LEMMA AddedFacts ==
  ASSUME NEW S, NEW V, NEW f \in [S -> V], NEW n, n \notin S, NEW v \in V
  PROVE  /\ Added(f, n, v) \in [S \cup {n} -> V]
         /\ DOMAIN Added(f, n, v) = S \cup {n}
         /\ Added(f, n, v)[n] = v /\ \A x \in S : Added(f, n, v)[x] = f[x]
  BY DEF Added

LEMMA Faulty ==
  ASSUME Good, Fault
  PROVE  faults' \in 0..MaxFault
  BY WebSalesConstantsOK DEF Good, RowsOK, Fault

\* A run turns to another sale or stops, while the books stay as they are.
LEMMA TurnsAway ==
  ASSUME Good, NEW a \in Agent, NEW v \in Agents, agent' = [agent EXCEPT ![a] = v],
         v.at = "idle" \/ (v.at = "header" /\ v.todo # {} /\ v.next > 0),
         UNCHANGED <<owner, lines, req, presses>>, faults' \in 0..MaxFault,
         OrdersKept, BooksInv', late' \subseteq [order : DOMAIN order, receipt : Nat]
  PROVE  Good'
<1>1. agent' \in [Agent -> Agents]
  BY Unpacked
<1>2. RowsOK'
  BY <1>1, Unpacked, RowsKept DEF Used
<1>3. AgentInv'
  BY Unpacked, AgentMoves
<1>4. ReqInv' /\ NumbersInv'
  BY Unpacked DEF ReqInv, OrdersKept, NumbersInv, Used
<1>5. QED
  BY <1>2, <1>3, <1>4 DEF Good, SalesInv

LEMMA RequestGood ==
  ASSUME Good, NEW r \in Request, Arrive(r) \/ Proceed(r) \/ RequestDies(r)
  PROVE  Good'
<1>1. /\ OrdersKept /\ MarksKept /\ UNCHANGED <<owner, lines, agent, late>>
      /\ req' \in [Request -> Reqs] /\ ReqInv'
      /\ presses' \in 0..MaxPress /\ faults' \in 0..MaxFault
  BY RequestSteps DEF Good
<1>2. RowsOK'
  BY <1>1, Unpacked, RowsKept DEF Used
<1>3. BooksInv'
  BY <1>1, Unpacked, BooksKept DEF Used
<1>4. AgentInv'
  <2>1. ASSUME NEW b \in Agent, Writing(b)
        PROVE  Needed(Sale(b))' = Needed(Sale(b))
    <3>1. Sale(b) \in DOMAIN order
      BY <2>1, Unpacked, SaleFacts DEF Writing
    <3>2. QED
      BY <1>1, <3>1 DEF Needed, OrdersKept, Sale
  <2>2. \A b \in Agent : Writing(b)' = Writing(b) /\ No(b)' = No(b) /\ Sale(b)' = Sale(b)
    BY <1>1 DEF Writing, No, Sale
  <2>3. QED
    BY <1>1, <2>1, <2>2, Unpacked DEF AgentInv, Used
<1>5. NumbersInv'
  BY <1>1, Unpacked DEF NumbersInv, Used
<1>6. QED
  BY <1>1, <1>2, <1>3, <1>4, <1>5 DEF Good, SalesInv

LEMMA SameOrders ==
  ASSUME Good, UNCHANGED order
  PROVE  OrdersKept /\ MarksKept
  BY DEF Good, RowsOK, OrdersKept, MarksKept

LEMMA FetchGood ==
  ASSUME Good, NEW a \in Agent, Fetch(a)
  PROVE  Good'
<1> DEFINE v == [at |-> "header", todo |-> Oldest, next |-> LastNo + 1]
<1>1. agent' = [agent EXCEPT ![a] = v] /\ UNCHANGED <<order, req, owner, lines, late, presses>>
  BY DEF Fetch, webVars, shopVars
<1>2. Oldest # {} /\ Oldest \subseteq DOMAIN order
  BY DEF Fetch, Oldest, Unsynced
<1>3. LastNo \in Nat
  BY LastNoType DEF Good
<1>4. v \in Agents /\ v.at = "header" /\ v.todo # {} /\ v.next > 0
  BY <1>2, <1>3 DEF Agents
<1>5. faults' \in 0..MaxFault
  <2>1. faults' = faults \/ Fault
    BY DEF Fetch
  <2>2. QED
    BY <2>1, Unpacked, Faulty
<1>6. OrdersKept /\ BooksInv'
  BY <1>1, SameOrders, Unpacked, BooksKept DEF Used
<1> HIDE DEF v
<1>7. QED
  BY <1>1, <1>4, <1>5, <1>6, Unpacked, TurnsAway

\* A header takes a number nobody has.
LEMMA HeaderGood ==
  ASSUME Good, NEW a \in Agent, WriteHeader(a)
  PROVE  Good'
<1>1. agent[a].at = "header" /\ UNCHANGED <<order, stock, req, late, presses, faults>>
  BY DEF WriteHeader, webVars
<1>2. Sale(a) \in DOMAIN order /\ No(a) \in Nat \ {0}
  BY <1>1, Unpacked, SaleFacts
<1>3. OrdersKept /\ MarksKept
  BY <1>1, SameOrders
<1>4. CASE No(a) \in Used
  <2>1. NextSale(a) /\ UNCHANGED <<owner, lines>>
    BY <1>4 DEF WriteHeader, shopVars
  <2>2. PICK v \in Agents : /\ agent' = [agent EXCEPT ![a] = v]
                            /\ v.at = "idle" \/ (v.at = "header" /\ v.todo # {} /\ v.next > 0)
    BY <1>1, <2>1, Unpacked, NextSaleFacts
  <2>3. BooksInv'
    BY <1>1, <1>3, <2>1, Unpacked, BooksKept DEF Used
  <2>4. QED
    BY <1>1, <1>3, <2>1, <2>2, <2>3, Unpacked, TurnsAway
<1>5. CASE No(a) \notin Used
  <2>1. /\ owner' = Added(owner, No(a), Sale(a)) /\ lines' = Added(lines, No(a), 0)
        /\ agent' = [agent EXCEPT ![a].at = "lines"]
    BY <1>5 DEF WriteHeader
  <2>2. /\ Used' = Used \cup {No(a)} /\ DOMAIN lines' = Used \cup {No(a)}
        /\ owner'[No(a)] = Sale(a) /\ lines'[No(a)] = 0
        /\ \A n \in Used : owner'[n] = owner[n] /\ lines'[n] = lines[n]
    <3> DEFINE n == No(a)
               o == Sale(a)
    <3>1. owner \in [Used -> DOMAIN order] /\ lines \in [Used -> Nat] /\ o \in DOMAIN order /\ n \notin Used
          /\ owner' = Added(owner, n, o) /\ lines' = Added(lines, n, 0) /\ 0 \in Nat
      BY <1>2, <1>5, <2>1, Unpacked
    <3> HIDE DEF n, o
    <3>2. /\ DOMAIN owner' = Used \cup {n} /\ owner'[n] = o
          /\ \A k \in Used : owner'[k] = owner[k]
      BY <3>1 DEF Added, Used
    <3>3. /\ DOMAIN lines' = Used \cup {n} /\ lines'[n] = 0
          /\ \A k \in Used : lines'[k] = lines[k]
      BY <3>1 DEF Added, Used
    <3>4. QED
      BY <3>2, <3>3 DEF Used, n, o
  <2>3. /\ owner' \in [Used' -> DOMAIN order] /\ lines' \in [Used' -> Nat]
        /\ Used' \subseteq Nat \ {0}
    <3>1. owner' \in [Used \cup {No(a)} -> DOMAIN order]
      BY <1>2, <1>5, <2>1, Unpacked, AddedFacts
    <3>2. lines' \in [Used \cup {No(a)} -> Nat]
      BY <1>5, <2>1, Unpacked, AddedFacts
    <3>3. QED
      BY <1>2, <2>2, <3>1, <3>2, Unpacked
  <2>4. /\ agent' \in [Agent -> Agents] /\ agent'[a].at = "lines"
        /\ agent'[a].todo = agent[a].todo /\ agent'[a].next = agent[a].next
        /\ \A b \in Agent \ {a} : agent'[b] = agent[b]
    <3>1. agent[a] \in Agents /\ agent' = [agent EXCEPT ![a] = [agent[a] EXCEPT !.at = "lines"]]
      BY <2>1, Unpacked
    <3>2. /\ [agent[a] EXCEPT !.at = "lines"] \in Agents
          /\ [agent[a] EXCEPT !.at = "lines"].at = "lines"
          /\ [agent[a] EXCEPT !.at = "lines"].todo = agent[a].todo
          /\ [agent[a] EXCEPT !.at = "lines"].next = agent[a].next
      BY <3>1 DEF Agents
    <3>3. QED
      BY <3>1, <3>2, Unpacked
  <2>5. RowsOK'
    BY <1>1, <1>3, <2>3, <2>4, Unpacked, RowsKept
  <2>6. NumbersInv'
    <3>1. PICK top \in Nat : \A n \in Used : n <= top
      BY Unpacked DEF NumbersInv
    <3>2. top + No(a) \in Nat /\ \A n \in Used' : n <= top + No(a)
      BY <1>2, <2>2, <3>1, Unpacked
    <3>3. QED
      BY <3>2 DEF NumbersInv
  <2>7. BooksInv'
    BY <1>1, <1>3, <2>2, Unpacked, BooksKept
  <2>8. ReqInv'
    BY <1>1, Unpacked DEF ReqInv
  <2>9. AgentInv'
    <3>1. \A b \in Agent : No(b)' = No(b) /\ Sale(b)' = Sale(b)
      BY <2>4 DEF No, Sale
    <3>2. \A b \in Agent \ {a} : Writing(b)' = Writing(b) /\ agent'[b].at = agent[b].at
      BY <2>4 DEF Writing
    <3>3. \A o : Needed(o)' = Needed(o)
      BY <1>1 DEF Needed
    <3>4. \A b \in Agent \ {a} : Writing(b) => No(b) \in Used /\ No(b) # No(a)
      BY <1>5, Unpacked DEF AgentInv
    <3>5. No(a) \in Used' /\ owner'[No(a)] = Sale(a) /\ lines'[No(a)] < Needed(Sale(a))
      BY <1>2, <2>2, Unpacked, Ordered
    <3>6. \A b \in Agent : agent'[b].at # "idle" => agent'[b].todo # {} /\ No(b)' > 0
      BY <1>1, <2>4, <3>1, Unpacked DEF AgentInv
    <3>7. \A b \in Agent : Writing(b)' =>
       /\ No(b)' \in Used' /\ owner'[No(b)'] = Sale(b)'
       /\ IF agent'[b].at = "mark" THEN lines'[No(b)'] = Needed(Sale(b)') ELSE lines'[No(b)'] < Needed(Sale(b)')
      BY <2>2, <2>4, <3>1, <3>2, <3>4, <3>5, Unpacked DEF AgentInv
    <3>8. \A b, c \in Agent : Writing(b)' /\ Writing(c)' /\ No(b)' = No(c)' => b = c
      BY <3>1, <3>2, <3>4, Unpacked DEF AgentInv
    <3>9. QED
      BY <1>1, <3>3, <3>6, <3>7, <3>8 DEF AgentInv, Needed
  <2>10. QED
    BY <2>5, <2>6, <2>7, <2>8, <2>9 DEF Good, SalesInv
<1>6. QED
  BY <1>4, <1>5

\* A line is written under the number at hand, of which nothing was reported yet.
LEMMA LineGood ==
  ASSUME Good, NEW a \in Agent, WriteLine(a)
  PROVE  Good'
<1> DEFINE n == No(a)
<1>1. agent[a].at = "lines" /\ Writing(a) /\ UNCHANGED <<order, stock, req, owner, late, presses, faults>>
  BY DEF WriteLine, webVars, Writing
<1>2. Sale(a) \in DOMAIN order /\ n \in Nat \ {0}
  BY <1>1, Unpacked, SaleFacts
<1>3. OrdersKept /\ MarksKept
  BY <1>1, SameOrders
<1>4. n \in Used /\ owner[n] = Sale(a) /\ lines[n] < Needed(Sale(a)) /\ Needed(Sale(a)) \in Nat /\ lines[n] \in Nat
  BY <1>1, <1>2, Unpacked, Ordered DEF AgentInv
<1>5. /\ lines' = [lines EXCEPT ![n] = lines[n] + 1]
      /\ agent' = [agent EXCEPT ![a].at = IF lines'[n] = Needed(Sale(a)) THEN "mark" ELSE "lines"]
  BY DEF WriteLine
<1>6. lines' \in [Used -> Nat] /\ lines'[n] = lines[n] + 1 /\ \A k \in Used \ {n} : lines'[k] = lines[k]
  BY <1>4, <1>5, Unpacked
<1>7. /\ agent' \in [Agent -> Agents]
      /\ agent'[a].at = IF lines'[n] = Needed(Sale(a)) THEN "mark" ELSE "lines"
      /\ agent'[a].todo = agent[a].todo /\ agent'[a].next = agent[a].next
      /\ \A b \in Agent \ {a} : agent'[b] = agent[b]
  <2>1. PICK at \in {"mark", "lines"} :
          /\ agent' = [agent EXCEPT ![a] = [agent[a] EXCEPT !.at = at]]
          /\ at = IF lines'[n] = Needed(Sale(a)) THEN "mark" ELSE "lines"
    BY <1>5, Unpacked
  <2>2. /\ agent[a] \in Agents /\ [agent[a] EXCEPT !.at = at] \in Agents
        /\ [agent[a] EXCEPT !.at = at].at = at
        /\ [agent[a] EXCEPT !.at = at].todo = agent[a].todo
        /\ [agent[a] EXCEPT !.at = at].next = agent[a].next
    BY Unpacked DEF Agents
  <2>3. QED
    BY <2>1, <2>2, Unpacked
<1>8. RowsOK'
  BY <1>1, <1>3, <1>6, <1>7, Unpacked, RowsKept DEF Used
<1>9. NumbersInv' /\ ReqInv'
  BY <1>1, Unpacked DEF NumbersInv, ReqInv, Used
<1>10. BooksInv'
  <2>1. ASSUME NEW k \in Used, NEW o \in DOMAIN order, Whole(k, o)
        PROVE  k \in Used' /\ owner'[k] = owner[k] /\ lines'[k] = lines[k]
    <3>1. k # n
      BY <1>4, <2>1 DEF Whole
    <3>2. QED
      BY <1>1, <1>6, <3>1 DEF Used
  <2>2. QED
    BY <1>1, <1>3, <2>1, Unpacked, BooksKept
<1>11. AgentInv'
  <2>1. \A b \in Agent : No(b)' = No(b) /\ Sale(b)' = Sale(b)
    BY <1>7 DEF No, Sale
  <2>2. \A b \in Agent : Writing(b)' = Writing(b)
    BY <1>1, <1>7 DEF Writing
  <2>3. \A b \in Agent \ {a} : Writing(b) => No(b) \in Used /\ No(b) # n
    BY <1>1, Unpacked DEF AgentInv
  <2>4. IF agent'[a].at = "mark" THEN lines'[n] = Needed(Sale(a)) ELSE lines'[n] < Needed(Sale(a))
    BY <1>4, <1>6, <1>7
  <2>5. \A b \in Agent : agent'[b].at # "idle" => agent'[b].todo # {} /\ No(b)' > 0
    BY <1>1, <1>7, <2>1, Unpacked DEF AgentInv
  <2>6. \A b \in Agent : Writing(b)' =>
       /\ No(b)' \in Used' /\ owner'[No(b)'] = Sale(b)'
       /\ IF agent'[b].at = "mark" THEN lines'[No(b)'] = Needed(Sale(b)') ELSE lines'[No(b)'] < Needed(Sale(b)')
    <3>1. ASSUME NEW b \in Agent \ {a}, Writing(b)
          PROVE  /\ No(b) \in Used' /\ owner'[No(b)] = Sale(b)
                 /\ IF agent'[b].at = "mark" THEN lines'[No(b)] = Needed(Sale(b)) ELSE lines'[No(b)] < Needed(Sale(b))
      BY <1>1, <1>6, <1>7, <2>3, <3>1, Unpacked DEF AgentInv, Used
    <3>2. n \in Used' /\ owner'[n] = Sale(a)
      BY <1>1, <1>4 DEF Used
    <3>3. QED
      BY <2>1, <2>2, <2>4, <3>1, <3>2
  <2>7. \A b, c \in Agent : Writing(b)' /\ Writing(c)' /\ No(b)' = No(c)' => b = c
    BY <2>1, <2>2, Unpacked DEF AgentInv
  <2>8. QED
    BY <1>1, <2>5, <2>6, <2>7 DEF AgentInv, Needed
<1>12. QED
  BY <1>8, <1>9, <1>10, <1>11 DEF Good, SalesInv

\* What is marked synced is written whole, whoever reports it and when.
LEMMA MarkedBooks ==
  ASSUME Good, NEW m \in [order : DOMAIN order, receipt : Nat], Whole(m.receipt, m.order), SetSynced(m),
         UNCHANGED <<owner, lines>>, late' \subseteq late
  PROVE  OrdersKept /\ BooksInv'
<1>1. /\ OrdersKept /\ DOMAIN order' = DOMAIN order
      /\ order'[m.order].synced /\ order'[m.order].receipt = m.receipt
      /\ \A o \in DOMAIN order \ {m.order} : order'[o] = order[o]
  BY Unpacked, MarkSet
<1>2. ASSUME NEW n, NEW o \in DOMAIN order, Whole(n, o)
      PROVE  Whole(n, o)'
  BY <1>1, <1>2, Unpacked, WholeKept DEF Whole, Used
<1>3. ASSUME NEW l \in late'
      PROVE  Whole(l.receipt, l.order)'
  <2>1. l.order \in DOMAIN order /\ Whole(l.receipt, l.order)
    BY Unpacked DEF BooksInv
  <2>2. QED
    BY <1>2, <2>1
<1>4. ASSUME NEW o \in DOMAIN order', order'[o].synced
      PROVE  Whole(order[o].receipt, o)'
  <2>1. PICK n : n = order'[o].receipt
    OBVIOUS
  <2>2. o \in DOMAIN order /\ Whole(n, o)
    <3>1. CASE o = m.order
      BY <1>1, <2>1, <3>1
    <3>2. CASE o # m.order
      BY <1>1, <1>4, <2>1, <3>2, Unpacked DEF BooksInv, SyncedMeansWritten
    <3>3. QED
      BY <3>1, <3>2
  <2>3. Whole(n, o)'
    BY <1>2, <2>2
  <2>4. QED
    BY <2>1, <2>3 DEF Whole, Needed
<1>5. QED
  BY <1>1, <1>3, <1>4 DEF BooksInv, SyncedMeansWritten

LEMMA ThisMarkFacts ==
  ASSUME Good, NEW a \in Agent, agent[a].at = "mark"
  PROVE  /\ ThisMark(a) \in [order : DOMAIN order, receipt : Nat]
         /\ Whole(ThisMark(a).receipt, ThisMark(a).order)
<1>1. Sale(a) \in DOMAIN order /\ No(a) \in Nat
  BY Unpacked, SaleFacts
<1>2. No(a) \in Used /\ owner[No(a)] = Sale(a) /\ lines[No(a)] = Needed(Sale(a))
  BY Unpacked DEF AgentInv, Writing
<1>3. QED
  BY <1>1, <1>2 DEF ThisMark, Whole

LEMMA MarkGood ==
  ASSUME Good, NEW a \in Agent, MarkSynced(a) \/ MarkFails(a)
  PROVE  Good'
<1>1. agent[a].at = "mark" /\ NextSale(a) /\ UNCHANGED <<req, owner, lines, presses>>
  BY DEF MarkSynced, MarkFails, shopVars
<1>2. faults' \in 0..MaxFault
  BY Unpacked, Faulty DEF MarkSynced, MarkFails
<1>3. PICK v \in Agents : /\ agent' = [agent EXCEPT ![a] = v]
                          /\ v.at = "idle" \/ (v.at = "header" /\ v.todo # {} /\ v.next > 0)
  BY <1>1, Unpacked, NextSaleFacts
<1>4. /\ ThisMark(a) \in [order : DOMAIN order, receipt : Nat]
      /\ Whole(ThisMark(a).receipt, ThisMark(a).order)
  BY <1>1, ThisMarkFacts
<1>5. OrdersKept /\ BooksInv' /\ late' \subseteq [order : DOMAIN order, receipt : Nat]
  <2>1. CASE SetSynced(ThisMark(a)) /\ UNCHANGED late
    BY <1>1, <1>4, <2>1, Unpacked, MarkedBooks
  <2>2. CASE UNCHANGED <<order, late>>
    <3>1. OrdersKept /\ MarksKept
      BY <2>2, SameOrders
    <3>2. QED
      BY <1>1, <2>2, <3>1, Unpacked, BooksKept DEF Used
  <2>3. CASE late' = late \cup {ThisMark(a)} /\ UNCHANGED order
    <3>1. OrdersKept /\ MarksKept
      BY <2>3, SameOrders
    <3>2. late' \subseteq [order : DOMAIN order, receipt : Nat]
      BY <1>4, <2>3, Unpacked
    <3>3. \A n, o : Whole(n, o)' = Whole(n, o)
      BY <1>1, <2>3 DEF Whole, Needed, Used
    <3>4. BooksInv'
      <4>1. \A m \in late' : Whole(m.receipt, m.order)'
        <5>1. \A m \in late' : Whole(m.receipt, m.order)
          BY <1>4, <2>3, Unpacked DEF BooksInv
        <5>2. QED
          BY <3>3, <5>1
      <4>2. SyncedMeansWritten'
        <5>1. SyncedMeansWritten
          BY Unpacked DEF BooksInv
        <5>2. QED
          BY <1>1, <2>3, <5>1 DEF SyncedMeansWritten, Whole, Needed, Used
      <4>3. QED
        BY <4>1, <4>2 DEF BooksInv
    <3>5. QED
      BY <3>1, <3>2, <3>4
  <2>4. QED
    BY <2>1, <2>2, <2>3 DEF MarkSynced, MarkFails
<1>6. QED
  BY <1>1, <1>2, <1>3, <1>5, TurnsAway

LEMMA SaleFailsGood ==
  ASSUME Good, NEW a \in Agent, SaleFails(a) \/ AgentDies(a)
  PROVE  Good'
<1>1. agent[a].at # "idle" /\ UNCHANGED <<order, req, owner, lines, late, presses>>
  BY DEF SaleFails, AgentDies, webVars, shopVars
<1>2. faults' \in 0..MaxFault
  BY Faulty DEF SaleFails, AgentDies
<1>3. PICK v \in Agents : /\ agent' = [agent EXCEPT ![a] = v]
                          /\ v.at = "idle" \/ (v.at = "header" /\ v.todo # {} /\ v.next > 0)
  <2>1. Done \in Agents /\ Done.at = "idle"
    BY DEF Done, Agents
  <2>2. CASE SaleFails(a)
    BY <1>1, <2>2, Unpacked, NextSaleFacts DEF SaleFails
  <2>3. CASE AgentDies(a)
    BY <2>1, <2>3 DEF AgentDies
  <2>4. QED
    BY <2>2, <2>3
<1>4. OrdersKept /\ BooksInv'
  BY <1>1, SameOrders, Unpacked, BooksKept DEF Used
<1>5. QED
  BY <1>1, <1>2, <1>3, <1>4, Unpacked, TurnsAway

LEMMA LateMarkGood ==
  ASSUME Good, NEW m \in late, LateMark(m)
  PROVE  Good'
<1>1. UNCHANGED <<req, owner, lines, agent, presses, faults>> /\ late' \subseteq late /\ SetSynced(m)
  BY DEF LateMark, shopVars
<1>2. m \in [order : DOMAIN order, receipt : Nat] /\ Whole(m.receipt, m.order)
  BY Unpacked DEF BooksInv
<1>3. OrdersKept /\ BooksInv'
  BY <1>1, <1>2, MarkedBooks
<1>4. RowsOK'
  BY <1>1, <1>3, Unpacked, RowsKept DEF Used
<1>5. ReqInv' /\ NumbersInv'
  BY <1>1, <1>3, Unpacked DEF ReqInv, OrdersKept, NumbersInv, Used
<1>6. AgentInv'
  <2>1. ASSUME NEW b \in Agent, Writing(b)
        PROVE  Needed(Sale(b))' = Needed(Sale(b))
    <3>1. Sale(b) \in DOMAIN order
      BY <2>1, Unpacked, SaleFacts DEF Writing
    <3>2. QED
      BY <1>1, <1>3, <3>1 DEF Needed, OrdersKept, Sale
  <2>2. \A b \in Agent : Writing(b)' = Writing(b) /\ No(b)' = No(b) /\ Sale(b)' = Sale(b)
    BY <1>1 DEF Writing, No, Sale
  <2>3. QED
    BY <1>1, <2>1, <2>2, Unpacked DEF AgentInv, Used
<1>7. QED
  BY <1>3, <1>4, <1>5, <1>6 DEF Good, SalesInv

-----------------------------------------------------------------------------
(* What is written, and where.                                             *)

LEMMA GoodInit == Init => Good
<1> SUFFICES ASSUME Init
             PROVE  Good
  OBVIOUS
<1>1. MaxPress \in Nat /\ MaxFault \in Nat
  BY WebSalesConstantsOK
<1>2. /\ order = <<>> /\ DOMAIN order = {} /\ Used = {} /\ late = {}
      /\ \A a \in Agent : agent[a] = Done
      /\ \A r \in Request : req[r] = Idle
  BY DEF Init, Used
<1>3. req \in [Request -> Reqs] /\ agent \in [Agent -> Agents]
  <2>1. Idle \in Reqs /\ Done \in Agents
    BY DEF Idle, Reqs, Done, Agents
  <2>2. QED
    BY <2>1 DEF Init
<1>4. owner \in [Used -> DOMAIN order] /\ lines \in [Used -> Nat]
  <2>1. owner = <<>> /\ lines = <<>>
    BY DEF Init
  <2>2. QED
    BY <1>2, <2>1 DEF Used
<1>5. RowsOK
  BY <1>1, <1>2, <1>3, <1>4 DEF RowsOK, Reqs, Agents, Init
<1>6. SalesInv
  BY <1>2 DEF SalesInv, ReqInv, AgentInv, BooksInv, SyncedMeansWritten, Writing, Idle, Done
<1>7. NumbersInv
  BY <1>2 DEF NumbersInv
<1>8. QED
  BY <1>5, <1>6, <1>7 DEF Good

LEMMA GoodNext == Good /\ [Next]_vars => Good'
<1> SUFFICES ASSUME Good, [Next]_vars
             PROVE  Good'
  OBVIOUS
<1>1. CASE Next
  BY <1>1, RequestGood, FetchGood, HeaderGood, LineGood, MarkGood, SaleFailsGood, LateMarkGood
  DEF Next, WriteBack
<1>2. CASE UNCHANGED vars
  BY <1>2 DEF Good, RowsOK, NumbersInv, SalesInv, ReqInv, AgentInv, BooksInv, SyncedMeansWritten,
              Whole, Needed, Used, Writing, No, Sale, vars, webVars, shopVars
<1>3. QED
  BY <1>1, <1>2

LEMMA Inductive == Spec => []Good
  BY GoodInit, GoodNext, PTL DEF Spec

\* A sale the web shows as synced is in the shop's books, complete, under the receipt
\* number it shows: although two runs may write the same sale, a report may be lost or
\* arrive late, and a run may die between any two statements (writeBackSales of
\* bridge/pusher.js, POST /sync/mark-synced).
THEOREM SyncedWritten == Spec => []SyncedMeansWritten
<1>1. Good => SyncedMeansWritten
  BY DEF Good, SalesInv, BooksInv
<1>2. QED
  BY <1>1, Inductive, PTL

-----------------------------------------------------------------------------
(* How often a sale is written.                                            *)

Within(o) ==
  /\ IsFiniteSet(Receipts(o)) /\ IsFiniteSet(ToWrite(o))
  /\ Cardinality(Receipts(o)) + Cardinality(ToWrite(o)) + (IF Waits(o) THEN 1 ELSE 0) <= 1 + faults

LEMMA OneMore ==
  ASSUME NEW S, IsFiniteSet(S), NEW x
  PROVE  /\ IsFiniteSet(S \cup {x}) /\ Cardinality(S) \in Nat /\ Cardinality(S \cup {x}) \in Nat
         /\ Cardinality(S \cup {x}) <= Cardinality(S) + 1
<1>1. Cardinality(S) \in Nat
  BY FS_CardinalityType
<1>2. IsFiniteSet(S \cup {x}) /\ Cardinality(S \cup {x}) \in {Cardinality(S), Cardinality(S) + 1}
  BY FS_AddElement
<1>3. QED
  BY <1>1, <1>2

LEMMA OneLess ==
  ASSUME NEW S, IsFiniteSet(S), NEW x
  PROVE  /\ IsFiniteSet(S \ {x}) /\ Cardinality(S) \in Nat /\ Cardinality(S \ {x}) \in Nat
         /\ Cardinality(S \ {x}) <= Cardinality(S)
         /\ x \in S => Cardinality(S \ {x}) + 1 <= Cardinality(S)
<1>1. Cardinality(S) \in Nat
  BY FS_CardinalityType
<1>2. IsFiniteSet(S \ {x})
  BY FS_RemoveElement
<1>3. Cardinality(S \ {x}) \in Nat
  BY <1>2, FS_CardinalityType
<1>4. Cardinality(S \ {x}) = IF x \in S THEN Cardinality(S) - 1 ELSE Cardinality(S)
  BY FS_RemoveElement
<1>5. QED
  BY <1>1, <1>2, <1>3, <1>4

\* A step keeps the receipts of a sale, those still to come and the sale's waiting
\* within what the faults pay for, if it changes none of them; if a run leaves the sale
\* unwritten, or writes it; if one takes it up that waited; and at the cost of a fault.
LEMMA WithinKept ==
  ASSUME NEW o, Within(o), faults \in Nat, faults' \in Nat, faults <= faults', NEW n, NEW a,
         \/ /\ Receipts(o)' = Receipts(o) /\ ToWrite(o)' = ToWrite(o)
            /\ Waits(o)' => Waits(o)
         \/ /\ Receipts(o)' = Receipts(o)
            /\ a \in ToWrite(o) /\ ToWrite(o)' = ToWrite(o) \ {a}
         \/ /\ Receipts(o)' = Receipts(o) \cup {n}
            /\ a \in ToWrite(o) /\ ToWrite(o)' = ToWrite(o) \ {a}
            /\ Waits(o)' => Waits(o)
         \/ /\ Receipts(o)' = Receipts(o) /\ ToWrite(o)' = ToWrite(o) \cup {a}
            /\ ~ Waits(o)' /\ (Waits(o) \/ faults' = faults + 1)
         \/ /\ Receipts(o)' = Receipts(o) /\ ToWrite(o)' = ToWrite(o) \ {a}
            /\ faults' = faults + 1
  PROVE  Within(o)'
<1>1. PICK w \in {0, 1} : w = (IF Waits(o) THEN 1 ELSE 0) /\ (w = 1 <=> Waits(o))
  OBVIOUS
<1>2. PICK v \in {0, 1} : v = (IF Waits(o)' THEN 1 ELSE 0) /\ (v = 1 <=> Waits(o)')
  OBVIOUS
<1>3. PICK R : R = Receipts(o)
  OBVIOUS
<1>4. PICK T : T = ToWrite(o)
  OBVIOUS
<1>5. PICK S : S = Receipts(o)'
  OBVIOUS
<1>6. PICK U : U = ToWrite(o)'
  OBVIOUS
<1>7. IsFiniteSet(R) /\ IsFiniteSet(T) /\ Cardinality(R) + Cardinality(T) + w <= 1 + faults
  BY <1>1, <1>3, <1>4 DEF Within
<1>8. /\ IsFiniteSet(R \cup {n}) /\ Cardinality(R) \in Nat /\ Cardinality(R \cup {n}) \in Nat
      /\ Cardinality(R \cup {n}) <= Cardinality(R) + 1
  BY <1>7, OneMore
<1>9. /\ IsFiniteSet(T \cup {a}) /\ Cardinality(T) \in Nat /\ Cardinality(T \cup {a}) \in Nat
      /\ Cardinality(T \cup {a}) <= Cardinality(T) + 1
  BY <1>7, OneMore
<1>10. /\ IsFiniteSet(T \ {a}) /\ Cardinality(T \ {a}) \in Nat
       /\ Cardinality(T \ {a}) <= Cardinality(T)
       /\ a \in T => Cardinality(T \ {a}) + 1 <= Cardinality(T)
  BY <1>7, OneLess
<1>11. IsFiniteSet(S) /\ IsFiniteSet(U) /\ Cardinality(S) + Cardinality(U) + v <= 1 + faults'
  <2>1. CASE S = R /\ U = T /\ v <= w
    BY <1>7, <1>8, <1>9, <2>1
  <2>2. CASE S = R /\ U = T \ {a} /\ a \in T
    BY <1>7, <1>8, <1>9, <1>10, <2>2
  <2>3. CASE S = R \cup {n} /\ U = T \ {a} /\ a \in T /\ v <= w
    BY <1>7, <1>8, <1>9, <1>10, <2>3
  <2>4. CASE S = R /\ U = T \cup {a} /\ v = 0 /\ (w = 1 \/ faults' = faults + 1)
    BY <1>7, <1>8, <1>9, <2>4
  <2>5. CASE S = R /\ U = T \ {a} /\ faults' = faults + 1
    BY <1>7, <1>8, <1>9, <1>10, <2>5
  <2>6. QED
    BY <1>1, <1>2, <1>3, <1>4, <1>5, <1>6, <2>1, <2>2, <2>3, <2>4, <2>5
<1>12. QED
  BY <1>2, <1>5, <1>6, <1>11 DEF Within

LEMMA FaultsGrow ==
  ASSUME Good, Good', faults' = faults \/ Fault
  PROVE  faults \in Nat /\ faults' \in Nat /\ faults <= faults'
BY WebSalesConstantsOK DEF Good, RowsOK, Fault

\* Requests write nothing: an order they add has no receipt, and no run is at it.
LEMMA RequestReceipts ==
  ASSUME Good, Good', ReceiptsInv, NEW r \in Request, Arrive(r) \/ Proceed(r) \/ RequestDies(r)
  PROVE  ReceiptsInv'
<1>1. OrdersKept /\ UNCHANGED <<owner, lines, agent>>
  BY RequestSteps DEF Good
<1>2. faults \in Nat /\ faults' \in Nat /\ faults <= faults'
  <2>1. faults' = faults \/ Fault
    BY DEF Arrive, CheckOrder, SellAtCounter, ReadForCancel, ReadForProcess, Proceed, CommitOrder,
           TakeLine, CommitCancel, CommitProcess, RequestDies
  <2>2. QED
    BY <2>1, FaultsGrow
<1> SUFFICES ASSUME NEW o \in DOMAIN order'
             PROVE  Within(o)'
  BY DEF ReceiptsInv, Within
<1>3. /\ Receipts(o)' = Receipts(o) /\ AtIt(o)' = AtIt(o) /\ ToWrite(o)' = ToWrite(o)
  BY <1>1 DEF Receipts, Used, AtIt, ToWrite, Writing, Sale
<1>4. CASE o \in DOMAIN order
  <2>1. Within(o)
    BY <1>4 DEF ReceiptsInv, Within
  <2>2. Waits(o)' => Waits(o)
    BY <1>1, <1>3, <1>4 DEF Waits, OrdersKept
  <2>3. QED
    BY <1>2, <1>3, <2>1, <2>2, WithinKept
<1>5. CASE o \notin DOMAIN order
  <2>1. Receipts(o) = {} /\ ToWrite(o) = {}
    BY <1>5, Unpacked DEF Receipts, ToWrite, AtIt, Agents
  <2>2. (IF Waits(o)' THEN 1 ELSE 0) \in {0, 1}
    OBVIOUS
  <2>3. QED
    BY <1>2, <1>3, <2>1, <2>2, FS_EmptySet DEF Within
<1>6. QED
  BY <1>4, <1>5

\* A run has turned to other sales, or stopped: it is at those of its batch, and has
\* written none of them.
LEMMA Turned ==
  ASSUME Good, NEW a \in Agent, NEW v \in Agents, agent' = [agent EXCEPT ![a] = v],
         v.at \in {"idle", "header"}, NEW o
  PROVE  /\ v.at = "header" /\ o \in v.todo =>
              AtIt(o)' = AtIt(o) \cup {a} /\ ToWrite(o)' = ToWrite(o) \cup {a}
         /\ ~ (v.at = "header" /\ o \in v.todo) =>
              AtIt(o)' = AtIt(o) \ {a} /\ ToWrite(o)' = ToWrite(o) \ {a}
<1>1. agent'[a] = v /\ \A b \in Agent \ {a} : agent'[b] = agent[b]
  BY Unpacked
<1>2. \A b \in Agent \ {a} : Writing(b)' = Writing(b) /\ Sale(b)' = Sale(b)
  BY <1>1 DEF Writing, Sale
<1>3. ~ Writing(a)'
  BY <1>1 DEF Writing
<1>4. \A b \in Agent \ {a} : /\ b \in AtIt(o)' <=> b \in AtIt(o)
                             /\ b \in ToWrite(o)' <=> b \in ToWrite(o)
  BY <1>1, <1>2 DEF AtIt, ToWrite
<1>5. /\ a \in AtIt(o)' <=> v.at = "header" /\ o \in v.todo
      /\ a \in ToWrite(o)' <=> v.at = "header" /\ o \in v.todo
  BY <1>1, <1>3 DEF AtIt, ToWrite
<1>6. /\ AtIt(o) \subseteq Agent /\ ToWrite(o) \subseteq Agent
      /\ AtIt(o)' \subseteq Agent /\ ToWrite(o)' \subseteq Agent
  BY DEF AtIt, ToWrite
<1>7. QED
  BY <1>4, <1>5, <1>6

\* On to the next sale: the run is at those it was at, but for the one it is done with.
LEMMA TurnedToNext ==
  ASSUME Good, NEW a \in Agent, agent[a].at # "idle", NextSale(a), NEW o
  PROVE  IF o = Sale(a) THEN AtIt(o)' = AtIt(o) \ {a} /\ ToWrite(o)' = ToWrite(o) \ {a}
                        ELSE AtIt(o)' = AtIt(o) /\ ToWrite(o)' = ToWrite(o)
<1> DEFINE rest == agent[a].todo \ {Sale(a)}
           v == IF rest = {} THEN Done ELSE [at |-> "header", todo |-> rest, next |-> No(a) + 1]
<1>1. agent' = [agent EXCEPT ![a] = v]
  BY DEF NextSale
<1>2. v.at = (IF rest = {} THEN "idle" ELSE "header") /\ v.todo = rest
  BY DEF Done
<1>3. v \in Agents
  <2>1. agent[a] \in Agents /\ No(a) \in Nat
    BY Unpacked, SaleFacts
  <2>2. rest \in SUBSET DOMAIN order
    BY <2>1 DEF Agents
  <2>3. Done \in Agents
    BY DEF Done, Agents
  <2> HIDE DEF rest
  <2>4. [at |-> "header", todo |-> rest, next |-> No(a) + 1] \in Agents
    BY <2>1, <2>2 DEF Agents
  <2>5. QED
    BY <2>3, <2>4
<1>4. o \in rest => v.at = "header" /\ o \in v.todo
  BY <1>2
<1>5. o \notin rest => ~ (v.at = "header" /\ o \in v.todo)
  BY <1>2
<1>6. v.at \in {"idle", "header"}
  BY <1>2
<1>7. o \in rest <=> o \in agent[a].todo /\ o # Sale(a)
  OBVIOUS
<1> HIDE DEF v, rest
<1>8. /\ o \in rest => AtIt(o)' = AtIt(o) \cup {a} /\ ToWrite(o)' = ToWrite(o) \cup {a}
      /\ o \notin rest => AtIt(o)' = AtIt(o) \ {a} /\ ToWrite(o)' = ToWrite(o) \ {a}
  BY <1>1, <1>3, <1>4, <1>5, <1>6, Turned
<1>9. o # Sale(a) => (a \in AtIt(o) <=> o \in rest) /\ (a \in ToWrite(o) <=> o \in rest)
  BY <1>7 DEF AtIt, ToWrite
<1>10. o = Sale(a) => o \notin rest
  BY <1>7
<1>11. QED
  BY <1>8, <1>9, <1>10

\* A run goes on to its next sale: with this one marked, or at the cost of a fault, or
\* without having written it.
LEMMA LeftReceipts ==
  ASSUME Good, Good', ReceiptsInv, NEW a \in Agent, agent[a].at # "idle", NextSale(a),
         OrdersKept, DOMAIN order' = DOMAIN order, UNCHANGED owner, faults' = faults \/ Fault,
         \/ Fault
         \/ Writing(a) /\ order'[Sale(a)].synced
         \/ ~ Writing(a)
  PROVE  ReceiptsInv'
<1>1. faults \in Nat /\ faults' \in Nat /\ faults <= faults'
  BY FaultsGrow
<1> SUFFICES ASSUME NEW o \in DOMAIN order
             PROVE  Within(o)'
  BY DEF ReceiptsInv, Within
<1>2. Within(o) /\ Receipts(o)' = Receipts(o)
  BY DEF ReceiptsInv, Within, Receipts, Used
<1>3. CASE o # Sale(a)
  <2>1. AtIt(o)' = AtIt(o) /\ ToWrite(o)' = ToWrite(o)
    BY <1>3, TurnedToNext
  <2>2. Waits(o)' => Waits(o)
    BY <2>1 DEF Waits, OrdersKept
  <2>3. QED
    BY <1>1, <1>2, <2>1, <2>2, WithinKept
<1>4. CASE o = Sale(a)
  <2>1. ToWrite(o)' = ToWrite(o) \ {a}
    BY <1>4, TurnedToNext
  <2>2. CASE Fault
    BY <1>1, <1>2, <2>1, <2>2, WithinKept DEF Fault
  <2>3. CASE Writing(a) /\ order'[Sale(a)].synced
    <3>1. a \notin ToWrite(o)
      BY <1>4, <2>3 DEF ToWrite
    <3>2. ToWrite(o)' = ToWrite(o) /\ ~ Waits(o)'
      BY <1>4, <2>1, <2>3, <3>1 DEF Waits
    <3>3. QED
      BY <1>1, <1>2, <3>2, WithinKept
  <2>4. CASE ~ Writing(a)
    <3>1. a \in ToWrite(o)
      BY <1>4, <2>4, Unpacked, SaleFacts DEF ToWrite, AtIt
    <3>2. QED
      BY <1>1, <1>2, <2>1, <3>1, WithinKept
  <2>5. QED
    BY <2>2, <2>3, <2>4
<1>5. QED
  BY <1>3, <1>4

\* A batch is of sales that are not synced.  If no run is at one, it waited; if one is,
\* the second run has cost a fault.
LEMMA FetchReceipts ==
  ASSUME Good, Good', ReceiptsInv, NEW a \in Agent, Fetch(a)
  PROVE  ReceiptsInv'
<1> DEFINE v == [at |-> "header", todo |-> Oldest, next |-> LastNo + 1]
<1>1. agent[a].at = "idle" /\ agent' = [agent EXCEPT ![a] = v] /\ UNCHANGED <<order, owner>>
  BY DEF Fetch, webVars, shopVars
<1>2. v.at = "header" /\ v.todo = Oldest /\ v \in Agents
  <2>1. Oldest \subseteq DOMAIN order
    BY DEF Oldest, Unsynced
  <2>2. LastNo \in Nat
    BY LastNoType DEF Good
  <2>3. QED
    BY <2>1, <2>2 DEF Agents
<1>3. faults \in Nat /\ faults' \in Nat /\ faults <= faults'
  <2>1. faults' = faults \/ Fault
    BY DEF Fetch
  <2>2. QED
    BY <2>1, FaultsGrow
<1>4. (\A b \in Agent : agent[b].at = "idle") \/ faults' = faults + 1
  BY DEF Fetch, Fault
<1> HIDE DEF v
<1> SUFFICES ASSUME NEW o \in DOMAIN order
             PROVE  Within(o)'
  BY <1>1 DEF ReceiptsInv, Within
<1>5. Within(o) /\ Receipts(o)' = Receipts(o)
  BY <1>1 DEF ReceiptsInv, Within, Receipts, Used
<1>6. a \notin AtIt(o) /\ a \notin ToWrite(o)
  BY <1>1 DEF AtIt, ToWrite
<1>7. CASE o \in Oldest
  <2>1. AtIt(o)' = AtIt(o) \cup {a} /\ ToWrite(o)' = ToWrite(o) \cup {a}
    BY <1>1, <1>2, <1>7, Turned
  <2>2. ~ Waits(o)'
    BY <2>1 DEF Waits
  <2>3. Waits(o) \/ faults' = faults + 1
    <3>1. ~ order[o].synced
      BY <1>7 DEF Oldest, Unsynced
    <3>2. (\A b \in Agent : agent[b].at = "idle") => AtIt(o) = {}
      BY DEF AtIt
    <3>3. QED
      BY <1>4, <3>1, <3>2 DEF Waits
  <2>4. QED
    BY <1>3, <1>5, <2>1, <2>2, <2>3, WithinKept
<1>8. CASE o \notin Oldest
  <2>1. AtIt(o)' = AtIt(o) \ {a} /\ ToWrite(o)' = ToWrite(o) \ {a}
    BY <1>1, <1>2, <1>8, Turned
  <2>2. AtIt(o)' = AtIt(o) /\ ToWrite(o)' = ToWrite(o)
    BY <1>6, <2>1
  <2>3. Waits(o)' => Waits(o)
    BY <1>1, <2>2 DEF Waits
  <2>4. QED
    BY <1>3, <1>5, <2>2, <2>3, WithinKept
<1>9. QED
  BY <1>7, <1>8

\* A header that is accepted is one receipt more, and one run less that has yet to
\* write the sale.
LEMMA HeaderReceipts ==
  ASSUME Good, Good', ReceiptsInv, NEW a \in Agent, WriteHeader(a)
  PROVE  ReceiptsInv'
<1>1. agent[a].at = "header" /\ ~ Writing(a) /\ UNCHANGED <<order, faults>>
  BY DEF WriteHeader, webVars, Writing
<1>2. CASE No(a) \in Used
  <2>1. NextSale(a) /\ UNCHANGED owner
    BY <1>2 DEF WriteHeader, shopVars
  <2>2. OrdersKept
    BY <1>1, SameOrders
  <2>3. QED
    BY <1>1, <2>1, <2>2, LeftReceipts
<1>3. CASE No(a) \notin Used
  <2>1. faults \in Nat /\ faults' \in Nat /\ faults <= faults'
    BY <1>1, FaultsGrow
  <2>2. PICK n : n = No(a)
    OBVIOUS
  <2>3. PICK s : s = Sale(a)
    OBVIOUS
  <2>4. owner' = Added(owner, n, s) /\ n \notin Used
    BY <1>3, <2>2, <2>3 DEF WriteHeader
  <2>5. Used' = Used \cup {n} /\ owner'[n] = s /\ \A k \in Used : owner'[k] = owner[k]
    BY <2>4 DEF Added, Used
  <2>6. agent'[a].at = "lines" /\ agent'[a].todo = agent[a].todo
        /\ \A b \in Agent \ {a} : agent'[b] = agent[b]
    <3>1. agent' = [agent EXCEPT ![a] = [agent[a] EXCEPT !.at = "lines"]]
      BY <1>3, Unpacked DEF WriteHeader
    <3>2. agent[a] \in Agents
      BY Unpacked
    <3>3. /\ [agent[a] EXCEPT !.at = "lines"].at = "lines"
          /\ [agent[a] EXCEPT !.at = "lines"].todo = agent[a].todo
      BY <3>2 DEF Agents
    <3>4. QED
      BY <3>1, <3>3, Unpacked
  <2>7. \A b \in Agent : Sale(b)' = Sale(b) /\ (agent'[b].at # "idle" <=> agent[b].at # "idle")
                         /\ agent'[b].todo = agent[b].todo
    BY <1>1, <2>6 DEF Sale
  <2>8. Writing(a)' /\ \A b \in Agent \ {a} : Writing(b)' = Writing(b)
    BY <2>6 DEF Writing
  <2> SUFFICES ASSUME NEW o \in DOMAIN order
               PROVE  Within(o)'
    BY <1>1 DEF ReceiptsInv, Within
  <2>9. Within(o)
    BY DEF ReceiptsInv, Within
  <2>10. AtIt(o)' = AtIt(o)
    BY <2>7 DEF AtIt
  <2>11. Waits(o)' => Waits(o)
    BY <1>1, <2>10 DEF Waits
  <2>12. CASE o = s
    <3>1. Receipts(o)' = Receipts(o) \cup {n}
      BY <2>5, <2>12 DEF Receipts
    <3>2. a \in ToWrite(o)
      BY <1>1, <2>3, <2>12, Unpacked, SaleFacts DEF ToWrite, AtIt
    <3>3. ToWrite(o)' = ToWrite(o) \ {a}
      BY <2>3, <2>7, <2>8, <2>10, <2>12 DEF ToWrite, AtIt
    <3>4. QED
      BY <2>1, <2>9, <2>11, <3>1, <3>2, <3>3, WithinKept
  <2>13. CASE o # s
    <3>1. Receipts(o)' = Receipts(o)
      BY <2>4, <2>5, <2>13 DEF Receipts
    <3>2. ToWrite(o)' = ToWrite(o)
      BY <1>1, <2>3, <2>7, <2>8, <2>10, <2>13 DEF ToWrite, AtIt
    <3>3. QED
      BY <2>1, <2>9, <2>11, <3>1, <3>2, WithinKept
  <2>14. QED
    BY <2>12, <2>13
<1>4. QED
  BY <1>2, <1>3

LEMMA LineReceipts ==
  ASSUME Good, Good', ReceiptsInv, NEW a \in Agent, WriteLine(a)
  PROVE  ReceiptsInv'
<1>1. agent[a].at = "lines" /\ UNCHANGED <<order, owner, faults>>
  BY DEF WriteLine, webVars
<1>2. faults \in Nat /\ faults' \in Nat /\ faults <= faults'
  BY <1>1, FaultsGrow
<1>3. agent'[a].at \in {"mark", "lines"} /\ agent'[a].todo = agent[a].todo
      /\ \A b \in Agent \ {a} : agent'[b] = agent[b]
  <2>1. PICK at \in {"mark", "lines"} : agent' = [agent EXCEPT ![a] = [agent[a] EXCEPT !.at = at]]
    BY Unpacked DEF WriteLine
  <2>2. agent[a] \in Agents
    BY Unpacked
  <2>3. /\ [agent[a] EXCEPT !.at = at].at = at
        /\ [agent[a] EXCEPT !.at = at].todo = agent[a].todo
    BY <2>2 DEF Agents
  <2>4. QED
    BY <2>1, <2>3, Unpacked
<1>4. \A b \in Agent : /\ Sale(b)' = Sale(b) /\ Writing(b)' = Writing(b)
                       /\ agent'[b].at # "idle" <=> agent[b].at # "idle"
                       /\ agent'[b].todo = agent[b].todo
  BY <1>1, <1>3 DEF Sale, Writing
<1> SUFFICES ASSUME NEW o \in DOMAIN order
             PROVE  Within(o)'
  BY <1>1 DEF ReceiptsInv, Within
<1>5. Within(o) /\ Receipts(o)' = Receipts(o)
  BY <1>1 DEF ReceiptsInv, Within, Receipts, Used
<1>6. AtIt(o)' = AtIt(o) /\ ToWrite(o)' = ToWrite(o)
  BY <1>4 DEF AtIt, ToWrite
<1>7. Waits(o)' => Waits(o)
  BY <1>1, <1>6 DEF Waits
<1>8. QED
  BY <1>2, <1>5, <1>6, <1>7, WithinKept

LEMMA MarkReceipts ==
  ASSUME Good, Good', ReceiptsInv, NEW a \in Agent, MarkSynced(a) \/ MarkFails(a) \/ SaleFails(a)
  PROVE  ReceiptsInv'
<1>1. agent[a].at # "idle" /\ NextSale(a) /\ UNCHANGED owner /\ (faults' = faults \/ Fault)
  BY DEF MarkSynced, MarkFails, SaleFails, shopVars
<1>2. agent[a].at = "mark" => ThisMark(a) \in [order : DOMAIN order, receipt : Nat]
  BY ThisMarkFacts
<1>3. (UNCHANGED order /\ Fault) \/ (agent[a].at = "mark" /\ SetSynced(ThisMark(a)))
  BY DEF MarkSynced, MarkFails, SaleFails, webVars
<1>4. CASE UNCHANGED order /\ Fault
  <2>1. OrdersKept
    BY <1>4, SameOrders
  <2>2. QED
    BY <1>1, <1>4, <2>1, LeftReceipts
<1>5. CASE agent[a].at = "mark" /\ SetSynced(ThisMark(a))
  <2>1. OrdersKept /\ DOMAIN order' = DOMAIN order /\ order'[ThisMark(a).order].synced
    BY <1>2, <1>5, MarkSet, Unpacked
  <2>2. Writing(a) /\ order'[Sale(a)].synced
    BY <1>5, <2>1 DEF Writing, ThisMark
  <2>3. QED
    BY <1>1, <2>1, <2>2, LeftReceipts
<1>6. QED
  BY <1>3, <1>4, <1>5

LEMMA DeathReceipts ==
  ASSUME Good, Good', ReceiptsInv, NEW a \in Agent, AgentDies(a)
  PROVE  ReceiptsInv'
<1>1. agent' = [agent EXCEPT ![a] = Done] /\ Fault /\ UNCHANGED <<order, owner>>
  BY DEF AgentDies, webVars, shopVars
<1>2. Done \in Agents /\ Done.at = "idle"
  BY DEF Done, Agents
<1>3. faults \in Nat /\ faults' \in Nat /\ faults <= faults' /\ faults' = faults + 1
  BY <1>1, FaultsGrow DEF Fault
<1> SUFFICES ASSUME NEW o \in DOMAIN order
             PROVE  Within(o)'
  BY <1>1 DEF ReceiptsInv, Within
<1>4. Within(o) /\ Receipts(o)' = Receipts(o)
  BY <1>1 DEF ReceiptsInv, Within, Receipts, Used
<1>5. ToWrite(o)' = ToWrite(o) \ {a}
  BY <1>1, <1>2, Turned
<1>6. QED
  BY <1>3, <1>4, <1>5, WithinKept

LEMMA LateReceipts ==
  ASSUME Good, Good', ReceiptsInv, NEW m \in late, LateMark(m)
  PROVE  ReceiptsInv'
<1>1. UNCHANGED <<owner, agent, faults>> /\ SetSynced(m)
  BY DEF LateMark, shopVars
<1>2. OrdersKept /\ DOMAIN order' = DOMAIN order
  BY <1>1, MarkSet, Unpacked
<1>3. faults \in Nat /\ faults' \in Nat /\ faults <= faults'
  BY <1>1, FaultsGrow
<1> SUFFICES ASSUME NEW o \in DOMAIN order
             PROVE  Within(o)'
  BY <1>2 DEF ReceiptsInv, Within
<1>4. Within(o) /\ Receipts(o)' = Receipts(o) /\ AtIt(o)' = AtIt(o) /\ ToWrite(o)' = ToWrite(o)
  BY <1>1 DEF ReceiptsInv, Within, Receipts, Used, AtIt, ToWrite, Writing, Sale
<1>5. Waits(o)' => Waits(o)
  BY <1>2, <1>4 DEF Waits, OrdersKept
<1>6. QED
  BY <1>3, <1>4, <1>5, WithinKept

LEMMA ReceiptsInit == Init => ReceiptsInv
  BY DEF Init, ReceiptsInv

LEMMA ReceiptsNext == Good /\ Good' /\ ReceiptsInv /\ [Next]_vars => ReceiptsInv'
<1> SUFFICES ASSUME Good, Good', ReceiptsInv, [Next]_vars
             PROVE  ReceiptsInv'
  OBVIOUS
<1>1. CASE Next
  BY <1>1, RequestReceipts, FetchReceipts, HeaderReceipts, LineReceipts, MarkReceipts, DeathReceipts,
     LateReceipts DEF Next, WriteBack
<1>2. CASE UNCHANGED vars
  BY <1>2 DEF ReceiptsInv, Receipts, Used, AtIt, ToWrite, Waits, Writing, Sale, vars, webVars, shopVars
<1>3. QED
  BY <1>1, <1>2

\* A sale has as many receipts in the shop's books, beside its first, as faults came its
\* way at most: a run that dies or fails amid the sale, a report lost or late, a second
\* run started beside the first (writeBackSales of bridge/pusher.js).
THEOREM ReceiptsBounded == Spec => []SecondReceiptsCostFaults
<1>1. Good /\ ReceiptsInv => SecondReceiptsCostFaults
  <2> SUFFICES ASSUME Good, ReceiptsInv, NEW o \in DOMAIN order
               PROVE  Cardinality(Receipts(o)) <= 1 + faults
    BY DEF SecondReceiptsCostFaults
  <2>1. IsFiniteSet(Receipts(o)) /\ IsFiniteSet(ToWrite(o)) /\ faults \in Nat
    BY WebSalesConstantsOK DEF ReceiptsInv, Good, RowsOK
  <2>2. Cardinality(Receipts(o)) \in Nat /\ Cardinality(ToWrite(o)) \in Nat
    BY <2>1, FS_CardinalityType
  <2>3. PICK w \in {0, 1} : Cardinality(Receipts(o)) + Cardinality(ToWrite(o)) + w <= 1 + faults
    BY DEF ReceiptsInv
  <2>4. QED
    BY <2>1, <2>2, <2>3
<1>2. QED
  BY <1>1, GoodInit, GoodNext, ReceiptsInit, ReceiptsNext, PTL DEF Spec

-----------------------------------------------------------------------------
(* Sums: what finitely many sets hold together.                             *)

\* Finitely many finite sets hold a finite number of elements together.
Summable(f) == IsFiniteSet(DOMAIN f) /\ \A i \in DOMAIN f : IsFiniteSet(f[i])

LEMMA TaggedFinite ==
  ASSUME NEW f, Summable(f)
  PROVE  IsFiniteSet(Tagged(f)) /\ Cardinality(Tagged(f)) \in Nat
<1> DEFINE Parts == {{i} \X f[i] : i \in DOMAIN f}
           h == [i \in DOMAIN f |-> {i} \X f[i]]
<1>1. h \in Surjection(DOMAIN f, Parts)
  BY DEF Surjection
<1>2. IsFiniteSet(Parts)
  BY <1>1, FS_Surjection DEF Summable
<1>3. ASSUME NEW P \in Parts
      PROVE  IsFiniteSet(P)
  <2>1. PICK i \in DOMAIN f : P = {i} \X f[i]
    OBVIOUS
  <2>2. IsFiniteSet({i}) /\ IsFiniteSet(f[i])
    BY FS_Singleton DEF Summable
  <2>3. QED
    BY <2>1, <2>2, FS_Product
<1> HIDE DEF Parts
<1>4. IsFiniteSet(UNION Parts)
  BY <1>2, <1>3, FS_UNION
<1>5. Tagged(f) = UNION Parts
  BY DEF Tagged, Parts
<1>6. QED
  BY <1>4, <1>5, FS_CardinalityType

\* One set more adds its elements.
LEMMA TaggedAdd ==
  ASSUME NEW f, NEW g, NEW x, Summable(f), x \notin DOMAIN f, DOMAIN g = DOMAIN f \cup {x},
         \A i \in DOMAIN f : g[i] = f[i], IsFiniteSet(g[x])
  PROVE  Summable(g) /\ Cardinality(Tagged(g)) = Cardinality(Tagged(f)) + Cardinality(g[x])
<1>1. Summable(g)
  BY FS_AddElement DEF Summable
<1> DEFINE P == {x} \X g[x]
<1>2. Tagged(g) = Tagged(f) \cup P
  BY DEF Tagged
<1>3. Tagged(f) \cap P = {}
  BY DEF Tagged
<1>4. IsFiniteSet(P) /\ Cardinality(P) = Cardinality(g[x])
  <2>1. IsFiniteSet({x}) /\ Cardinality({x}) = 1
    BY FS_Singleton
  <2>2. Cardinality(g[x]) \in Nat
    BY FS_CardinalityType
  <2>3. IsFiniteSet(P) /\ Cardinality(P) = Cardinality({x}) * Cardinality(g[x])
    BY <2>1, FS_Product
  <2>4. QED
    BY <2>1, <2>2, <2>3
<1> HIDE DEF P
<1>5. IsFiniteSet(Tagged(f)) /\ Cardinality(Tagged(f)) \in Nat
  BY TaggedFinite
<1>6. Cardinality(Tagged(f) \cup P) = Cardinality(Tagged(f)) + Cardinality(P) - Cardinality({})
  BY <1>3, <1>4, <1>5, FS_Union
<1>7. Cardinality({}) = 0 /\ Cardinality(P) \in Nat
  BY <1>4, FS_EmptySet, FS_CardinalityType
<1>8. QED
  BY <1>1, <1>2, <1>4, <1>5, <1>6, <1>7

\* One set exchanged for another.
LEMMA TaggedChange ==
  ASSUME NEW f, NEW g, NEW x \in DOMAIN f, Summable(f), DOMAIN g = DOMAIN f,
         \A i \in DOMAIN f \ {x} : g[i] = f[i], IsFiniteSet(g[x])
  PROVE  /\ Summable(g)
         /\ Cardinality(Tagged(g)) + Cardinality(f[x]) = Cardinality(Tagged(f)) + Cardinality(g[x])
<1> DEFINE rest == [i \in DOMAIN f \ {x} |-> f[i]]
<1>1. Summable(rest)
  BY FS_RemoveElement DEF Summable
<1>2. /\ x \notin DOMAIN rest /\ DOMAIN f = DOMAIN rest \cup {x} /\ DOMAIN g = DOMAIN rest \cup {x}
      /\ \A i \in DOMAIN rest : f[i] = rest[i] /\ g[i] = rest[i]
  OBVIOUS
<1>3. IsFiniteSet(f[x])
  BY DEF Summable
<1> HIDE DEF rest
<1>4. Cardinality(Tagged(f)) = Cardinality(Tagged(rest)) + Cardinality(f[x])
  BY <1>1, <1>2, <1>3, TaggedAdd
<1>5. Summable(g) /\ Cardinality(Tagged(g)) = Cardinality(Tagged(rest)) + Cardinality(g[x])
  BY <1>1, <1>2, TaggedAdd
<1>6. /\ Cardinality(Tagged(rest)) \in Nat /\ Cardinality(f[x]) \in Nat /\ Cardinality(g[x]) \in Nat
  BY <1>1, <1>3, TaggedFinite, FS_CardinalityType
<1>7. QED
  BY <1>4, <1>5, <1>6

LEMMA UpTo ==
  ASSUME NEW q \in Nat
  PROVE  IsFiniteSet(1..q) /\ Cardinality(1..q) = q
<1>1. IsFiniteSet(1..q) /\ Cardinality(1..q) = IF 1 > q THEN 0 ELSE q - 1 + 1
  BY FS_Interval
<1>2. QED
  BY <1>1

\* The units of a basket.
LEMMA BasketUnits ==
  ASSUME NEW b \in Seq(Nat \ {0})
  PROVE  IsFiniteSet(Units(b)) /\ Total(b) \in Nat
<1> DEFINE f == [i \in DOMAIN b |-> 1..b[i]]
<1>1. DOMAIN b = 1..Len(b) /\ Len(b) \in Nat /\ \A i \in DOMAIN b : b[i] \in Nat
  OBVIOUS
<1>2. Summable(f)
  <2>1. IsFiniteSet(DOMAIN f)
    BY <1>1, FS_Interval
  <2>2. ASSUME NEW i \in DOMAIN f
        PROVE  IsFiniteSet(f[i])
    BY <1>1, FS_Interval
  <2>3. QED
    BY <2>1, <2>2 DEF Summable
<1> HIDE DEF f
<1>3. Units(b) = Tagged(f)
  BY DEF Units, f
<1>4. QED
  BY <1>2, <1>3, TaggedFinite DEF Total

\* The first line, and what is left of it.
LEMMA FirstLine ==
  ASSUME NEW b \in Seq(Nat \ {0}), b # <<>>
  PROVE  /\ Tail(b) \in Seq(Nat \ {0}) /\ Head(b) \in Nat
         /\ Total(b) = Head(b) + Total(Tail(b))
<1> DEFINE t == Tail(b)
           f == [i \in DOMAIN b |-> 1..b[i]]
           rest == [i \in 2..Len(b) |-> 1..b[i]]
           g == [i \in DOMAIN t |-> 1..t[i]]
<1>1. /\ DOMAIN b = 1..Len(b) /\ Len(b) \in Nat /\ Len(b) >= 1 /\ \A i \in 1..Len(b) : b[i] \in Nat
      /\ Head(b) = b[1]
  <2>1. Len(b) # 0
    OBVIOUS
  <2>2. QED
    BY <2>1
<1>2. /\ t \in Seq(Nat \ {0}) /\ DOMAIN t = 1..(Len(b) - 1)
      /\ \A i \in 1..(Len(b) - 1) : t[i] = b[i + 1]
  OBVIOUS
<1>3. Summable(rest)
  <2>1. IsFiniteSet(DOMAIN rest)
    BY <1>1, FS_Interval
  <2>2. ASSUME NEW i \in DOMAIN rest
        PROVE  IsFiniteSet(rest[i])
    <3>1. b[i] \in Nat /\ rest[i] = 1..b[i]
      BY <1>1
    <3>2. IsFiniteSet(1..b[i])
      BY <3>1, UpTo
    <3>3. QED
      BY <3>1, <3>2
  <2>3. QED
    BY <2>1, <2>2 DEF Summable
<1>4. IsFiniteSet(f[1]) /\ Cardinality(f[1]) = b[1]
  <2>1. b[1] \in Nat /\ f[1] = 1..b[1]
    BY <1>1
  <2>2. IsFiniteSet(1..b[1]) /\ Cardinality(1..b[1]) = b[1]
    BY <2>1, UpTo
  <2>3. QED
    BY <2>1, <2>2
<1>5. Cardinality(Tagged(f)) = Cardinality(Tagged(rest)) + b[1]
  <2>1. /\ 1 \notin DOMAIN rest /\ DOMAIN f = DOMAIN rest \cup {1}
        /\ \A i \in DOMAIN rest : f[i] = rest[i]
    BY <1>1
  <2> HIDE DEF rest, f
  <2>2. QED
    BY <1>3, <1>4, <2>1, TaggedAdd
\* The lines of the tail are those lines, each under the number before its own.
<1>6. Cardinality(Tagged(rest)) = Cardinality(Tagged(g))
  <2> DEFINE up == [p \in Tagged(g) |-> <<p[1] + 1, p[2]>>]
  <2>1. \A p \in Tagged(g) : /\ p = <<p[1], p[2]>> /\ p[1] \in 1..(Len(b) - 1)
                             /\ p[2] \in 1..b[p[1] + 1]
    BY <1>1, <1>2 DEF Tagged
  <2>2. \A p \in Tagged(rest) : p = <<p[1], p[2]>> /\ p[1] \in 2..Len(b) /\ p[2] \in 1..b[p[1]]
    BY <1>1 DEF Tagged
  <2>3. up \in [Tagged(g) -> Tagged(rest)]
    BY <1>1, <2>1 DEF Tagged
  <2>4. ASSUME NEW p \in Tagged(g), NEW q \in Tagged(g), up[p] = up[q]
        PROVE  p = q
    <3>1. up[p] = <<p[1] + 1, p[2]>> /\ up[q] = <<q[1] + 1, q[2]>>
      OBVIOUS
    <3>2. p[1] + 1 = q[1] + 1 /\ p[2] = q[2]
      BY <2>4, <3>1
    <3>3. p[1] \in Int /\ q[1] \in Int /\ p = <<p[1], p[2]>> /\ q = <<q[1], q[2]>>
      BY <1>1, <2>1
    <3>4. p[1] = q[1]
      BY <3>2, <3>3
    <3>5. QED
      BY <3>2, <3>3, <3>4, Zenon
  <2>5. ASSUME NEW q \in Tagged(rest)
        PROVE  \E p \in Tagged(g) : up[p] = q
    <3>1. PICK i, k : q = <<i, k>> /\ i \in 2..Len(b) /\ k \in 1..b[i]
      BY <2>2
    <3>2. i - 1 \in 1..(Len(b) - 1) /\ t[i - 1] = b[i] /\ (i - 1) + 1 = i
      BY <1>1, <1>2, <3>1
    <3>3. <<i - 1, k>> \in Tagged(g)
      <4>1. i - 1 \in DOMAIN g /\ k \in g[i - 1]
        BY <1>2, <3>1, <3>2
      <4>2. <<i - 1, k>> \in {i - 1} \X g[i - 1]
        BY <4>1
      <4>3. QED
        BY <4>1, <4>2 DEF Tagged
    <3>4. up[<<i - 1, k>>] = q
      BY <3>1, <3>2, <3>3
    <3>5. QED
      BY <3>3, <3>4
  <2>6. up \in Bijection(Tagged(g), Tagged(rest))
    BY <2>3, <2>4, <2>5 DEF Bijection, Injection, Surjection, IsInjective
  <2>7. IsFiniteSet(Tagged(g))
    <3>1. Units(t) = Tagged(g)
      BY DEF Units
    <3>2. QED
      BY <1>2, <3>1, BasketUnits
  <2>8. QED
    BY <2>6, <2>7, FS_Bijection DEF ExistsBijection
<1>7. Units(b) = Tagged(f) /\ Units(t) = Tagged(g)
  BY DEF Units
<1>8. Total(b) = Cardinality(Tagged(f)) /\ Total(t) = Cardinality(Tagged(g)) /\ Total(t) \in Nat
  BY <1>2, <1>7, BasketUnits DEF Total
<1>9. Total(b) = b[1] + Total(t) /\ b[1] \in Nat
  <2> HIDE DEF f, rest, g, t
  <2>1. QED
    BY <1>1, <1>5, <1>6, <1>8
<1>10. QED
  BY <1>1, <1>2, <1>9

-----------------------------------------------------------------------------
(* What the orders took, and what the counter sales have yet to take.      *)

LEMMA Baskets ==
  ASSUME Good
  PROVE  /\ \A o \in DOMAIN order : order[o].basket \in Seq(Nat \ {0})
         /\ \A r \in Request : req[r].basket \in Seq(Nat \ {0})
<1>1. \A o \in DOMAIN order : order[o].basket \in Basket
  BY Unpacked, Ordered
<1>2. \A r \in Request : req[r] \in Reqs
  BY Unpacked
<1>3. QED
  BY <1>1, <1>2, WebSalesConstantsOK DEF Reqs

LEMMA Sums ==
  ASSUME Good
  PROVE  /\ Summable([o \in Standing |-> Units(order[o].basket)]) /\ OnOrder \in Nat
         /\ Summable([r \in Selling |-> Units(req[r].basket)]) /\ StillToTake \in Nat
         /\ IsFiniteSet(Checked) /\ Cardinality(Checked) \in Nat
<1> DEFINE f == [o \in Standing |-> Units(order[o].basket)]
           h == [r \in Selling |-> Units(req[r].basket)]
<1>1. Summable(f)
  <2>1. DOMAIN order = 1..Len(order) /\ Len(order) \in Nat
    BY Unpacked DEF RowsOK
  <2>2. IsFiniteSet(DOMAIN order) /\ Standing \in SUBSET DOMAIN order
    BY <2>1, UpTo DEF Standing
  <2>3. IsFiniteSet(Standing)
    BY <2>2, FS_Subset
  <2>4. \A o \in Standing : IsFiniteSet(f[o])
    BY <2>2, Baskets, BasketUnits
  <2>5. QED
    BY <2>3, <2>4 DEF Summable
<1>2. IsFiniteSet(Request) /\ Selling \in SUBSET Request /\ Checked \in SUBSET Request
  BY WebSalesConstantsOK DEF Selling, Checked
<1>3. Summable(h)
  <2>1. IsFiniteSet(Selling)
    BY <1>2, FS_Subset
  <2>2. \A r \in Selling : IsFiniteSet(h[r])
    BY <1>2, Baskets, BasketUnits
  <2>3. QED
    BY <2>1, <2>2 DEF Summable
<1>4. IsFiniteSet(Checked) /\ Cardinality(Checked) \in Nat
  BY <1>2, FS_Subset, FS_CardinalityType
<1>5. OnOrder \in Nat /\ StillToTake \in Nat
  <2> HIDE DEF f, h
  <2>1. OnOrder = Cardinality(Tagged(f)) /\ StillToTake = Cardinality(Tagged(h))
    BY DEF OnOrder, StillToTake, f, h
  <2>2. QED
    BY <1>1, <1>3, <2>1, TaggedFinite
<1>6. QED
  BY <1>1, <1>3, <1>4, <1>5

\* A new order adds its lines.
LEMMA OrderAdds ==
  ASSUME Good, NEW c \in {"ONLINE", "COUNTER"}, NEW s \in {"PENDING", "PAID"}, NEW b \in Basket,
         order' = NewOrder(c, s, b)
  PROVE  /\ Len(order') = Len(order) + 1 /\ OnOrder' = OnOrder + Total(b) /\ Total(b) \in Nat
         /\ Standing \subseteq Standing'
<1> DEFINE row == [channel |-> c, status |-> s, basket |-> b, synced |-> FALSE, receipt |-> 0]
           n == Len(order) + 1
<1>1. row \in Order /\ row.status # "CANCELLED" /\ row.basket = b
  BY DEF Order
<1>2. order \in Seq(Order) /\ order' = Append(order, row)
  BY DEF Good, RowsOK, NewOrder
<1> HIDE DEF row
<1>3. /\ Len(order') = n /\ n \notin DOMAIN order /\ DOMAIN order' = DOMAIN order \cup {n}
      /\ \A o \in DOMAIN order : order'[o] = order[o]
      /\ order'[n] = row
  BY <1>1, <1>2
<1> HIDE DEF n
<1>4. n \notin Standing /\ Standing' = Standing \cup {n}
  BY <1>1, <1>3 DEF Standing
<1>5. PICK f : f = [o \in Standing |-> Units(order[o].basket)]
  OBVIOUS
<1>6. PICK g : g = [o \in Standing' |-> Units(order'[o].basket)]
  OBVIOUS
<1>7. b \in Seq(Nat \ {0})
  BY WebSalesConstantsOK
<1>8. Cardinality(Tagged(g)) = Cardinality(Tagged(f)) + Cardinality(Units(b))
  <2>1. DOMAIN f = Standing /\ DOMAIN g = Standing \cup {n} /\ g[n] = Units(b)
    BY <1>1, <1>3, <1>4, <1>5, <1>6
  <2>2. \A o \in DOMAIN f : g[o] = f[o]
    BY <1>3, <1>4, <1>5, <1>6 DEF Standing
  <2>3. Summable(f) /\ IsFiniteSet(Units(b))
    BY <1>5, <1>7, Sums, BasketUnits
  <2>4. QED
    BY <1>4, <2>1, <2>2, <2>3, TaggedAdd
<1>9. OnOrder = Cardinality(Tagged(f)) /\ OnOrder' = Cardinality(Tagged(g))
  BY <1>5, <1>6 DEF OnOrder
<1>10. Len(order') = Len(order) + 1
  BY <1>3 DEF n
<1>11. QED
  BY <1>3, <1>4, <1>7, <1>8, <1>9, <1>10, BasketUnits DEF Total

\* An order cancelled takes its lines away.
LEMMA OrderTakes ==
  ASSUME Good, NEW o \in Standing, order' = [order EXCEPT ![o].status = "CANCELLED"]
  PROVE  /\ Len(order') = Len(order) /\ OnOrder = OnOrder' + Total(order[o].basket)
         /\ OnOrder' \in Nat /\ Total(order[o].basket) \in Nat /\ Standing' = Standing \ {o}
<1>1. o \in DOMAIN order /\ order \in Seq(Order) /\ RowsOK
  BY Unpacked DEF Standing, RowsOK
<1>2. OrdersKept
  BY <1>1, StatusSet
<1>3. DOMAIN order' = DOMAIN order /\ order'[o].status = "CANCELLED" /\ \A p \in DOMAIN order \ {o} : order'[p] = order[p]
  BY <1>1, Ordered DEF Order
<1>4. Len(order') = Len(order)
  <2>1. order' \in Seq(Order)
    BY <1>2 DEF OrdersKept
  <2>2. QED
    BY <1>1, <1>3, <2>1
<1>5. Standing = Standing' \cup {o} /\ o \notin Standing'
  BY <1>1, <1>3 DEF Standing
<1>6. PICK f : f = [p \in Standing |-> Units(order[p].basket)]
  OBVIOUS
<1>7. PICK g : g = [p \in Standing' |-> Units(order'[p].basket)]
  OBVIOUS
<1>8. /\ DOMAIN g = Standing' /\ DOMAIN f = DOMAIN g \cup {o} /\ f[o] = Units(order[o].basket)
      /\ \A p \in DOMAIN g : f[p] = g[p]
  BY <1>3, <1>5, <1>6, <1>7 DEF Standing
<1>9. Summable(f) /\ IsFiniteSet(f[o])
  BY <1>6, Sums DEF Summable
<1>10. Summable(g)
  <2>1. DOMAIN g \in SUBSET DOMAIN f /\ \A p \in DOMAIN g : IsFiniteSet(g[p])
    BY <1>8, <1>9 DEF Summable
  <2>2. IsFiniteSet(DOMAIN g)
    BY <1>9, <2>1, FS_Subset DEF Summable
  <2>3. QED
    BY <2>1, <2>2 DEF Summable
<1>11. Cardinality(Tagged(f)) = Cardinality(Tagged(g)) + Cardinality(Units(order[o].basket))
  BY <1>5, <1>8, <1>9, <1>10, TaggedAdd
<1>12. OnOrder = Cardinality(Tagged(f)) /\ OnOrder' = Cardinality(Tagged(g)) /\ Cardinality(Tagged(g)) \in Nat
  BY <1>6, <1>7, <1>10, TaggedFinite DEF OnOrder
<1>13. Total(order[o].basket) = Cardinality(Units(order[o].basket)) /\ Total(order[o].basket) \in Nat
  BY <1>1, Baskets, BasketUnits DEF Total
<1>14. QED
  BY <1>4, <1>5, <1>11, <1>12, <1>13

LEMMA OrdersSame ==
  ASSUME OrdersKept, DOMAIN order' = DOMAIN order, Standing' = Standing
  PROVE  OnOrder' = OnOrder
<1>1. \A o \in Standing : order'[o].basket = order[o].basket
  BY DEF OrdersKept, Standing
<1>2. [o \in Standing' |-> Units(order'[o].basket)] = [o \in Standing |-> Units(order[o].basket)]
  BY <1>1
<1>3. QED
  BY <1>2 DEF OnOrder

\* What a counter sale has yet to take off.
LEMMA SaleAdds ==
  ASSUME Good, NEW r \in Request \ Selling, NEW v \in Reqs, req' = [req EXCEPT ![r] = v], v.at = "sold"
  PROVE  StillToTake' = StillToTake + Total(v.basket) /\ Total(v.basket) \in Nat
<1>1. req \in [Request -> Reqs]
  BY Unpacked
<1>2. req'[r] = v /\ \A q \in Request \ {r} : req'[q] = req[q]
  BY <1>1
<1>3. Selling' = Selling \cup {r}
  BY <1>2 DEF Selling
<1>4. PICK f : f = [q \in Selling |-> Units(req[q].basket)]
  OBVIOUS
<1>5. PICK g : g = [q \in Selling' |-> Units(req'[q].basket)]
  OBVIOUS
<1>6. /\ DOMAIN f = Selling /\ DOMAIN g = Selling \cup {r} /\ g[r] = Units(v.basket)
      /\ \A q \in DOMAIN f : g[q] = f[q]
  BY <1>2, <1>3, <1>4, <1>5 DEF Selling
<1>7. v.basket \in Seq(Nat \ {0})
  BY DEF Reqs
<1>8. Summable(f) /\ IsFiniteSet(Units(v.basket)) /\ Total(v.basket) \in Nat
  BY <1>4, <1>7, Sums, BasketUnits
<1>9. Cardinality(Tagged(g)) = Cardinality(Tagged(f)) + Cardinality(Units(v.basket))
  BY <1>6, <1>8, TaggedAdd
<1>10. StillToTake = Cardinality(Tagged(f)) /\ StillToTake' = Cardinality(Tagged(g))
  BY <1>4, <1>5 DEF StillToTake
<1>11. QED
  BY <1>8, <1>9, <1>10 DEF Total

\* A line taken off is no longer to be taken.
LEMMA SaleTakes ==
  ASSUME Good, NEW r \in Request, TakeLine(r)
  PROVE  /\ StillToTake = StillToTake' + Head(req[r].basket)
         /\ StillToTake' \in Nat /\ Head(req[r].basket) \in Nat
<1> DEFINE b == req[r].basket
<1>1. req \in [Request -> Reqs] /\ r \in Selling
  BY Unpacked DEF TakeLine, Selling
<1>2. b \in Seq(Nat \ {0}) /\ b # <<>>
  BY <1>1, Baskets, Unpacked DEF ReqInv, Selling
<1>3. Tail(b) \in Seq(Nat \ {0}) /\ Head(b) \in Nat /\ Total(b) = Head(b) + Total(Tail(b))
  BY <1>2, FirstLine
<1>4. PICK f : f = [q \in Selling |-> Units(req[q].basket)]
  OBVIOUS
<1>5. PICK g : g = [q \in Selling' |-> Units(req'[q].basket)]
  OBVIOUS
<1>6. Summable(f) /\ f[r] = Units(b) /\ IsFiniteSet(Units(b)) /\ Total(b) \in Nat /\ Total(Tail(b)) \in Nat
      /\ IsFiniteSet(Units(Tail(b)))
  BY <1>1, <1>2, <1>3, <1>4, Sums, BasketUnits
<1>7. StillToTake = Cardinality(Tagged(f)) /\ StillToTake' = Cardinality(Tagged(g))
  BY <1>4, <1>5 DEF StillToTake
<1>8. Total(b) = Cardinality(Units(b)) /\ Total(Tail(b)) = Cardinality(Units(Tail(b)))
  BY DEF Total
<1>9. CASE Len(b) = 1
  <2>1. req' = [req EXCEPT ![r] = Idle] /\ Idle.at = "idle"
    BY <1>9 DEF TakeLine, Idle
  <2>2. req'[r].at = "idle" /\ \A q \in Request \ {r} : req'[q] = req[q]
    BY <1>1, <2>1
  <2>3. Selling' = Selling \ {r}
    BY <2>2 DEF Selling
  <2>4. /\ DOMAIN g = Selling \ {r} /\ r \notin DOMAIN g /\ DOMAIN f = DOMAIN g \cup {r}
        /\ \A q \in DOMAIN g : f[q] = g[q]
    BY <1>1, <1>4, <1>5, <2>2, <2>3 DEF Selling
  <2>5. Summable(g)
    <3>1. IsFiniteSet(DOMAIN f) /\ DOMAIN g \in SUBSET DOMAIN f /\ \A q \in DOMAIN g : IsFiniteSet(g[q])
      BY <1>6, <2>4 DEF Summable
    <3>2. IsFiniteSet(DOMAIN g)
      BY <3>1, FS_Subset
    <3>3. QED
      BY <3>1, <3>2 DEF Summable
  <2>6. Cardinality(Tagged(f)) = Cardinality(Tagged(g)) + Cardinality(Units(b))
    BY <1>6, <2>4, <2>5, TaggedAdd
  <2>7. Total(Tail(b)) = 0
    <3>1. PICK t : t = Tail(b)
      OBVIOUS
    <3>2. t \in Seq(Nat \ {0}) /\ Len(t) = 0
      BY <1>2, <1>3, <1>9, <3>1
    <3>3. DOMAIN t = {}
      BY <3>2
    <3>4. Units(t) = {}
      BY <3>3 DEF Units, Tagged
    <3>5. QED
      BY <3>1, <3>4, FS_EmptySet DEF Total
  <2>8. Cardinality(Tagged(g)) \in Nat
    BY <2>5, TaggedFinite
  <2> HIDE DEF b
  <2>9. StillToTake = StillToTake' + Head(b) /\ StillToTake' \in Nat
    BY <1>3, <1>6, <1>7, <1>8, <2>6, <2>7, <2>8
  <2>10. QED
    BY <1>3, <2>9 DEF b
<1>10. CASE Len(b) # 1
  <2>1. req' = [req EXCEPT ![r] = [req[r] EXCEPT !.basket = Tail(req[r].basket)]]
    BY <1>10 DEF TakeLine
  <2>2. /\ req'[r].basket = Tail(b) /\ req'[r].at = "sold" /\ \A q \in Request \ {r} : req'[q] = req[q]
    BY <1>1, <2>1 DEF Reqs, Selling
  <2>3. Selling' = Selling
    BY <1>1, <2>2 DEF Selling
  <2>4. /\ DOMAIN g = DOMAIN f /\ r \in DOMAIN f /\ g[r] = Units(Tail(b))
        /\ \A q \in DOMAIN f \ {r} : g[q] = f[q]
    BY <1>1, <1>4, <1>5, <2>2, <2>3 DEF Selling
  <2> HIDE DEF b
  <2>5. /\ Summable(g)
        /\ Cardinality(Tagged(g)) + Cardinality(f[r]) = Cardinality(Tagged(f)) + Cardinality(g[r])
    BY <1>6, <2>4, TaggedChange
  <2>6. Cardinality(Tagged(g)) \in Nat /\ Cardinality(Tagged(f)) \in Nat
    BY <1>6, <2>5, TaggedFinite
  <2>7. StillToTake = StillToTake' + Head(b) /\ StillToTake' \in Nat
    BY <1>3, <1>6, <1>7, <1>8, <2>4, <2>5, <2>6
  <2>8. QED
    BY <1>3, <2>7 DEF b
<1>11. QED
  BY <1>9, <1>10

LEMMA SalesSame ==
  ASSUME Good, NEW r \in Request \ Selling, NEW v \in Reqs, req' = [req EXCEPT ![r] = v], v.at # "sold"
  PROVE  StillToTake' = StillToTake
<1>1. req'[r] = v /\ \A q \in Request \ {r} : req'[q] = req[q]
  BY Unpacked
<1>2. Selling' = Selling /\ \A q \in Selling : req'[q] = req[q]
  BY <1>1 DEF Selling
<1>3. [q \in Selling' |-> Units(req'[q].basket)] = [q \in Selling |-> Units(req[q].basket)]
  BY <1>2
<1>4. QED
  BY <1>3 DEF StillToTake
LEMMA CheckedCount ==
  ASSUME Good, NEW r \in Request, NEW v \in Reqs, req' = [req EXCEPT ![r] = v]
  PROVE  /\ req[r].at # "checked" /\ v.at = "checked" => Cardinality(Checked') = Cardinality(Checked) + 1
         /\ req[r].at # "checked" /\ v.at # "checked" => Cardinality(Checked') = Cardinality(Checked)
         /\ req[r].at = "checked" /\ v.at # "checked" => Cardinality(Checked') = Cardinality(Checked) - 1
<1>1. req'[r] = v /\ \A q \in Request \ {r} : req'[q] = req[q]
  BY Unpacked
<1>2. r \in Checked <=> req[r].at = "checked"
  BY DEF Checked
<1>3. /\ v.at = "checked" => Checked' = Checked \cup {r}
      /\ v.at # "checked" => Checked' = Checked \ {r}
  BY <1>1 DEF Checked
<1>4. IsFiniteSet(Checked)
  BY Sums
<1>5. /\ Cardinality(Checked \cup {r}) = IF r \in Checked THEN Cardinality(Checked) ELSE Cardinality(Checked) + 1
      /\ Cardinality(Checked \ {r}) = IF r \in Checked THEN Cardinality(Checked) - 1 ELSE Cardinality(Checked)
  BY <1>4, FS_AddElement, FS_RemoveElement
<1>6. QED
  BY <1>2, <1>3, <1>5

-----------------------------------------------------------------------------
(* The stock.                                                              *)

LEMMA ShelfRequest ==
  ASSUME Good, ShelfInv, NEW r \in Request, Arrive(r) \/ Proceed(r) \/ RequestDies(r)
  PROVE  ShelfInv'
<1>1. /\ req \in [Request -> Reqs] /\ spoilt \in BOOLEAN /\ MaxOrder \in Nat
      /\ order \in Seq(Order) /\ Len(order) \in Nat /\ DOMAIN order \subseteq Nat
  BY Unpacked, Ordered, WebSalesConstantsOK DEF RowsOK, ShelfInv
<1>2. /\ stock \in Int /\ OnHand \in Nat /\ OnOrder \in Nat /\ StillToTake \in Nat
      /\ Cardinality(Checked) \in Nat /\ Len(order) + Cardinality(Checked) <= MaxOrder
  BY Sums, WebSalesConstantsOK DEF ShelfInv
<1>3. Idle \in Reqs /\ Idle.at = "idle"
  BY DEF Idle, Reqs
\* A request that comes to no press leaves the others' as they are.
<1>4. ASSUME NEW v \in Reqs, req' = [req EXCEPT ![r] = v], v.at \notin {"cancelling", "processing"},
             UNCHANGED spoilt, Standing \subseteq Standing'
      PROVE  spoilt' = FALSE => PressInv'
  <2>1. req'[r] = v /\ \A q \in Request \ {r} : req'[q] = req[q]
    BY <1>1, <1>4
  <2>2. \A q \in Pressing' : q \in Pressing /\ req'[q] = req[q]
    BY <1>4, <2>1 DEF Pressing
  <2>3. QED
    BY <1>4, <2>2 DEF ShelfInv, PressInv
<1>5. ASSUME NEW b \in Basket, CheckOrder(r, b)
      PROVE  ShelfInv'
  <2>1. PICK v : v = [Idle EXCEPT !.at = "checked", !.basket = b]
    OBVIOUS
  <2>2. v \in Reqs /\ v.at = "checked" /\ req[r].at = "idle" /\ r \notin Selling
    BY <1>5, <2>1, WebSalesConstantsOK DEF Idle, Reqs, CheckOrder, Selling
  <2>3. /\ req' = [req EXCEPT ![r] = v] /\ UNCHANGED <<order, stock, spoilt>>
        /\ Len(order) + Cardinality(Checked) < MaxOrder
    BY <1>5, <2>1 DEF CheckOrder, Room
  <2>4. StillToTake' = StillToTake /\ OnOrder' = OnOrder /\ Standing' = Standing
    BY <2>2, <2>3, SalesSame DEF OnOrder, Standing
  <2>5. Cardinality(Checked') = Cardinality(Checked) + 1
    BY <2>2, <2>3, CheckedCount
  <2>6. spoilt' = FALSE => PressInv'
    BY <1>4, <2>2, <2>3, <2>4
  <2>7. QED
    BY <1>1, <1>2, <2>3, <2>4, <2>5, <2>6 DEF ShelfInv
<1>6. ASSUME NEW b \in Basket, SellAtCounter(r, b)
      PROVE  ShelfInv'
  <2>1. PICK v : v = [Idle EXCEPT !.at = "sold", !.basket = b]
    OBVIOUS
  <2>2. v \in Reqs /\ v.at = "sold" /\ v.basket = b /\ req[r].at = "idle" /\ r \in Request \ Selling
    BY <1>6, <2>1, WebSalesConstantsOK DEF Idle, Reqs, SellAtCounter, Selling
  <2>3. /\ req' = [req EXCEPT ![r] = v] /\ UNCHANGED <<stock, spoilt>>
        /\ Len(order) + Cardinality(Checked) < MaxOrder /\ order' = NewOrder("COUNTER", "PAID", b)
    BY <1>6, <2>1 DEF SellAtCounter, Room
  <2>4. StillToTake' = StillToTake + Total(b)
    BY <2>2, <2>3, SaleAdds
  <2>5. Cardinality(Checked') = Cardinality(Checked)
    BY <2>2, <2>3, CheckedCount
  <2>6. /\ Len(order') = Len(order) + 1 /\ OnOrder' = OnOrder + Total(b) /\ Total(b) \in Nat
        /\ Standing \subseteq Standing'
    BY <2>3, OrderAdds
  <2>7. spoilt' = FALSE => PressInv'
    BY <1>4, <2>2, <2>3, <2>6
  <2>8. spoilt' = FALSE => stock = OnHand - OnOrder' + StillToTake'
    <3>1. SUFFICES ASSUME spoilt' = FALSE
                   PROVE  stock = OnHand - OnOrder' + StillToTake'
      OBVIOUS
    <3>2. stock = OnHand - OnOrder + StillToTake
      BY <2>3, <3>1 DEF ShelfInv
    <3>3. QED
      BY <1>2, <2>4, <2>6, <3>2
  <2>9. Len(order') + Cardinality(Checked') <= MaxOrder
    BY <1>1, <1>2, <2>3, <2>5, <2>6
  <2>10. QED
    BY <1>2, <2>3, <2>7, <2>8, <2>9 DEF ShelfInv
<1>7. ASSUME CommitOrder(r)
      PROVE  ShelfInv'
  <2>1. /\ req[r].at = "checked" /\ r \in Request \ Selling /\ req[r].basket \in Basket
        /\ req' = [req EXCEPT ![r] = Idle] /\ UNCHANGED <<spoilt>>
        /\ stock' = stock - Total(req[r].basket)
    BY <1>7, Unpacked DEF CommitOrder, Selling, ReqInv
  <2>2. PICK b \in Basket : b = req[r].basket
    BY <2>1
  <2>3. PICK c \in {"ONLINE", "COUNTER"} : order' = NewOrder(c, "PENDING", b)
    BY <1>7, <2>2 DEF CommitOrder
  <2>4. StillToTake' = StillToTake
    BY <1>3, <2>1, SalesSame
  <2>5. Cardinality(Checked') = Cardinality(Checked) - 1
    BY <1>3, <2>1, CheckedCount
  <2>6. /\ Len(order') = Len(order) + 1 /\ OnOrder' = OnOrder + Total(b) /\ Total(b) \in Nat
        /\ Standing \subseteq Standing'
    BY <2>3, OrderAdds
  <2>7. spoilt' = FALSE => PressInv'
    BY <1>3, <1>4, <2>1, <2>6
  <2>8. stock' = stock - Total(b)
    BY <2>1, <2>2
  <2>9. spoilt' = FALSE => stock' = OnHand - OnOrder' + StillToTake'
    <3>1. SUFFICES ASSUME spoilt' = FALSE
                   PROVE  stock' = OnHand - OnOrder' + StillToTake'
      OBVIOUS
    <3>2. stock = OnHand - OnOrder + StillToTake
      BY <2>1, <3>1 DEF ShelfInv
    <3>3. QED
      BY <1>2, <2>4, <2>6, <2>8, <3>2
  <2>10. stock' \in Int /\ Len(order') + Cardinality(Checked') <= MaxOrder
    BY <1>1, <1>2, <2>5, <2>6, <2>8
  <2>11. QED
    BY <2>1, <2>7, <2>9, <2>10 DEF ShelfInv
<1>8. ASSUME TakeLine(r)
      PROVE  ShelfInv'
  <2>1. req[r].at = "sold" /\ stock' = stock - Head(req[r].basket) /\ UNCHANGED <<order, spoilt>>
    BY <1>8 DEF TakeLine
  <2>2. PICK v \in Reqs : req' = [req EXCEPT ![r] = v] /\ v.at \in {"idle", "sold"}
    <3>1. CASE Len(req[r].basket) = 1
      BY <1>3, <1>8, <3>1 DEF TakeLine
    <3>2. CASE Len(req[r].basket) # 1
      <4>1. PICK v : v = [req[r] EXCEPT !.basket = Tail(req[r].basket)]
        OBVIOUS
      <4>2. req[r].basket \in Seq(Nat \ {0}) /\ req[r].basket # <<>> /\ req[r] \in Reqs
        BY <1>1, <2>1, Unpacked DEF ReqInv, Reqs
      <4>3. v \in Reqs /\ v.at = "sold"
        <5>1. Tail(req[r].basket) \in Seq(Nat \ {0})
          BY <4>2, FirstLine
        <5>2. QED
          BY <2>1, <4>1, <4>2, <5>1 DEF Reqs
      <4>4. req' = [req EXCEPT ![r] = v]
        BY <1>8, <3>2, <4>1 DEF TakeLine
      <4>5. QED
        BY <4>3, <4>4
    <3>3. QED
      BY <3>1, <3>2
  <2>3. /\ StillToTake = StillToTake' + Head(req[r].basket)
        /\ StillToTake' \in Nat /\ Head(req[r].basket) \in Nat
    BY <1>8, SaleTakes
  <2>4. Cardinality(Checked') = Cardinality(Checked)
    BY <2>1, <2>2, CheckedCount
  <2>5. OnOrder' = OnOrder /\ Standing' = Standing
    BY <2>1 DEF OnOrder, Standing
  <2>6. spoilt' = FALSE => PressInv'
    BY <1>4, <2>1, <2>2, <2>5
  <2>7. PICK h : h = Head(req[r].basket)
    OBVIOUS
  <2>8. stock' = stock - h /\ StillToTake = StillToTake' + h /\ h \in Nat
    BY <2>1, <2>3, <2>7
  <2>9. spoilt' = FALSE => stock' = OnHand - OnOrder' + StillToTake'
    <3>1. SUFFICES ASSUME spoilt' = FALSE
                   PROVE  stock' = OnHand - OnOrder' + StillToTake'
      OBVIOUS
    <3>2. stock = OnHand - OnOrder + StillToTake
      BY <2>1, <3>1 DEF ShelfInv
    <3>3. QED
      BY <1>2, <2>3, <2>5, <2>8, <3>2
  <2>10. stock' \in Int /\ Len(order') + Cardinality(Checked') <= MaxOrder
    BY <1>2, <2>1, <2>4, <2>8
  <2>11. QED
    BY <2>1, <2>6, <2>9, <2>10 DEF ShelfInv
<1>9. ASSUME NEW o \in DOMAIN order, ReadForCancel(r, o) \/ ReadForProcess(r, o)
      PROVE  ShelfInv'
  <2>1. PICK at \in {"cancelling", "processing"} :
          /\ req' = [req EXCEPT ![r] = [Idle EXCEPT !.at = at, !.order = o]]
          /\ at = "cancelling" => /\ order[o].status # "CANCELLED"
                                  /\ spoilt' = (spoilt \/ AtWork(o, {"cancelling", "processing"}))
          /\ at = "processing" =>
               spoilt' = (spoilt \/ order[o].status = "CANCELLED" \/ AtWork(o, {"cancelling"}))
    BY <1>9 DEF ReadForCancel, ReadForProcess
  <2>2. PICK v : v = [Idle EXCEPT !.at = at, !.order = o]
    OBVIOUS
  <2>3. v \in Reqs /\ v.at = at /\ v.order = o
    <3>1. o \in Nat
      BY <1>1
    <3>2. QED
      BY <1>3, <2>2, <3>1 DEF Reqs, Idle
  <2>4. /\ req' = [req EXCEPT ![r] = v] /\ req[r].at = "idle" /\ r \in Request \ Selling
        /\ UNCHANGED <<order, stock>>
    BY <1>9, <2>1, <2>2 DEF ReadForCancel, ReadForProcess, Selling
  <2>5. StillToTake' = StillToTake /\ OnOrder' = OnOrder /\ Standing' = Standing
    BY <2>3, <2>4, SalesSame DEF OnOrder, Standing
  <2>6. Cardinality(Checked') = Cardinality(Checked)
    BY <2>3, <2>4, CheckedCount
  <2>7. spoilt' \in BOOLEAN /\ (spoilt' = FALSE => spoilt = FALSE)
    BY <1>1, <2>1
  <2>8. ASSUME spoilt' = FALSE
        PROVE  PressInv'
    <3>1. PressInv /\ o \in Standing
      BY <2>1, <2>7, <2>8 DEF ShelfInv, Standing
    <3>2. /\ at = "cancelling" => \A q \in Pressing : req[q].order # o
          /\ \A q \in Pressing : req[q].at = "cancelling" => req[q].order # o
      BY <2>1, <2>8 DEF AtWork, Pressing
    <3>3. req'[r] = v /\ \A q \in Request \ {r} : req'[q] = req[q]
      BY <1>1, <2>4
    <3>4. Pressing' = Pressing \cup {r} /\ r \notin Pressing
      BY <2>3, <2>4, <3>3 DEF Pressing
    <3>5. \A q \in Pressing : req'[q] = req[q]
      BY <3>3, <3>4 DEF Pressing
    <3>6. ASSUME NEW q \in Pressing', req'[q].at = "cancelling",
                 NEW s \in Pressing', req'[s].order = req'[q].order
          PROVE  s = q
      BY <2>3, <3>1, <3>2, <3>3, <3>4, <3>5, <3>6 DEF PressInv
    <3>7. \A q \in Pressing' : req'[q].order \in Standing'
      BY <2>3, <2>5, <3>1, <3>3, <3>4, <3>5 DEF PressInv
    <3>8. QED
      BY <3>6, <3>7 DEF PressInv
  <2>9. QED
    BY <1>1, <1>2, <2>4, <2>5, <2>6, <2>7, <2>8 DEF ShelfInv
<1>10. ASSUME CommitCancel(r)
       PROVE  ShelfInv'
  <2>1. PICK o \in DOMAIN order : o = req[r].order
    BY <1>10, Unpacked DEF CommitCancel, ReqInv
  <2>2. /\ req[r].at = "cancelling" /\ r \in Request \ Selling /\ r \in Pressing
        /\ req' = [req EXCEPT ![r] = Idle] /\ UNCHANGED <<spoilt>>
        /\ stock' = stock + Total(order[o].basket)
        /\ order' = [order EXCEPT ![o].status = "CANCELLED"]
    BY <1>10, <2>1 DEF CommitCancel, Selling, Pressing
  <2>3. StillToTake' = StillToTake /\ Cardinality(Checked') = Cardinality(Checked)
    BY <1>3, <2>2, SalesSame, CheckedCount
  <2>4. Total(order[o].basket) \in Nat /\ Len(order') = Len(order)
    <3>1. Total(order[o].basket) \in Nat
      BY Baskets, BasketUnits
    <3>2. order' \in Seq(Order) /\ DOMAIN order' = DOMAIN order
      BY <1>1, <2>2, Unpacked, StatusSet DEF OrdersKept
    <3>3. QED
      BY <1>1, <3>1, <3>2
  <2>5. ASSUME spoilt' = FALSE
        PROVE  PressInv' /\ stock' = OnHand - OnOrder' + StillToTake'
    <3>1. /\ o \in Standing /\ PressInv
          /\ \A q \in Pressing : req[q].order = o => q = r
          /\ stock = OnHand - OnOrder + StillToTake
      BY <2>1, <2>2, <2>5 DEF ShelfInv, PressInv
    <3>2. OnOrder = OnOrder' + Total(order[o].basket) /\ OnOrder' \in Nat /\ Standing' = Standing \ {o}
      BY <2>2, <3>1, OrderTakes
    <3>3. \A q \in Pressing' : q # r /\ q \in Pressing /\ req'[q] = req[q]
      BY <1>1, <1>3, <2>2 DEF Pressing
    <3>4. PressInv'
      BY <3>1, <3>2, <3>3 DEF PressInv
    <3>5. PICK t \in Nat : t = Total(order[o].basket)
      BY <2>4
    <3>6. stock' = stock + t /\ OnOrder = OnOrder' + t /\ StillToTake' = StillToTake
      BY <2>2, <2>3, <3>2, <3>5
    <3>7. stock' = OnHand - OnOrder' + StillToTake'
      <4>1. stock = OnHand - OnOrder + StillToTake /\ OnHand \in Nat /\ OnOrder' \in Nat /\ StillToTake \in Nat
        BY <1>2, <3>1, <3>2
      <4>2. QED
        BY <3>6, <4>1
    <3>8. QED
      BY <3>4, <3>7
  <2>6. stock' \in Int /\ spoilt' \in BOOLEAN
    BY <1>1, <1>2, <2>2, <2>4
  <2>7. Len(order') + Cardinality(Checked') <= MaxOrder
    BY <1>2, <2>3, <2>4
  <2>8. QED
    BY <2>5, <2>6, <2>7 DEF ShelfInv
<1>11. ASSUME CommitProcess(r)
       PROVE  ShelfInv'
  <2>1. PICK o \in DOMAIN order : o = req[r].order
    BY <1>11, Unpacked DEF CommitProcess, ReqInv
  <2>2. /\ req[r].at = "processing" /\ r \in Request \ Selling /\ r \in Pressing
        /\ req' = [req EXCEPT ![r] = Idle] /\ UNCHANGED <<stock, spoilt>>
        /\ order' = [order EXCEPT ![o].status = "FULFILLED"]
    BY <1>11, <2>1 DEF CommitProcess, Selling, Pressing
  <2>3. StillToTake' = StillToTake /\ Cardinality(Checked') = Cardinality(Checked)
    BY <1>3, <2>2, SalesSame, CheckedCount
  <2>4. OrdersKept /\ DOMAIN order' = DOMAIN order /\ Len(order') = Len(order)
    <3>1. OrdersKept /\ DOMAIN order' = DOMAIN order
      BY <1>1, <2>2, Unpacked, StatusSet
    <3>2. QED
      BY <1>1, <3>1 DEF OrdersKept
  <2>5. ASSUME spoilt' = FALSE
        PROVE  PressInv' /\ stock' = OnHand - OnOrder' + StillToTake'
    <3>1. o \in Standing /\ PressInv /\ stock = OnHand - OnOrder + StillToTake
      BY <2>1, <2>2, <2>5 DEF ShelfInv, PressInv
    <3>2. Standing' = Standing
      <4>1. order'[o].status = "FULFILLED" /\ \A p \in DOMAIN order \ {o} : order'[p] = order[p]
        BY <1>1, <2>2, Unpacked, Ordered DEF Order
      <4>2. QED
        BY <2>4, <3>1, <4>1 DEF Standing
    <3>3. \A q \in Pressing' : q \in Pressing /\ req'[q] = req[q]
      BY <1>1, <1>3, <2>2 DEF Pressing
    <3>4. PressInv' /\ OnOrder' = OnOrder
      BY <2>4, <3>1, <3>2, <3>3, OrdersSame DEF PressInv
    <3>5. QED
      BY <2>2, <2>3, <3>1, <3>4
  <2>6. QED
    BY <1>1, <1>2, <2>2, <2>3, <2>4, <2>5 DEF ShelfInv
<1>12. ASSUME RequestDies(r)
       PROVE  ShelfInv'
  <2>1. /\ req' = [req EXCEPT ![r] = Idle] /\ UNCHANGED <<order, stock>>
        /\ spoilt' = (spoilt \/ req[r].at = "sold")
    BY <1>12 DEF RequestDies
  <2>2. Cardinality(Checked') = Cardinality(Checked) \/ Cardinality(Checked') = Cardinality(Checked) - 1
    BY <1>3, <2>1, CheckedCount
  <2>3. Len(order') + Cardinality(Checked') <= MaxOrder
    BY <1>1, <1>2, <2>1, <2>2
  <2>4. ASSUME spoilt' = FALSE
        PROVE  PressInv' /\ stock' = OnHand - OnOrder' + StillToTake'
    <3>1. spoilt = FALSE /\ r \in Request \ Selling
      BY <1>1, <2>1, <2>4 DEF Selling
    <3>2. PressInv /\ stock = OnHand - OnOrder + StillToTake
      BY <3>1 DEF ShelfInv
    <3>3. StillToTake' = StillToTake /\ OnOrder' = OnOrder /\ Standing' = Standing
      BY <1>3, <2>1, <3>1, SalesSame DEF OnOrder, Standing
    <3>4. \A q \in Pressing' : q \in Pressing /\ req'[q] = req[q]
      BY <1>1, <1>3, <2>1 DEF Pressing
    <3>5. PressInv'
      BY <3>2, <3>3, <3>4 DEF PressInv
    <3>6. QED
      BY <2>1, <3>2, <3>3, <3>5
  <2>5. spoilt' \in BOOLEAN
    BY <1>1, <2>1
  <2>6. QED
    BY <1>1, <1>2, <2>1, <2>3, <2>4, <2>5 DEF ShelfInv
<1>13. QED
  BY <1>5, <1>6, <1>7, <1>8, <1>9, <1>10, <1>11, <1>12 DEF Arrive, Proceed

\* Runs of the agent leave the stock and what is ordered alone.
LEMMA ShelfAgent ==
  ASSUME Good, ShelfInv,
         \/ \E a \in Agent : WriteBack(a) \/ MarkFails(a) \/ SaleFails(a) \/ AgentDies(a)
         \/ \E m \in late : LateMark(m)
  PROVE  ShelfInv'
<1>1. UNCHANGED <<stock, req, spoilt>>
  BY DEF WriteBack, Fetch, WriteHeader, WriteLine, MarkSynced, MarkFails, SaleFails, AgentDies, LateMark,
         webVars, shopVars
<1>2. \/ UNCHANGED order
      \/ \E m \in [order : DOMAIN order, receipt : Nat] : SetSynced(m)
  BY ThisMarkFacts, Unpacked DEF WriteBack, Fetch, WriteHeader, WriteLine, MarkSynced, MarkFails, SaleFails,
         AgentDies, LateMark, webVars, shopVars
<1>3. OnOrder' = OnOrder /\ Standing' = Standing /\ Len(order') = Len(order) /\ DOMAIN order' = DOMAIN order
  <2>1. CASE UNCHANGED order
    BY <2>1 DEF OnOrder, Standing
  <2>2. CASE \E m \in [order : DOMAIN order, receipt : Nat] : SetSynced(m)
    <3>1. PICK m \in [order : DOMAIN order, receipt : Nat] : SetSynced(m)
      BY <2>2
    <3>2. /\ OrdersKept /\ DOMAIN order' = DOMAIN order
          /\ \A o \in DOMAIN order \ {m.order} : order'[o] = order[o]
      BY <3>1, Unpacked, MarkSet
    <3>3. order'[m.order].status = order[m.order].status
      <4>1. order \in Seq(Order) /\ order[m.order] \in Order /\ m.order \in DOMAIN order
        BY Unpacked, Ordered DEF RowsOK
      <4>2. QED
        BY <3>1, <4>1 DEF SetSynced, Order
    <3>4. Standing' = Standing
      BY <3>2, <3>3 DEF Standing
    <3>5. Len(order') = Len(order)
      BY <3>2, Unpacked DEF OrdersKept, RowsOK
    <3>6. QED
      BY <3>2, <3>4, <3>5, OrdersSame
  <2>3. QED
    BY <1>2, <2>1, <2>2
<1>4. StillToTake' = StillToTake /\ Checked' = Checked /\ Pressing' = Pressing
  BY <1>1 DEF StillToTake, Selling, Checked, Pressing
<1>5. PressInv' <=> PressInv
  BY <1>1, <1>3, <1>4 DEF PressInv
<1>6. QED
  BY <1>1, <1>3, <1>4, <1>5 DEF ShelfInv

LEMMA ShelfInit == Init => ShelfInv
<1> SUFFICES ASSUME Init
             PROVE  ShelfInv
  OBVIOUS
<1>1. /\ order = <<>> /\ DOMAIN order = {} /\ Len(order) = 0 /\ spoilt = FALSE
      /\ stock = OnHand /\ OnHand \in Nat /\ MaxOrder \in Nat
      /\ \A r \in Request : req[r].at = "idle"
  BY WebSalesConstantsOK DEF Init, Idle
<1>2. Standing = {} /\ Selling = {} /\ Checked = {} /\ Pressing = {}
  BY <1>1 DEF Standing, Selling, Checked, Pressing
<1>3. OnOrder = 0 /\ StillToTake = 0 /\ Cardinality(Checked) = 0
  <2>1. \A f : DOMAIN f = {} => Tagged(f) = {}
    BY DEF Tagged
  <2>2. QED
    BY <1>2, <2>1, FS_EmptySet DEF OnOrder, StillToTake
<1>4. PressInv
  BY <1>2 DEF PressInv
<1>5. stock = OnHand - OnOrder + StillToTake /\ Len(order) + Cardinality(Checked) <= MaxOrder
  BY <1>1, <1>3
<1>6. stock \in Int
  BY <1>1
<1>7. spoilt \in BOOLEAN
  BY <1>1
<1>8. QED
  BY <1>4, <1>5, <1>6, <1>7 DEF ShelfInv

LEMMA ShelfNext == Good /\ ShelfInv /\ [Next]_vars => ShelfInv'
<1> SUFFICES ASSUME Good, ShelfInv, [Next]_vars
             PROVE  ShelfInv'
  OBVIOUS
<1>1. CASE Next
  BY <1>1, ShelfRequest, ShelfAgent DEF Next
<1>2. CASE UNCHANGED vars
  BY <1>2 DEF ShelfInv, PressInv, OnOrder, StillToTake, Standing, Selling, Checked, Pressing, vars, webVars
<1>3. QED
  BY <1>1, <1>2

LEMMA ShelfInductive == Spec => [](Good /\ ShelfInv)
  BY GoodInit, GoodNext, ShelfInit, ShelfNext, PTL DEF Spec

\* Orders, receipts, requests and runs of the agent stay of their kind, a receipt is
\* always some order's, the stock is a number, and requests at once never place more
\* orders than the bound.
THEOREM TypeCorrect == Spec => []TypeOK
<1>1. Good /\ ShelfInv => TypeOK
  <2> SUFFICES ASSUME Good, ShelfInv
               PROVE  TypeOK
    OBVIOUS
  <2>1. RowsOK /\ Len(order) \in Nat /\ MaxOrder \in Nat /\ Cardinality(Checked) \in Nat
    BY Unpacked, Sums, WebSalesConstantsOK DEF RowsOK
  <2>2. QED
    BY <2>1 DEF TypeOK, ShelfInv
<1>2. QED
  BY <1>1, ShelfInductive, PTL

\* What is missing from the shelf is what the orders not cancelled took, whatever the
\* requests do between each other's steps, until a cancellation and another press of the
\* same order overlap (POST /orders/:id/cancel), Telegram's button is pressed for an order
\* that is cancelled, or a counter sale breaks off between its lines (POST /pos/sale).
THEOREM ShelfMatches == Spec => []ShelfMatchesOrders
<1>1. ShelfInv => ShelfMatchesOrders
  BY DEF ShelfInv, ShelfMatchesOrders
<1>2. QED
  BY <1>1, ShelfInductive, PTL
=============================================================================
