--------------------- MODULE CollectionTicketsProofs ---------------------
(***************************************************************************)
(* Proofs about CollectionTickets, for every set of tickets, staff, agents *)
(* and overlapping pushes, and every number of changes and faults.         *)
(***************************************************************************)
EXTENDS CollectionTickets, SequenceTheorems, TLAPS

-----------------------------------------------------------------------------
(* Lemmas about the queue.                                                 *)

\* Queueing a press lengthens the queue by that press.
LEMMA QueueGrows ==
  ASSUME NEW q \in Seq(Change), NEW ch \in Change
  PROVE  /\ Append(q, ch) \in Seq(Change)
         /\ Len(Append(q, ch)) = Len(q) + 1
         /\ \A i \in 1..Len(q) : Append(q, ch)[i] = q[i]
         /\ Append(q, ch)[Len(q) + 1] = ch
BY AppendProperties

\* Marking a change leaves the length, the other changes, and what the change
\* asks for as they were.
LEMMA MarkKeeps ==
  ASSUME NEW q \in Seq(Change), NEW i \in 1..Len(q),
         NEW st \in {"pending", "applied", "failed"},
         NEW r, r = [q EXCEPT ![i].status = st]
  PROVE  /\ r \in Seq(Change)
         /\ Len(r) = Len(q)
         /\ r[i].status = st
         /\ \A j \in 1..Len(q) : /\ r[j].ticket = q[j].ticket
                                 /\ r[j].kind = q[j].kind
                                 /\ j # i => r[j] = q[j]
<1> DEFINE ch == [q[i] EXCEPT !.status = st]
<1>1. \A j \in 1..Len(q) : q[j] \in Change
  BY ElementOfSeq
<1>2. ch \in Change /\ ch.status = st /\ ch.ticket = q[i].ticket /\ ch.kind = q[i].kind
  BY <1>1 DEF Change
<1>3. r = [q EXCEPT ![i] = ch]
  OBVIOUS
<1>4. /\ [q EXCEPT ![i] = ch] \in Seq(Change)
      /\ Len([q EXCEPT ![i] = ch]) = Len(q)
      /\ \A j \in 1..Len(q) : [q EXCEPT ![i] = ch][j] = IF j = i THEN ch ELSE q[j]
  BY <1>2, ExceptSeq
<1>5. QED
  BY <1>2, <1>3, <1>4

-----------------------------------------------------------------------------
(* Type correctness.                                                       *)

LEMMA TypeInit == Init => TypeOK
BY ConstantsOK DEF Init, TypeOK, NothingRead, FreeCall, Idle, State, CallRecord, Where

LEMMA TargetType == \A k \in Kind : Target(k) \in State \ {"absent", "OPEN", "CANCELLED"}
BY DEF Kind, Target, State

LEMMA TypeTill ==
  ASSUME TypeOK, NEW t \in Ticket, TillStep(t)
  PROVE  TypeOK'
<1>1. CASE TillIssue(t)
  BY <1>1 DEF TypeOK, TillIssue, webVars, agentVars, State
<1>2. CASE TillReady(t)
  BY <1>2 DEF TypeOK, TillReady, webVars, agentVars, State
<1>3. CASE TillCollect(t)
  BY <1>3 DEF TypeOK, TillCollect, webVars, agentVars, State
<1>4. CASE TillCancel(t)
  BY <1>4 DEF TypeOK, TillCancel, webVars, agentVars, State
<1>5. QED
  BY <1>1, <1>2, <1>3, <1>4 DEF TillStep

LEMMA TypeDesk ==
  ASSUME TypeOK, NEW s \in Staff,
         \/ \E t \in Ticket, k \in Kind : FindTicket(s, t, k)
         \/ DeskStep(s) \/ DeskDies(s)
  PROVE  TypeOK'
<1> USE DEF shopVars, agentVars
<1>1. CASE \E t \in Ticket, k \in Kind : FindTicket(s, t, k)
  BY <1>1 DEF TypeOK, FindTicket, Press
<1>2. CASE QueueChange(s)
  <2> DEFINE ch == [ticket |-> desk[s].press.ticket, kind |-> desk[s].press.kind,
                    status |-> "pending"]
  <2>1. desk[s] \in [at : {"found", "queued"}, press : Press]
    BY <1>2 DEF TypeOK, QueueChange, Idle
  <2>2. ch \in Change
    BY <2>1 DEF Press, Change
  <2>3. queue' \in Seq(Change) /\ Len(queue') = Len(queue) + 1
    BY <1>2, <2>2, QueueGrows DEF TypeOK, QueueChange
  <2>4. todo' \in [Agent -> SUBSET (1..Len(queue'))]
    <3>1. Len(queue) \in Nat
      BY LenProperties DEF TypeOK
    <3>2. 1..Len(queue) \subseteq 1..Len(queue')
      BY <2>3, <3>1
    <3>3. QED
      BY <1>2, <3>2 DEF TypeOK, QueueChange
  <2>5. desk' \in [Staff -> {Idle} \cup [at : {"found", "queued"}, press : Press]]
    BY <1>2, <2>1 DEF TypeOK, QueueChange
  <2>6. QED
    BY <1>2, <2>3, <2>4, <2>5 DEF TypeOK, QueueChange
<1>3. CASE MoveCard(s)
  <2>1. desk[s] \in [at : {"found", "queued"}, press : Press]
    BY <1>3 DEF TypeOK, MoveCard, Idle
  <2>2. Target(desk[s].press.kind) \in State
    BY <2>1, TargetType DEF Press
  <2>3. QED
    BY <1>3, <2>2 DEF TypeOK, MoveCard
<1>4. CASE DeskDies(s)
  BY <1>4, ConstantsOK DEF TypeOK, DeskDies, Fault
<1>5. QED
  BY <1>1, <1>2, <1>3, <1>4 DEF DeskStep

LEMMA TypeCall ==
  ASSUME TypeOK, NEW c \in Call, CallStep(c) \/ CallDies(c)
  PROVE  TypeOK'
<1> USE DEF shopVars, webVars, agentVars
<1>1. CASE ReadHeld(c)
  <2>1. Held \subseteq Ticket
    <3>1. \A i \in 1..Len(queue) : queue[i] \in Change
      BY ElementOfSeq DEF TypeOK
    <3>2. QED
      BY <3>1 DEF Held, Pending, Change
  <2>2. call' \in [Call -> CallRecord]
    <3> DEFINE new == [call[c] EXCEPT !.at = "writing", !.held = Held]
    <3>1. new \in CallRecord
      <4>1. call[c] \in CallRecord
        BY DEF TypeOK
      <4>2. QED
        BY <2>1, <4>1 DEF CallRecord
    <3>2. call' = [call EXCEPT ![c] = new]
      BY <1>1 DEF ReadHeld
    <3>3. QED
      BY <3>1, <3>2 DEF TypeOK
  <2>3. QED
    BY <1>1, <2>2 DEF TypeOK, ReadHeld
<1>2. ASSUME NEW t \in Ticket, UpsertRow(c, t)
      PROVE  TypeOK'
  <2>1. Upserted(c, t) \in State
    BY DEF TypeOK, Upserted, CallRecord
  <2> DEFINE new == [call[c] EXCEPT !.left = @ \ {t}]
  <2>2. new \in CallRecord
    <3>1. call[c] \in CallRecord
      BY DEF TypeOK
    <3>2. QED
      BY <3>1 DEF CallRecord
  <2>3. call' = [call EXCEPT ![c] = new]
    BY <1>2 DEF UpsertRow
  <2>4. call' \in [Call -> CallRecord]
    BY <2>2, <2>3 DEF TypeOK
  <2>5. board' \in [Ticket -> State]
    BY <1>2, <2>1 DEF TypeOK, UpsertRow
  <2>6. QED
    BY <1>2, <2>4, <2>5 DEF TypeOK, UpsertRow
<1>3. ASSUME NEW more \in SUBSET Agent, AfterSlice(c, more)
      PROVE  /\ pc' \in [Agent -> Where]
             /\ on' \in [Agent -> Call \cup {NoCall}]
             /\ snap' \in [Agent -> [Ticket -> State]]
             /\ rest' \in [Agent -> SUBSET Ticket]
  BY <1>3 DEF TypeOK, AfterSlice, NothingRead, State, Where
<1>4. FreeCall \in CallRecord
  BY DEF CallRecord, FreeCall, NothingRead, State
<1>5. CASE AnswerPush(c)
  <2>1. {a \in Awaiting(c) : rest[a] # {}} \in SUBSET Agent
    BY DEF Awaiting
  <2>2. QED
    BY <1>3, <1>4, <1>5, <2>1 DEF TypeOK, AnswerPush
<1>6. CASE CallDies(c)
  BY <1>3, <1>4, <1>6, ConstantsOK DEF TypeOK, CallDies, Fault
<1>7. QED
  BY <1>1, <1>2, <1>5, <1>6 DEF CallStep

LEMMA TypePush ==
  ASSUME TypeOK, NEW a \in Agent,
         \/ \E back \in {0, CatchUpDays} : SelectTickets(a, back)
         \/ \E c \in Call : SendSlice(a, c)
         \/ PushFails(a) \/ AgentDies(a)
  PROVE  TypeOK'
<1> USE DEF shopVars, webVars
<1>0. NothingRead \in [Ticket -> State]
  BY DEF NothingRead, State
<1>1. ASSUME NEW back \in {0, CatchUpDays}, SelectTickets(a, back)
      PROVE  TypeOK'
  BY <1>1 DEF TypeOK, SelectTickets, Selected, State, Where
<1>2. ASSUME NEW c \in Call, SendSlice(a, c)
      PROVE  TypeOK'
  <2>1. PICK slice \in SUBSET rest[a] :
          /\ call' = [call EXCEPT ![c] = [at |-> "received", rows |-> snap[a],
                                          held |-> {}, left |-> slice]]
          /\ rest' = [rest EXCEPT ![a] = @ \ slice]
    BY <1>2 DEF SendSlice
  <2>2. [at |-> "received", rows |-> snap[a], held |-> {}, left |-> slice] \in CallRecord
    BY DEF TypeOK, CallRecord
  <2>3. call' \in [Call -> CallRecord] /\ rest' \in [Agent -> SUBSET Ticket]
    BY <2>1, <2>2 DEF TypeOK
  <2>4. QED
    BY <1>2, <2>3 DEF TypeOK, SendSlice, Where
<1>3. CASE PushFails(a)
  BY <1>0, <1>3, ConstantsOK DEF TypeOK, PushFails, Fault, Where
<1>4. CASE AgentDies(a)
  BY <1>0, <1>4, ConstantsOK DEF TypeOK, AgentDies, Fault, Where
<1>5. QED
  BY <1>1, <1>2, <1>3, <1>4

\* What an UPDATE leaves in the tickets table.
LEMMA UpdateType ==
  ASSUME TypeOK, NEW i \in 1..Len(queue), Update(queue[i])
  PROVE  /\ shop' \in [Ticket -> State]
         /\ closedBy' \in [Ticket -> {"nobody", "till", "web"}]
<1>1. queue[i] \in Change
  BY ElementOfSeq DEF TypeOK
<1>2. Target(queue[i].kind) \in State
  BY <1>1, TargetType DEF Change
<1>3. QED
  BY <1>2 DEF TypeOK, Update, shopVars

\* What finishing with change i, with or without marking it, leaves behind.
LEMMA ReportType ==
  ASSUME TypeOK, NEW a \in Agent, NEW i \in todo[a],
         UNCHANGED queue \/ \E st \in {"applied", "failed"} : Mark(i, st)
  PROVE  /\ i \in 1..Len(queue)
         /\ queue' \in Seq(Change)
         /\ Len(queue') = Len(queue)
<1>1. i \in 1..Len(queue)
  BY DEF TypeOK
<1>2. queue \in Seq(Change)
  BY DEF TypeOK
<1>3. ASSUME NEW st \in {"applied", "failed"}, Mark(i, st)
      PROVE  queue' \in Seq(Change) /\ Len(queue') = Len(queue)
  <2>1. queue' = [queue EXCEPT ![i].status = st]
    BY <1>3 DEF Mark
  <2>2. st \in {"pending", "applied", "failed"}
    OBVIOUS
  <2>3. QED
    BY <1>1, <1>2, <2>1, <2>2, MarkKeeps
<1>4. QED
  BY <1>1, <1>2, <1>3

\* Finishing with a change leaves the agent's own state well-typed.
LEMMA FinishType ==
  ASSUME TypeOK, NEW a \in Agent, NEW i \in todo[a], Finish(a, i)
  PROVE  /\ pc' \in [Agent -> Where]
         /\ todo' \in [Agent -> SUBSET (1..Len(queue))]
BY DEF TypeOK, Finish, Where

LEMMA TypeApply ==
  ASSUME TypeOK, NEW a \in Agent,
         \/ FetchChanges(a) \/ ApplyChange(a) \/ ApplyFails(a) \/ RefuseChange(a)
         \/ ReportApplied(a) \/ ReportAppliedFails(a) \/ ReportFailed(a)
         \/ ReportRefusal(a) \/ ReportFailedFails(a)
  PROVE  TypeOK'
<1>0. \A i \in todo[a] : i \in 1..Len(queue)
  BY DEF TypeOK
<1>1. CASE FetchChanges(a)
  <2>1. Oldest \subseteq 1..Len(queue)
    BY DEF Oldest, Pending
  <2>2. QED
    BY <1>1, <2>1 DEF TypeOK, FetchChanges, Where, shopVars, webVars
<1>2. CASE ApplyChange(a)
  <2>1. PICK i \in todo[a] : Update(queue[i])
    BY <1>2 DEF ApplyChange
  <2>2. /\ shop' \in [Ticket -> State]
        /\ closedBy' \in [Ticket -> {"nobody", "till", "web"}]
    BY <1>0, <2>1, UpdateType
  <2>3. QED
    BY <1>2, <2>2 DEF TypeOK, ApplyChange, Where, webVars
<1>3. CASE ApplyFails(a)
  <2>1. UNCHANGED shopVars \/ \E i \in todo[a] : Update(queue[i])
    BY <1>3 DEF ApplyFails
  <2>2. /\ shop' \in [Ticket -> State]
        /\ closedBy' \in [Ticket -> {"nobody", "till", "web"}]
    BY <1>0, <2>1, UpdateType DEF TypeOK, shopVars
  <2>3. QED
    BY <1>3, <2>2, ConstantsOK DEF TypeOK, ApplyFails, Fault, Where, webVars
<1>4. CASE RefuseChange(a)
  BY <1>4 DEF TypeOK, RefuseChange, Where, shopVars, webVars
<1>5. CASE ReportApplied(a)
  <2>1. PICK i \in todo[a] : Mark(i, "applied") /\ Finish(a, i)
    BY <1>5 DEF ReportApplied
  <2>2. queue' \in Seq(Change) /\ Len(queue') = Len(queue)
    BY <2>1, ReportType
  <2>3. QED
    BY <1>5, <2>1, <2>2 DEF TypeOK, ReportApplied, Finish, Mark, Where, shopVars
<1>6. CASE ReportAppliedFails(a)
  <2>1. PICK i \in todo[a] :
          \/ UNCHANGED webVars /\ Finish(a, i)
          \/ /\ Mark(i, "applied") \/ UNCHANGED webVars
             /\ pc' = [pc EXCEPT ![a] = "errored"]
             /\ UNCHANGED todo
    BY <1>6 DEF ReportAppliedFails
  <2>2. queue' \in Seq(Change) /\ Len(queue') = Len(queue)
    BY <2>1, ReportType DEF webVars
  <2>3. UNCHANGED <<board, desk>>
    BY <2>1 DEF webVars, Mark
  <2>4. /\ pc' \in [Agent -> Where]
        /\ todo' \in [Agent -> SUBSET (1..Len(queue))]
    <3>1. CASE Finish(a, i)
      BY <3>1, FinishType
    <3>2. CASE pc' = [pc EXCEPT ![a] = "errored"] /\ UNCHANGED todo
      BY <3>2 DEF TypeOK, Where
    <3>3. QED
      BY <2>1, <3>1, <3>2
  <2>5. QED
    BY <1>6, <2>2, <2>3, <2>4, ConstantsOK
    DEF TypeOK, ReportAppliedFails, Fault, shopVars
<1>7. CASE ReportFailed(a)
  <2>1. PICK i \in todo[a] : Mark(i, "failed") /\ Finish(a, i)
    BY <1>7 DEF ReportFailed
  <2>2. queue' \in Seq(Change) /\ Len(queue') = Len(queue)
    BY <2>1, ReportType
  <2>3. QED
    BY <1>7, <2>1, <2>2 DEF TypeOK, ReportFailed, Finish, Mark, Where, shopVars
<1>8. CASE ReportRefusal(a)
  BY <1>8 DEF TypeOK, ReportRefusal, Finish, Where, shopVars, webVars
<1>9. CASE ReportFailedFails(a)
  <2>1. UNCHANGED webVars \/ \E i \in todo[a] : Mark(i, "failed")
    BY <1>9 DEF ReportFailedFails
  <2>2. queue' \in Seq(Change) /\ Len(queue') = Len(queue)
    BY <2>1, ReportType DEF TypeOK, webVars
  <2>3. UNCHANGED <<board, desk>>
    BY <2>1 DEF webVars, Mark
  <2>4. QED
    BY <1>9, <2>2, <2>3, ConstantsOK DEF TypeOK, ReportFailedFails, Fault, Where, shopVars
<1>10. QED
  BY <1>1, <1>2, <1>3, <1>4, <1>5, <1>6, <1>7, <1>8, <1>9

LEMMA TypeStep == TypeOK /\ [Next]_vars => TypeOK'
<1> SUFFICES ASSUME TypeOK, [Next]_vars PROVE TypeOK'
  OBVIOUS
<1>1. CASE NextDay
  BY <1>1, ConstantsOK DEF TypeOK, NextDay, shopVars, webVars, agentVars
<1>2. CASE UNCHANGED vars
  BY <1>2 DEF TypeOK, vars, shopVars, webVars, agentVars
<1>3. CASE \E t \in Ticket : TillStep(t)
  BY <1>3, TypeTill
<1>4. CASE \E s \in Staff : \/ \E t \in Ticket, k \in Kind : FindTicket(s, t, k)
                            \/ DeskStep(s) \/ DeskDies(s)
  BY <1>4, TypeDesk
<1>5. CASE \E c \in Call : CallStep(c) \/ CallDies(c)
  BY <1>5, TypeCall
<1>6. CASE \E a \in Agent : AgentStep(a) \/ AgentFault(a)
  BY <1>6, TypePush, TypeApply DEF AgentStep, AgentFault
<1>7. QED
  BY <1>1, <1>2, <1>3, <1>4, <1>5, <1>6 DEF Next

\* Every reachable state is well-typed: in particular no handler, agent or
\* retry ever brings a state name or a change status the others do not know.
THEOREM TypeCorrect == Spec => []TypeOK
<1>1. QED
  BY TypeInit, TypeStep, PTL DEF Spec

-----------------------------------------------------------------------------
(* The safety invariant.  Seven lemmas say where a step can take each      *)
(* variable; the conjuncts of TicketsInv then follow from them one by one. *)

LEMMA RankFacts ==
  /\ Rank("absent") = 0 /\ Rank("OPEN") = 1 /\ Rank("READY") = 2
  /\ Rank("COLLECTED") = 3 /\ Rank("CANCELLED") = 3
  /\ \A st \in State : Rank(st) \in 0..3 /\ (Rank(st) = 0 <=> st = "absent")
BY DEF Rank, State

\* An UPDATE that finds its row leaves it at least where the press wanted it,
\* whether its WHERE clause matched or not.
LEMMA UpdateLands ==
  ASSUME TypeOK, NEW i \in 1..Len(queue), Update(queue[i])
  PROVE  /\ \A t \in Ticket : Rank(shop[t]) <= Rank(shop'[t])
         /\ shop[queue[i].ticket] # "absent" =>
              Rank(shop'[queue[i].ticket]) >= Rank(Target(queue[i].kind))
<1>1. queue[i].ticket \in Ticket /\ queue[i].kind \in Kind
  <2>1. queue \in Seq(Change)
    BY DEF TypeOK
  <2>2. queue[i] \in Change
    BY <2>1, ElementOfSeq
  <2>3. QED
    BY <2>2 DEF Change
<1>2. shop \in [Ticket -> State]
  BY DEF TypeOK
<1>3. CASE queue[i].kind = "ticket_ready"
  BY <1>1, <1>2, <1>3, RankFacts DEF Update, From, Target, State, shopVars
<1>4. CASE queue[i].kind = "ticket_collected"
  BY <1>1, <1>2, <1>4, RankFacts DEF Update, From, Target, State, shopVars
<1>5. QED
  BY <1>1, <1>3, <1>4 DEF Kind

\* No step takes a ticket back in the shop's database.
LEMMA ShopForward ==
  ASSUME TypeOK, [Next]_vars
  PROVE  \A t \in Ticket : Rank(shop[t]) <= Rank(shop'[t])
<1>1. \A t \in Ticket : Rank(shop[t]) \in 0..3
  BY RankFacts DEF TypeOK
<1>2. CASE UNCHANGED shop
  BY <1>1, <1>2
<1>3. ASSUME NEW t \in Ticket, TillStep(t)
      PROVE  \A u \in Ticket : Rank(shop[u]) <= Rank(shop'[u])
  <2>1. \A u \in Ticket : Rank(shop[u]) \in 0..3
    BY RankFacts DEF TypeOK
  <2>2. \/ shop[t] = "absent" /\ shop' = [shop EXCEPT ![t] = "OPEN"]
        \/ shop[t] = "OPEN" /\ shop' = [shop EXCEPT ![t] = "READY"]
        \/ shop[t] \in {"OPEN", "READY"} /\ shop' = [shop EXCEPT ![t] = "COLLECTED"]
        \/ shop[t] \in {"OPEN", "READY"} /\ shop' = [shop EXCEPT ![t] = "CANCELLED"]
    BY <1>3 DEF TillStep, TillIssue, TillReady, TillCollect, TillCancel
  <2>3. shop \in [Ticket -> State]
    BY DEF TypeOK
  <2>4. ASSUME NEW st \in State, Rank(shop[t]) <= Rank(st), shop' = [shop EXCEPT ![t] = st]
        PROVE  \A u \in Ticket : Rank(shop[u]) <= Rank(shop'[u])
    BY <2>1, <2>3, <2>4
  <2>5. {"OPEN", "READY", "COLLECTED", "CANCELLED"} \subseteq State
    BY DEF State
  <2>6. QED
    BY <2>2, <2>4, <2>5, RankFacts
<1>4. ASSUME NEW a \in Agent, NEW i \in todo[a], Update(queue[i])
      PROVE  \A t \in Ticket : Rank(shop[t]) <= Rank(shop'[t])
  BY <1>4, UpdateLands DEF TypeOK
<1>5. ASSUME NEW a \in Agent, AgentStep(a) \/ AgentFault(a)
      PROVE  UNCHANGED shop \/ \E i \in todo[a] : Update(queue[i])
  BY <1>5 DEF AgentStep, AgentFault, SelectTickets, SendSlice, FetchChanges, ApplyChange,
              RefuseChange, ReportApplied, ReportFailed, ReportRefusal, PushFails,
              ApplyFails, ReportAppliedFails, ReportFailedFails, AgentDies, shopVars
<1>6. ASSUME NEW s \in Staff, \/ \E t \in Ticket, k \in Kind : FindTicket(s, t, k)
                              \/ DeskStep(s) \/ DeskDies(s)
      PROVE  UNCHANGED shop
  BY <1>6 DEF DeskStep, FindTicket, QueueChange, MoveCard, DeskDies, shopVars
<1>7. ASSUME NEW c \in Call, CallStep(c) \/ CallDies(c)
      PROVE  UNCHANGED shop
  BY <1>7 DEF CallStep, ReadHeld, UpsertRow, AnswerPush, CallDies, shopVars
<1>8. QED
  BY <1>2, <1>3, <1>4, <1>5, <1>6, <1>7 DEF Next, NextDay, vars, shopVars

\* Changes are only ever added at the end, for a ticket some handler has found,
\* and only an agent that saw the current change land marks it applied.
LEMMA QueueForward ==
  ASSUME TypeOK, [Next]_vars
  PROVE  /\ Len(queue') >= Len(queue) /\ Len(queue) \in Nat /\ Len(queue') \in Nat
         /\ \A i \in 1..Len(queue) :
              /\ queue'[i].ticket = queue[i].ticket
              /\ queue'[i].kind = queue[i].kind
              /\ queue'[i].status = "applied" =>
                   \/ queue[i].status = "applied"
                   \/ \E a \in Agent : pc[a] = "landed" /\ Current(a, i)
         /\ \A i \in (1..Len(queue')) \ (1..Len(queue)) :
              /\ queue'[i].status = "pending"
              /\ \E s \in Staff : /\ desk[s].at = "found"
                                  /\ queue'[i].ticket = desk[s].press.ticket
<1>0. queue \in Seq(Change) /\ Len(queue) \in Nat
  BY LenProperties DEF TypeOK
<1>1. CASE UNCHANGED queue
  BY <1>0, <1>1
<1>2. ASSUME NEW s \in Staff, QueueChange(s)
      PROVE  /\ Len(queue') = Len(queue) + 1
             /\ \A i \in 1..Len(queue) : queue'[i] = queue[i]
             /\ queue'[Len(queue) + 1].status = "pending"
             /\ desk[s].at = "found"
             /\ queue'[Len(queue) + 1].ticket = desk[s].press.ticket
  <2> DEFINE ch == [ticket |-> desk[s].press.ticket, kind |-> desk[s].press.kind,
                    status |-> "pending"]
  <2>1. desk[s] \in [at : {"found", "queued"}, press : Press]
    BY <1>2 DEF TypeOK, QueueChange, Idle
  <2>2. ch \in Change
    BY <2>1 DEF Press, Change
  <2>3. queue' = Append(queue, ch) /\ desk[s].at = "found"
    BY <1>2 DEF QueueChange
  <2>4. QED
    BY <1>0, <2>2, <2>3, QueueGrows
<1>3. ASSUME NEW a \in Agent, NEW i \in todo[a], Current(a, i),
             NEW st \in {"applied", "failed"}, Mark(i, st),
             st = "applied" => pc[a] = "landed"
      PROVE  /\ Len(queue') = Len(queue)
             /\ \A j \in 1..Len(queue) :
                  /\ queue'[j].ticket = queue[j].ticket
                  /\ queue'[j].kind = queue[j].kind
                  /\ queue'[j].status = "applied" =>
                       \/ queue[j].status = "applied"
                       \/ \E b \in Agent : pc[b] = "landed" /\ Current(b, j)
  <2>1. i \in 1..Len(queue) /\ st \in {"pending", "applied", "failed"}
    BY DEF TypeOK
  <2>2. queue' = [queue EXCEPT ![i].status = st]
    BY <1>3 DEF Mark
  <2>3. /\ Len(queue') = Len(queue)
        /\ queue'[i].status = st
        /\ \A j \in 1..Len(queue) : /\ queue'[j].ticket = queue[j].ticket
                                    /\ queue'[j].kind = queue[j].kind
                                    /\ j # i => queue'[j] = queue[j]
    BY <1>0, <2>1, <2>2, MarkKeeps
  <2>4. QED
    BY <1>3, <2>3
<1>4. ASSUME NEW a \in Agent, AgentStep(a) \/ AgentFault(a)
      PROVE  \/ UNCHANGED queue
             \/ \E i \in todo[a], st \in {"applied", "failed"} :
                  Current(a, i) /\ Mark(i, st) /\ (st = "applied" => pc[a] = "landed")
  BY <1>4 DEF AgentStep, AgentFault, SelectTickets, SendSlice, FetchChanges, ApplyChange,
              RefuseChange, ReportApplied, ReportFailed, ReportRefusal, PushFails,
              ApplyFails, ReportAppliedFails, ReportFailedFails, AgentDies, webVars
<1>5. ASSUME NEW s \in Staff, \/ \E t \in Ticket, k \in Kind : FindTicket(s, t, k)
                              \/ DeskStep(s) \/ DeskDies(s)
      PROVE  UNCHANGED queue \/ QueueChange(s)
  BY <1>5 DEF DeskStep, FindTicket, MoveCard, DeskDies
<1>6. ASSUME NEW c \in Call, CallStep(c) \/ CallDies(c)
      PROVE  UNCHANGED queue
  BY <1>6 DEF CallStep, ReadHeld, UpsertRow, AnswerPush, CallDies, webVars
<1>7. ASSUME NEW t \in Ticket, TillStep(t)
      PROVE  UNCHANGED queue
  BY <1>7 DEF TillStep, TillIssue, TillReady, TillCollect, TillCancel, webVars
<1>8. \/ UNCHANGED queue
      \/ \E s \in Staff : QueueChange(s)
      \/ \E a \in Agent : \E i \in todo[a], st \in {"applied", "failed"} :
           Current(a, i) /\ Mark(i, st) /\ (st = "applied" => pc[a] = "landed")
  BY <1>4, <1>5, <1>6, <1>7 DEF Next, NextDay, vars, webVars
<1>9. CASE \E s \in Staff : QueueChange(s)
  <2>1. PICK s \in Staff : QueueChange(s)
    BY <1>9
  <2>2. \A i \in (1..Len(queue')) \ (1..Len(queue)) : i = Len(queue) + 1
    BY <1>0, <1>2, <2>1
  <2>3. QED
    BY <1>0, <1>2, <2>1, <2>2
<1>10. CASE \E a \in Agent : \E i \in todo[a], st \in {"applied", "failed"} :
              Current(a, i) /\ Mark(i, st) /\ (st = "applied" => pc[a] = "landed")
  BY <1>0, <1>3, <1>10
<1>11. QED
  BY <1>1, <1>8, <1>9, <1>10

\* What the agents carry is the shop's past.
LEMMA SnapInvStep ==
  ASSUME TypeOK, [Next]_vars, SnapInv
  PROVE  SnapInv'
<1>1. \A a \in Agent, t \in Ticket :
        \/ snap'[a][t] = snap[a][t] \/ snap'[a][t] = "absent" \/ snap'[a][t] = shop[t]
  <2>1. CASE UNCHANGED snap
    BY <2>1
  <2>2. ASSUME NEW a \in Agent, AgentStep(a) \/ AgentFault(a)
        PROVE  \/ UNCHANGED snap
               \/ snap' = [snap EXCEPT ![a] = NothingRead]
               \/ \E back \in {0, CatchUpDays} : SelectTickets(a, back)
    BY <2>2 DEF AgentStep, AgentFault, SendSlice, FetchChanges, ApplyChange,
                RefuseChange, ReportApplied, ReportFailed, ReportRefusal, PushFails,
                ApplyFails, ReportAppliedFails, ReportFailedFails, AgentDies
  <2>3. ASSUME NEW c \in Call, CallStep(c) \/ CallDies(c)
        PROVE  UNCHANGED snap \/ \E more : AfterSlice(c, more)
    BY <2>3 DEF CallStep, ReadHeld, UpsertRow, AnswerPush, CallDies, agentVars
  <2>4. ASSUME NEW s \in Staff, \/ \E t \in Ticket, k \in Kind : FindTicket(s, t, k)
                                \/ DeskStep(s) \/ DeskDies(s)
        PROVE  UNCHANGED snap
    BY <2>4 DEF DeskStep, FindTicket, QueueChange, MoveCard, DeskDies, agentVars
  <2>5. ASSUME NEW t \in Ticket, TillStep(t)
        PROVE  UNCHANGED snap
    BY <2>5 DEF TillStep, TillIssue, TillReady, TillCollect, TillCancel, agentVars
  <2>6. snap \in [Agent -> [Ticket -> State]]
    BY DEF TypeOK
  <2>7. ASSUME NEW a \in Agent, snap' = [snap EXCEPT ![a] = NothingRead]
        PROVE  \A b \in Agent, t \in Ticket :
                 snap'[b][t] = snap[b][t] \/ snap'[b][t] = "absent"
    BY <2>6, <2>7 DEF NothingRead
  <2>8. ASSUME NEW a \in Agent, NEW back \in {0, CatchUpDays}, SelectTickets(a, back)
        PROVE  \A b \in Agent, t \in Ticket :
                 \/ snap'[b][t] = snap[b][t] \/ snap'[b][t] = "absent" \/ snap'[b][t] = shop[t]
    BY <2>6, <2>8 DEF SelectTickets
  <2>9. ASSUME NEW c \in Call, NEW more, AfterSlice(c, more)
        PROVE  \A b \in Agent, t \in Ticket :
                 snap'[b][t] = snap[b][t] \/ snap'[b][t] = "absent"
    BY <2>6, <2>9 DEF AfterSlice, NothingRead
  <2>10. QED
    BY <2>1, <2>2, <2>3, <2>4, <2>5, <2>7, <2>8, <2>9 DEF Next, NextDay, vars, agentVars
<1>2. \A t \in Ticket : Rank(shop[t]) <= Rank(shop'[t])
  BY ShopForward
<1>3. shop' \in [Ticket -> State] /\ shop \in [Ticket -> State]
  BY TypeStep DEF TypeOK
<1>4. \A t \in Ticket : Rank(shop[t]) \in 0..3 /\ Rank(shop'[t]) \in 0..3
  BY <1>3, RankFacts
<1>5. \A a \in Agent, t \in Ticket : Rank(snap[a][t]) \in 0..3
  BY RankFacts DEF TypeOK
<1>6. ASSUME NEW a \in Agent, NEW t \in Ticket
      PROVE  Rank(snap'[a][t]) <= Rank(shop'[t])
  BY <1>1, <1>2, <1>4, <1>5, RankFacts DEF SnapInv
<1>7. QED
  BY <1>6 DEF SnapInv

\* So are the rows of every push request, however late it is handled.
LEMMA CallInvStep ==
  ASSUME TypeOK, [Next]_vars, SnapInv, CallInv
  PROVE  CallInv'
<1>0. call \in [Call -> CallRecord]
  BY DEF TypeOK
<1>1. \A c \in Call, t \in Ticket :
        \/ call'[c].rows[t] = call[c].rows[t] \/ call'[c].rows[t] = "absent"
        \/ \E a \in Agent : call'[c].rows[t] = snap[a][t]
  <2>1. CASE UNCHANGED call
    BY <2>1
  <2>2. ASSUME NEW a \in Agent, AgentStep(a) \/ AgentFault(a)
        PROVE  UNCHANGED call \/ \E c \in Call : SendSlice(a, c)
    BY <2>2 DEF AgentStep, AgentFault, SelectTickets, FetchChanges, ApplyChange,
                RefuseChange, ReportApplied, ReportFailed, ReportRefusal, PushFails,
                ApplyFails, ReportAppliedFails, ReportFailedFails, AgentDies
  <2>3. ASSUME NEW a \in Agent, NEW c \in Call, SendSlice(a, c)
        PROVE  \A d \in Call, t \in Ticket :
                 call'[d].rows[t] = call[d].rows[t] \/ call'[d].rows[t] = snap[a][t]
    <3>1. PICK slice \in SUBSET rest[a] :
            call' = [call EXCEPT ![c] = [at |-> "received", rows |-> snap[a],
                                         held |-> {}, left |-> slice]]
      BY <2>3 DEF SendSlice
    <3>2. QED
      BY <1>0, <3>1
  <2>4. ASSUME NEW c \in Call, CallStep(c) \/ CallDies(c)
        PROVE  \A d \in Call, t \in Ticket :
                 call'[d].rows[t] = call[d].rows[t] \/ call'[d].rows[t] = "absent"
    <3>1. CASE ReadHeld(c)
      BY <1>0, <3>1 DEF ReadHeld, CallRecord
    <3>2. CASE \E t \in Ticket : UpsertRow(c, t)
      BY <1>0, <3>2 DEF UpsertRow, CallRecord
    <3>3. CASE call' = [call EXCEPT ![c] = FreeCall]
      BY <1>0, <3>3 DEF FreeCall, NothingRead
    <3>4. QED
      BY <2>4, <3>1, <3>2, <3>3 DEF CallStep, AnswerPush, CallDies
  <2>5. ASSUME NEW s \in Staff, \/ \E t \in Ticket, k \in Kind : FindTicket(s, t, k)
                                \/ DeskStep(s) \/ DeskDies(s)
        PROVE  UNCHANGED call
    BY <2>5 DEF DeskStep, FindTicket, QueueChange, MoveCard, DeskDies
  <2>6. ASSUME NEW t \in Ticket, TillStep(t)
        PROVE  UNCHANGED call
    BY <2>6 DEF TillStep, TillIssue, TillReady, TillCollect, TillCancel
  <2>7. QED
    BY <2>1, <2>2, <2>3, <2>4, <2>5, <2>6 DEF Next, NextDay, vars
<1>2. \A t \in Ticket : Rank(shop[t]) <= Rank(shop'[t])
  BY ShopForward
<1>3. shop' \in [Ticket -> State] /\ shop \in [Ticket -> State]
  BY TypeStep DEF TypeOK
<1>4. \A t \in Ticket : Rank(shop[t]) \in 0..3 /\ Rank(shop'[t]) \in 0..3
  BY <1>3, RankFacts
<1>5. /\ \A a \in Agent, t \in Ticket : Rank(snap[a][t]) \in 0..3
      /\ \A c \in Call, t \in Ticket : Rank(call[c].rows[t]) \in 0..3
  BY RankFacts DEF TypeOK, CallRecord
<1>6. ASSUME NEW c \in Call, NEW t \in Ticket
      PROVE  Rank(call'[c].rows[t]) <= Rank(shop'[t])
  <2>1. CASE call'[c].rows[t] = call[c].rows[t]
    BY <1>2, <1>4, <1>5, <2>1 DEF CallInv
  <2>2. CASE call'[c].rows[t] = "absent"
    BY <1>4, <2>2, RankFacts
  <2>3. ASSUME NEW a \in Agent, call'[c].rows[t] = snap[a][t]
        PROVE  Rank(call'[c].rows[t]) <= Rank(shop'[t])
    BY <1>2, <1>4, <1>5, <2>3 DEF SnapInv
  <2>4. QED
    BY <1>1, <2>1, <2>2, <2>3
<1>7. QED
  BY <1>6 DEF CallInv

\* What the shop or the queue vouches for, they vouch for ever after.
LEMMA BackedForward ==
  ASSUME TypeOK, [Next]_vars, NEW t \in Ticket, NEW st \in State, Backed(t, st)
  PROVE  \/ Rank(st) <= Rank(shop'[t])
         \/ \E i \in 1..Len(queue') : /\ queue'[i].ticket = t
                                      /\ Rank(st) <= Rank(Target(queue'[i].kind))
<1>1. Rank(st) \in 0..3 /\ Rank(shop[t]) \in 0..3 /\ Rank(shop'[t]) \in 0..3
  BY TypeStep, RankFacts DEF TypeOK
<1>2. CASE Rank(st) <= Rank(shop[t])
  BY <1>1, <1>2, ShopForward
<1>3. ASSUME NEW i \in 1..Len(queue), queue[i].ticket = t,
             Rank(st) <= Rank(Target(queue[i].kind))
      PROVE  /\ i \in 1..Len(queue')
             /\ queue'[i].ticket = t
             /\ Rank(st) <= Rank(Target(queue'[i].kind))
  BY <1>3, QueueForward
<1>4. QED
  BY <1>2, <1>3 DEF Backed

\* A ticket the shop has printed stays printed.
LEMMA PrintedForward ==
  ASSUME TypeOK, [Next]_vars, NEW t \in Ticket, shop[t] # "absent"
  PROVE  shop'[t] # "absent"
<1>1. shop[t] \in State /\ shop'[t] \in State
  BY TypeStep DEF TypeOK
<1>2. QED
  BY <1>1, ShopForward, RankFacts

LEMMA BoardInvStep ==
  ASSUME TypeOK, [Next]_vars, BoardInv, QueueInv, DeskInv, CallInv
  PROVE  BoardInv'
<1>0. board \in [Ticket -> State] /\ shop \in [Ticket -> State] /\ shop' \in [Ticket -> State]
  BY TypeStep DEF TypeOK
<1>1. \A t \in Ticket :
        \/ board'[t] = board[t]
        \/ \E c \in Call : board'[t] = call[c].rows[t]
        \/ \E s \in Staff : /\ MoveCard(s)
                            /\ desk[s].press.ticket = t
                            /\ board'[t] = Target(desk[s].press.kind)
  <2>1. CASE UNCHANGED board
    BY <2>1
  <2>2. ASSUME NEW c \in Call, NEW u \in Ticket, UpsertRow(c, u)
        PROVE  \A t \in Ticket : board'[t] = board[t] \/ board'[t] = call[c].rows[t]
    BY <1>0, <2>2 DEF UpsertRow, Upserted
  <2>3. ASSUME NEW s \in Staff, MoveCard(s)
        PROVE  \A t \in Ticket :
                 \/ board'[t] = board[t]
                 \/ /\ desk[s].press.ticket = t
                    /\ board'[t] = Target(desk[s].press.kind)
    BY <1>0, <2>3 DEF MoveCard
  <2>4. ASSUME NEW a \in Agent, AgentStep(a) \/ AgentFault(a)
        PROVE  UNCHANGED board
    BY <2>4 DEF AgentStep, AgentFault, SelectTickets, SendSlice, FetchChanges, ApplyChange,
                RefuseChange, ReportApplied, ReportFailed, ReportRefusal, PushFails,
                ApplyFails, ReportAppliedFails, ReportFailedFails, AgentDies, Mark, webVars
  <2>5. ASSUME NEW t \in Ticket, TillStep(t)
        PROVE  UNCHANGED board
    BY <2>5 DEF TillStep, TillIssue, TillReady, TillCollect, TillCancel, webVars
  <2>6. ASSUME NEW c \in Call, CallStep(c) \/ CallDies(c)
        PROVE  UNCHANGED board \/ \E u \in Ticket : UpsertRow(c, u)
    BY <2>6 DEF CallStep, ReadHeld, AnswerPush, CallDies, webVars
  <2>7. ASSUME NEW s \in Staff, \/ \E t \in Ticket, k \in Kind : FindTicket(s, t, k)
                                \/ DeskStep(s) \/ DeskDies(s)
        PROVE  UNCHANGED board \/ MoveCard(s)
    BY <2>7 DEF DeskStep, FindTicket, QueueChange, DeskDies
  <2>8. QED
    BY <2>1, <2>2, <2>3, <2>4, <2>5, <2>6, <2>7 DEF Next, NextDay, vars, webVars
<1> SUFFICES ASSUME NEW t \in Ticket
             PROVE  /\ \/ Rank(board'[t]) <= Rank(shop'[t])
                       \/ \E i \in 1..Len(queue') :
                            /\ queue'[i].ticket = t
                            /\ Rank(board'[t]) <= Rank(Target(queue'[i].kind))
                    /\ board'[t] # "absent" => shop'[t] # "absent"
  BY DEF BoardInv, Backed
<1>2. CASE board'[t] = board[t]
  <2>1. Backed(t, board[t]) /\ board[t] \in State
    BY <1>0 DEF BoardInv
  <2>2. board[t] # "absent" => shop'[t] # "absent"
    BY PrintedForward DEF BoardInv
  <2>3. QED
    BY <1>2, <2>1, <2>2, BackedForward
<1>3. ASSUME NEW c \in Call, board'[t] = call[c].rows[t]
      PROVE  /\ Rank(board'[t]) <= Rank(shop'[t])
             /\ board'[t] # "absent" => shop'[t] # "absent"
  <2>1. call[c].rows[t] \in State
    BY DEF TypeOK, CallRecord
  <2>2. /\ Rank(call[c].rows[t]) \in 0..3 /\ Rank(shop[t]) \in 0..3 /\ Rank(shop'[t]) \in 0..3
        /\ Rank(call[c].rows[t]) = 0 <=> call[c].rows[t] = "absent"
    BY <1>0, <2>1, RankFacts
  <2>3. Rank(call[c].rows[t]) <= Rank(shop[t]) /\ Rank(shop[t]) <= Rank(shop'[t])
    BY ShopForward DEF CallInv
  <2>4. QED
    BY <1>3, <2>2, <2>3, RankFacts
<1>4. ASSUME NEW s \in Staff, MoveCard(s), desk[s].press.ticket = t,
             board'[t] = Target(desk[s].press.kind)
      PROVE  /\ \E i \in 1..Len(queue') :
                  /\ queue'[i].ticket = t
                  /\ Rank(board'[t]) <= Rank(Target(queue'[i].kind))
             /\ shop'[t] # "absent"
  <2>1. PICK i \in 1..Len(queue) : /\ queue[i].ticket = t
                                   /\ queue[i].kind = desk[s].press.kind
    BY <1>4 DEF DeskInv, QueuedFor, MoveCard
  <2>2. i \in 1..Len(queue') /\ queue'[i].ticket = t /\ queue'[i].kind = desk[s].press.kind
    BY <2>1, QueueForward
  <2>3. Rank(board'[t]) \in 0..3
    BY TypeStep, RankFacts DEF TypeOK
  <2>4. shop'[t] # "absent"
    BY <2>1, PrintedForward DEF QueueInv
  <2>5. QED
    BY <1>4, <2>2, <2>3, <2>4
<1>5. QED
  BY <1>1, <1>2, <1>3, <1>4

LEMMA DeskInvStep ==
  ASSUME TypeOK, [Next]_vars, BoardInv, DeskInv
  PROVE  DeskInv'
<1>0. /\ desk \in [Staff -> {Idle} \cup [at : {"found", "queued"}, press : Press]]
      /\ queue \in Seq(Change)
  BY DEF TypeOK
<1> SUFFICES ASSUME NEW s \in Staff
             PROVE  /\ desk'[s].at = "found" => shop'[desk'[s].press.ticket] # "absent"
                    /\ desk'[s].at = "queued" =>
                         \E i \in 1..Len(queue') :
                           /\ queue'[i].ticket = desk'[s].press.ticket
                           /\ queue'[i].kind = desk'[s].press.kind
  BY DEF DeskInv, QueuedFor
<1>1. CASE desk'[s] = desk[s]
  <2>1. CASE desk[s].at = "found"
    <3>1. desk[s].press.ticket \in Ticket
      BY <1>0, <2>1 DEF Idle, Press
    <3>2. shop[desk[s].press.ticket] # "absent"
      BY <2>1 DEF DeskInv
    <3>3. QED
      BY <1>1, <2>1, <3>1, <3>2, PrintedForward
  <2>2. CASE desk[s].at = "queued"
    <3>1. PICK i \in 1..Len(queue) : /\ queue[i].ticket = desk[s].press.ticket
                                     /\ queue[i].kind = desk[s].press.kind
      BY <2>2 DEF DeskInv, QueuedFor
    <3>2. QED
      BY <1>1, <2>2, <3>1, QueueForward
  <2>3. QED
    BY <1>1, <2>1, <2>2
<1>2. ASSUME NEW t \in Ticket, NEW k \in Kind, FindTicket(s, t, k)
      PROVE  /\ desk'[s].at = "found"
             /\ shop'[desk'[s].press.ticket] # "absent"
  <2>1. desk'[s] = [at |-> "found", press |-> [ticket |-> t, kind |-> k]]
    BY <1>0, <1>2 DEF FindTicket
  <2>2. shop[t] # "absent"
    BY <1>2 DEF FindTicket, BoardInv
  <2>3. QED
    BY <2>1, <2>2, PrintedForward
<1>3. CASE QueueChange(s)
  <2> DEFINE ch == [ticket |-> desk[s].press.ticket, kind |-> desk[s].press.kind,
                    status |-> "pending"]
  <2>1. desk[s] \in [at : {"found", "queued"}, press : Press]
    BY <1>0, <1>3 DEF QueueChange, Idle
  <2>2. ch \in Change
    BY <2>1 DEF Press, Change
  <2>3. /\ Len(queue') = Len(queue) + 1 /\ Len(queue) \in Nat
        /\ queue'[Len(queue) + 1] = ch
    BY <1>0, <1>3, <2>2, QueueGrows, LenProperties DEF QueueChange
  <2>4. desk'[s].at = "queued" /\ desk'[s].press = desk[s].press
    BY <1>0, <1>3, <2>1 DEF QueueChange
  <2>5. QED
    BY <2>3, <2>4
<1>4. CASE desk'[s] = Idle
  BY <1>4 DEF Idle
<1>5. \/ desk'[s] = desk[s] \/ desk'[s] = Idle
      \/ \E t \in Ticket, k \in Kind : FindTicket(s, t, k)
      \/ QueueChange(s)
  <2>1. CASE UNCHANGED desk
    BY <2>1
  <2>2. ASSUME NEW r \in Staff, \/ \E t \in Ticket, k \in Kind : FindTicket(r, t, k)
                                \/ DeskStep(r) \/ DeskDies(r), r # s
        PROVE  desk'[s] = desk[s]
    BY <1>0, <2>2 DEF DeskStep, FindTicket, QueueChange, MoveCard, DeskDies
  <2>3. ASSUME MoveCard(s) \/ DeskDies(s)
        PROVE  desk'[s] = Idle
    BY <1>0, <2>3 DEF MoveCard, DeskDies
  <2>4. ASSUME NEW a \in Agent, AgentStep(a) \/ AgentFault(a)
        PROVE  UNCHANGED desk
    BY <2>4 DEF AgentStep, AgentFault, SelectTickets, SendSlice, FetchChanges, ApplyChange,
                RefuseChange, ReportApplied, ReportFailed, ReportRefusal, PushFails,
                ApplyFails, ReportAppliedFails, ReportFailedFails, AgentDies, Mark, webVars
  <2>5. ASSUME NEW t \in Ticket, TillStep(t)
        PROVE  UNCHANGED desk
    BY <2>5 DEF TillStep, TillIssue, TillReady, TillCollect, TillCancel, webVars
  <2>6. ASSUME NEW c \in Call, CallStep(c) \/ CallDies(c)
        PROVE  UNCHANGED desk
    BY <2>6 DEF CallStep, ReadHeld, UpsertRow, AnswerPush, CallDies, webVars
  <2>7. QED
    BY <2>1, <2>2, <2>3, <2>4, <2>5, <2>6 DEF Next, NextDay, DeskStep, vars, webVars
<1>6. QED
  BY <1>1, <1>2, <1>3, <1>4, <1>5

LEMMA QueueInvStep ==
  ASSUME TypeOK, [Next]_vars, QueueInv, DeskInv, AgentInv
  PROVE  QueueInv'
<1>0. queue \in Seq(Change) /\ queue' \in Seq(Change)
  BY TypeStep DEF TypeOK
<1> SUFFICES ASSUME NEW i \in 1..Len(queue')
             PROVE  /\ shop'[queue'[i].ticket] # "absent"
                    /\ queue'[i].status = "applied" =>
                         Rank(shop'[queue'[i].ticket]) >= Rank(Target(queue'[i].kind))
  BY DEF QueueInv, Landed
<1>1. CASE i \in 1..Len(queue)
  <2>1. queue[i] \in Change
    BY <1>0, <1>1, ElementOfSeq
  <2>2. queue[i].ticket \in Ticket /\ shop[queue[i].ticket] # "absent"
    BY <1>1, <2>1 DEF QueueInv, Change
  <2>3. queue'[i].ticket = queue[i].ticket /\ queue'[i].kind = queue[i].kind
    BY <1>1, QueueForward
  <2>4. queue'[i].status = "applied" => Landed(i)
    <3>1. ASSUME NEW a \in Agent, pc[a] = "landed", Current(a, i)
          PROVE  Landed(i)
      BY <3>1 DEF AgentInv, Current
    <3>2. queue[i].status = "applied" => Landed(i)
      BY <1>1 DEF QueueInv
    <3>3. QED
      BY <1>1, <3>1, <3>2, QueueForward
  <2>5. /\ Rank(shop[queue[i].ticket]) \in 0..3 /\ Rank(shop'[queue[i].ticket]) \in 0..3
        /\ Rank(shop[queue[i].ticket]) <= Rank(shop'[queue[i].ticket])
    BY <2>2, TypeStep, RankFacts, ShopForward DEF TypeOK
  <2>6. Rank(Target(queue[i].kind)) \in 0..3
    BY <2>1, RankFacts, TargetType DEF Change
  <2>7. QED
    BY <2>2, <2>3, <2>4, <2>5, <2>6, PrintedForward DEF Landed
<1>2. CASE i \notin 1..Len(queue)
  <2>1. /\ queue'[i].status = "pending"
        /\ \E s \in Staff : desk[s].at = "found" /\ queue'[i].ticket = desk[s].press.ticket
    BY <1>2, QueueForward
  <2>2. shop[queue'[i].ticket] # "absent"
    BY <2>1 DEF DeskInv
  <2>3. queue'[i] \in Change
    BY <1>0, ElementOfSeq
  <2>4. queue'[i].ticket \in Ticket
    BY <2>3 DEF Change
  <2>5. QED
    BY <2>1, <2>2, <2>4, PrintedForward
<1>3. QED
  BY <1>1, <1>2

LEMMA AgentInvStep ==
  ASSUME TypeOK, [Next]_vars, QueueInv, AgentInv
  PROVE  AgentInv'
<1>0. queue \in Seq(Change) /\ pc \in [Agent -> Where] /\ todo \in [Agent -> SUBSET (1..Len(queue))]
  BY DEF TypeOK
<1> SUFFICES ASSUME NEW a \in Agent, pc'[a] = "landed",
                    NEW i \in todo'[a], \A j \in todo'[a] : i <= j
             PROVE  Rank(shop'[queue'[i].ticket]) >= Rank(Target(queue'[i].kind))
  BY DEF AgentInv, Landed, Current
<1>1. /\ todo'[a] = todo[a]
      /\ \/ pc[a] = "landed"
         \/ ApplyChange(a)
  <2>1. ASSUME UNCHANGED <<pc, todo>>
        PROVE  todo'[a] = todo[a] /\ pc[a] = "landed"
    BY <2>1
  <2>2. ASSUME NEW b \in Agent, AgentStep(b) \/ AgentFault(b), b # a
        PROVE  todo'[a] = todo[a] /\ pc[a] = "landed"
    BY <1>0, <2>2
    DEF AgentStep, AgentFault, SelectTickets, SendSlice, FetchChanges, ApplyChange,
        RefuseChange, ReportApplied, ReportFailed, ReportRefusal, PushFails, ApplyFails,
        ReportAppliedFails, ReportFailedFails, AgentDies, Finish
  <2>3. ASSUME AgentStep(a) \/ AgentFault(a)
        PROVE  ApplyChange(a) /\ todo'[a] = todo[a]
    BY <1>0, <2>3
    DEF AgentStep, AgentFault, SelectTickets, SendSlice, FetchChanges, ApplyChange,
        RefuseChange, ReportApplied, ReportFailed, ReportRefusal, PushFails, ApplyFails,
        ReportAppliedFails, ReportFailedFails, AgentDies, Finish
  <2>4. ASSUME NEW t \in Ticket, TillStep(t)
        PROVE  UNCHANGED <<pc, todo>>
    BY <2>4 DEF TillStep, TillIssue, TillReady, TillCollect, TillCancel, agentVars
  <2>5. ASSUME NEW s \in Staff, \/ \E t \in Ticket, k \in Kind : FindTicket(s, t, k)
                                \/ DeskStep(s) \/ DeskDies(s)
        PROVE  UNCHANGED <<pc, todo>>
    BY <2>5 DEF DeskStep, FindTicket, QueueChange, MoveCard, DeskDies, agentVars
  <2>6. ASSUME NEW c \in Call, CallStep(c) \/ CallDies(c)
        PROVE  todo'[a] = todo[a] /\ pc[a] = "landed"
    BY <2>6 DEF CallStep, ReadHeld, UpsertRow, AnswerPush, CallDies, AfterSlice, agentVars
  <2>7. QED
    BY <2>1, <2>2, <2>3, <2>4, <2>5, <2>6 DEF Next, NextDay, vars, agentVars
<1>2. i \in 1..Len(queue) /\ Current(a, i)
  BY <1>0, <1>1 DEF Current
<1>3. queue[i] \in Change
  BY <1>0, <1>2, ElementOfSeq
<1>4. queue'[i].ticket = queue[i].ticket /\ queue'[i].kind = queue[i].kind
  BY <1>2, QueueForward
<1>5. CASE pc[a] = "landed"
  <2>1. Landed(i)
    BY <1>1, <1>2, <1>5 DEF AgentInv
  <2>2. /\ Rank(shop[queue[i].ticket]) \in 0..3 /\ Rank(shop'[queue[i].ticket]) \in 0..3
        /\ Rank(shop[queue[i].ticket]) <= Rank(shop'[queue[i].ticket])
    BY <1>3, TypeStep, RankFacts, ShopForward DEF TypeOK, Change
  <2>3. Rank(Target(queue[i].kind)) \in 0..3
    BY <1>3, RankFacts, TargetType DEF Change
  <2>4. QED
    BY <1>4, <2>1, <2>2, <2>3 DEF Landed
<1>6. CASE ApplyChange(a)
  <2>1. PICK j \in todo[a] : Current(a, j) /\ Update(queue[j])
    BY <1>6 DEF ApplyChange
  <2>2. j = i
    BY <1>0, <1>2, <2>1 DEF Current
  <2>3. QED
    BY <1>2, <1>4, <2>1, <2>2, UpdateLands DEF QueueInv
<1>7. QED
  BY <1>1, <1>5, <1>6

LEMMA TicketsInvInit == Init => TicketsInv
BY RankFacts
DEF Init, TicketsInv, BoardInv, QueueInv, DeskInv, SnapInv, CallInv, AgentInv, Backed,
    NothingRead, FreeCall, Idle

LEMMA TicketsInvCorrect == Spec => []TicketsInv
<1>1. TypeOK /\ TicketsInv /\ [Next]_vars => TicketsInv'
  BY BoardInvStep, QueueInvStep, DeskInvStep, SnapInvStep, CallInvStep, AgentInvStep
  DEF TicketsInv
<1>2. QED
  BY <1>1, TicketsInvInit, TypeCorrect, PTL DEF Spec

\* A change the queue calls applied has landed in the shop's database, and
\* stays landed: mark-change-applied is only ever reported after the UPDATE, and
\* no press, till or retry takes a ticket back.
THEOREM AppliedChangesLanded == Spec => []AppliedHasLanded
<1>1. TicketsInv => AppliedHasLanded
  BY DEF TicketsInv, QueueInv, Landed, AppliedHasLanded
<1>2. QED
  BY <1>1, TicketsInvCorrect, PTL

\* The board is ahead of the shop only for a press the queue still owns up to,
\* whatever overlaps, is lost, or dies.
THEOREM BoardAheadOnlyIfBacked == Spec => []BoardAheadIsBacked
<1>1. TypeOK /\ TicketsInv => BoardAheadIsBacked
  <2> SUFFICES ASSUME TypeOK, TicketsInv, NEW t \in Ticket, Rank(board[t]) > Rank(shop[t])
               PROVE  \E i \in 1..Len(queue) :
                        /\ queue[i].ticket = t
                        /\ queue[i].status # "applied"
                        /\ Rank(Target(queue[i].kind)) >= Rank(board[t])
    BY DEF BoardAheadIsBacked
  <2>1. Rank(board[t]) \in 0..3 /\ Rank(shop[t]) \in 0..3
    BY RankFacts DEF TypeOK
  <2>2. PICK i \in 1..Len(queue) : /\ queue[i].ticket = t
                                   /\ Rank(board[t]) <= Rank(Target(queue[i].kind))
    BY <2>1 DEF TicketsInv, BoardInv, Backed
  <2>3. queue[i] \in Change
    BY ElementOfSeq DEF TypeOK
  <2>4. Rank(Target(queue[i].kind)) \in 0..3
    BY <2>3, RankFacts, TargetType DEF Change
  <2>5. queue[i].status # "applied"
    BY <2>1, <2>2, <2>4 DEF TicketsInv, QueueInv, Landed
  <2>6. QED
    BY <2>1, <2>2, <2>4, <2>5
<1>2. QED
  BY <1>1, TypeCorrect, TicketsInvCorrect, PTL

-----------------------------------------------------------------------------
(* The shop's tickets implement TicketLifecycle.                           *)

\* An UPDATE is a hand-over, a call to the counter, or nothing at all.
LEMMA UpdateImplements ==
  ASSUME TypeOK, NEW i \in 1..Len(queue), Update(queue[i])
  PROVE  [Lifecycle!Next]_Lifecycle!vars
<1>1. queue[i] \in Change
  BY ElementOfSeq DEF TypeOK
<1>2. queue[i].ticket \in Ticket /\ queue[i].kind \in Kind
  BY <1>1 DEF Change
<1>3. CASE shop[queue[i].ticket] \notin From(queue[i].kind)
  BY <1>3 DEF Update, shopVars, Lifecycle!vars
<1>4. CASE /\ shop[queue[i].ticket] \in From(queue[i].kind)
           /\ queue[i].kind = "ticket_ready"
  <2>1. Lifecycle!GoReady(queue[i].ticket)
    BY <1>4 DEF Update, From, Target, Lifecycle!GoReady
  <2>2. QED
    BY <1>2, <2>1 DEF Lifecycle!Next
<1>5. CASE /\ shop[queue[i].ticket] \in From(queue[i].kind)
           /\ queue[i].kind = "ticket_collected"
  <2>1. Lifecycle!HandOver(queue[i].ticket, "web")
    BY <1>5 DEF Update, From, Target, Lifecycle!HandOver
  <2>2. QED
    BY <1>2, <2>1 DEF Lifecycle!Next
<1>6. QED
  BY <1>2, <1>3, <1>4, <1>5 DEF Kind

\* Every step of the till, the web and the agents is a step of the life cycle or
\* leaves the tickets table alone.
LEMMA StepImplements ==
  ASSUME TypeOK, [Next]_vars
  PROVE  [Lifecycle!Next]_Lifecycle!vars
<1>1. CASE UNCHANGED shopVars
  BY <1>1 DEF shopVars, Lifecycle!vars
<1>2. ASSUME NEW t \in Ticket, TillStep(t)
      PROVE  Lifecycle!Next
  <2>1. \/ Lifecycle!Issue(t) \/ Lifecycle!GoReady(t)
        \/ Lifecycle!HandOver(t, "till") \/ Lifecycle!Cancel(t)
    BY <1>2 DEF TillStep, TillIssue, TillReady, TillCollect, TillCancel,
                Lifecycle!Issue, Lifecycle!GoReady, Lifecycle!HandOver, Lifecycle!Cancel
  <2>2. QED
    BY <2>1 DEF Lifecycle!Next
<1>3. ASSUME NEW a \in Agent, AgentStep(a) \/ AgentFault(a)
      PROVE  UNCHANGED shopVars \/ \E i \in todo[a] : Update(queue[i])
  BY <1>3 DEF AgentStep, AgentFault, SelectTickets, SendSlice, FetchChanges, ApplyChange,
              RefuseChange, ReportApplied, ReportFailed, ReportRefusal, PushFails,
              ApplyFails, ReportAppliedFails, ReportFailedFails, AgentDies
<1>4. ASSUME NEW a \in Agent, NEW i \in todo[a], Update(queue[i])
      PROVE  [Lifecycle!Next]_Lifecycle!vars
  BY <1>4, UpdateImplements DEF TypeOK
<1>5. ASSUME NEW s \in Staff, \/ \E t \in Ticket, k \in Kind : FindTicket(s, t, k)
                              \/ DeskStep(s) \/ DeskDies(s)
      PROVE  UNCHANGED shopVars
  BY <1>5 DEF DeskStep, FindTicket, QueueChange, MoveCard, DeskDies
<1>6. ASSUME NEW c \in Call, CallStep(c) \/ CallDies(c)
      PROVE  UNCHANGED shopVars
  BY <1>6 DEF CallStep, ReadHeld, UpsertRow, AnswerPush, CallDies
<1>7. QED
  BY <1>1, <1>2, <1>3, <1>4, <1>5, <1>6 DEF Next, NextDay, vars

\* Presses retried, doubled, applied by two agents or raced at the counter: the
\* shop's tickets still go ready at most once and are closed at most once, by
\* whoever came first.
THEOREM ShopImplementsLifecycle == Spec => ShopKeepsLifecycle
<1>1. Init => Lifecycle!Init
  BY DEF Init, NothingRead, Lifecycle!Init
<1>2. TypeOK /\ [Next]_vars => [Lifecycle!Next]_Lifecycle!vars
  BY StepImplements
<1>3. QED
  BY <1>1, <1>2, TypeCorrect, PTL DEF Spec, ShopKeepsLifecycle, Lifecycle!Spec

-----------------------------------------------------------------------------
(* Cards and presses: what the held set of a push is good for.             *)

\* A push changes nothing but the rows it still has to write and the held set it
\* has read: it stops being received, writes rows, or is given up.
LEMMA ProtectedStep ==
  ASSUME TypeOK, [Next]_vars, NEW t \in Ticket, Protected(t), board[t] # "absent"
  PROVE  /\ Protected(t)' \/ t \notin Held'
         /\ call' # call => board'[t] = board[t]
<1>0. call \in [Call -> CallRecord] /\ board \in [Ticket -> State]
  BY DEF TypeOK
<1>1. CASE UNCHANGED call
  BY <1>1 DEF Protected
<1>2. ASSUME NEW c \in Call, ReadHeld(c)
      PROVE  Protected(t)' /\ board'[t] = board[t]
  <2>1. UNCHANGED <<board, queue>>
    BY <1>2 DEF ReadHeld, webVars
  <2>2. Held' = Held
    BY <2>1 DEF Held, Pending
  <2>3. \A d \in Call : /\ call'[d].held = IF d = c THEN Held ELSE call[d].held
                        /\ call'[d].left = call[d].left
                        /\ d # c => call'[d].at = call[d].at
    BY <1>0, <1>2 DEF ReadHeld, CallRecord
  <2>4. QED
    BY <2>1, <2>2, <2>3 DEF Protected
<1>3. ASSUME NEW c \in Call, NEW u \in Ticket, UpsertRow(c, u)
      PROVE  Protected(t)' /\ board'[t] = board[t]
  <2>1. UNCHANGED queue
    BY <1>3 DEF UpsertRow
  <2>2. Held' = Held
    BY <2>1 DEF Held, Pending
  <2>3. \A d \in Call : /\ call'[d].held = call[d].held
                        /\ call'[d].left \subseteq call[d].left
                        /\ call'[d].at = call[d].at
    BY <1>0, <1>3 DEF UpsertRow, CallRecord
  <2>4. Protected(t)'
    BY <2>2, <2>3 DEF Protected
  <2>5. u = t => t \in call[c].held
    BY <1>3 DEF UpsertRow, Protected
  <2>6. board'[t] = board[t]
    BY <1>0, <1>3, <2>5 DEF UpsertRow, Upserted
  <2>7. QED
    BY <2>4, <2>6
<1>4. ASSUME NEW c \in Call, AnswerPush(c) \/ CallDies(c)
      PROVE  Protected(t)' /\ board'[t] = board[t]
  <2>1. UNCHANGED <<board, queue>> /\ call' = [call EXCEPT ![c] = FreeCall]
    BY <1>4 DEF AnswerPush, CallDies, webVars
  <2>2. Held' = Held
    BY <2>1 DEF Held, Pending
  <2>3. \A d \in Call : call'[d] = IF d = c THEN FreeCall ELSE call[d]
    BY <1>0, <2>1
  <2>4. QED
    BY <2>1, <2>2, <2>3 DEF Protected, FreeCall
<1>5. ASSUME NEW a \in Agent, NEW c \in Call, SendSlice(a, c)
      PROVE  Protected(t)' /\ board'[t] = board[t]
  <2>1. UNCHANGED <<board, queue>>
    BY <1>5 DEF SendSlice, webVars
  <2>2. Held' = Held
    BY <2>1 DEF Held, Pending
  <2>3. PICK slice : call' = [call EXCEPT ![c] = [at |-> "received", rows |-> snap[a],
                                                  held |-> {}, left |-> slice]]
    BY <1>5 DEF SendSlice
  <2>4. \A d \in Call : IF d = c THEN call'[d].at = "received" ELSE call'[d] = call[d]
    BY <1>0, <2>3
  <2>5. QED
    BY <2>1, <2>2, <2>4 DEF Protected
<1>6. \/ UNCHANGED call
      \/ \E c \in Call : \/ ReadHeld(c) \/ AnswerPush(c) \/ CallDies(c)
                         \/ \E u \in Ticket : UpsertRow(c, u)
                         \/ \E a \in Agent : SendSlice(a, c)
  <2>1. ASSUME NEW u \in Ticket, TillStep(u)
        PROVE  UNCHANGED call
    BY <2>1 DEF TillStep, TillIssue, TillReady, TillCollect, TillCancel
  <2>2. ASSUME NEW s \in Staff,
               \/ \E u \in Ticket, k \in Kind : FindTicket(s, u, k)
               \/ DeskStep(s) \/ DeskDies(s)
        PROVE  UNCHANGED call
    BY <2>2 DEF FindTicket, DeskStep, QueueChange, MoveCard, DeskDies
  <2>3. ASSUME NEW a \in Agent, AgentStep(a) \/ AgentFault(a)
        PROVE  UNCHANGED call \/ \E c \in Call : SendSlice(a, c)
    BY <2>3 DEF AgentStep, AgentFault, SelectTickets, FetchChanges, ApplyChange,
                RefuseChange, ReportApplied, ReportFailed, ReportRefusal, PushFails,
                ApplyFails, ReportAppliedFails, ReportFailedFails, AgentDies
  <2>4. NextDay \/ UNCHANGED vars => UNCHANGED call
    BY DEF NextDay, vars
  <2>5. QED
    BY <2>1, <2>2, <2>3, <2>4 DEF Next, CallStep
<1>7. QED
  BY <1>1, <1>2, <1>3, <1>4, <1>5, <1>6

\* Once a press is pending and no push that missed it is still being written, no
\* push takes the card back before the press is settled, however many agents
\* push, however their requests overlap, and whatever is lost.
THEOREM ProtectedCardStays == Spec => ProtectedUntilSettled
<1>1. TypeOK /\ [Next]_vars =>
        [\A t \in Ticket :
           Protected(t) /\ board[t] # "absent" =>
             /\ Protected(t)' \/ t \notin Held'
             /\ call' # call => board'[t] = board[t]]_vars
  BY ProtectedStep
<1>2. QED
  BY <1>1, TypeCorrect, PTL DEF Spec, ProtectedUntilSettled

-----------------------------------------------------------------------------
(* With one agent, and until something fails, an applied press never       *)
(* bounces.                                                                *)

\* What loop.js sees to when it refuses to start twice; AgentLoop says when it holds.
OneAgent == \A a, b \in Agent : a = b

LEMMA PushInvInit == Init => PushInv
BY DEF Init, PushInv, NoFailInv, SliceInv, CarriedInv, FreeCall

\* The steps of a behaviour in which nothing has failed.
LEMMA QuietSteps ==
  ASSUME TypeOK, [Next]_vars, faults' = 0
  PROVE  /\ faults = 0
         /\ \/ UNCHANGED vars \/ NextDay
            \/ \E t \in Ticket : TillStep(t)
            \/ \E s \in Staff, t \in Ticket, k \in Kind : FindTicket(s, t, k)
            \/ \E s \in Staff : QueueChange(s) \/ MoveCard(s)
            \/ \E c \in Call : ReadHeld(c) \/ AnswerPush(c) \/ \E t \in Ticket : UpsertRow(c, t)
            \/ \E a \in Agent : AgentStep(a)
<1>1. Fault => faults' # 0
  BY ConstantsOK DEF TypeOK, Fault
<1>2. /\ \A s \in Staff : ~ DeskDies(s)
      /\ \A c \in Call : ~ CallDies(c)
      /\ \A a \in Agent : ~ AgentFault(a)
  BY <1>1 DEF DeskDies, CallDies, AgentFault, PushFails, ApplyFails,
              ReportAppliedFails, ReportFailedFails, AgentDies
<1>3. /\ \/ UNCHANGED vars \/ NextDay
         \/ \E t \in Ticket : TillStep(t)
         \/ \E s \in Staff, t \in Ticket, k \in Kind : FindTicket(s, t, k)
         \/ \E s \in Staff : QueueChange(s) \/ MoveCard(s)
         \/ \E c \in Call : ReadHeld(c) \/ AnswerPush(c) \/ \E t \in Ticket : UpsertRow(c, t)
         \/ \E a \in Agent : AgentStep(a)
  BY <1>2 DEF Next, DeskStep, CallStep
<1>4. faults' = faults
  <2>1. ASSUME NEW t \in Ticket, TillStep(t)
        PROVE  faults' = faults
    BY <2>1 DEF TillStep, TillIssue, TillReady, TillCollect, TillCancel
  <2>2. ASSUME NEW a \in Agent, AgentStep(a)
        PROVE  faults' = faults
    BY <2>2 DEF AgentStep, SelectTickets, SendSlice, FetchChanges, ApplyChange,
                RefuseChange, ReportApplied, ReportFailed, ReportRefusal
  <2>3. ASSUME NEW s \in Staff,
               \/ QueueChange(s) \/ MoveCard(s)
               \/ \E t \in Ticket, k \in Kind : FindTicket(s, t, k)
        PROVE  faults' = faults
    BY <2>3 DEF QueueChange, MoveCard, FindTicket
  <2>4. ASSUME NEW c \in Call,
               ReadHeld(c) \/ AnswerPush(c) \/ \E t \in Ticket : UpsertRow(c, t)
        PROVE  faults' = faults
    BY <2>4 DEF ReadHeld, AnswerPush, UpsertRow
  <2>5. UNCHANGED vars \/ NextDay => faults' = faults
    BY DEF vars, NextDay
  <2>6. QED
    BY <1>3, <2>1, <2>2, <2>3, <2>4, <2>5
<1>5. QED
  BY <1>3, <1>4

\* Until something fails, the queue only grows by presses, and its changes only
\* go from pending to applied, by the report of an agent whose UPDATE landed.
LEMMA QuietQueue ==
  ASSUME TypeOK, [Next]_vars, faults' = 0, NoFailInv
  PROVE  \/ UNCHANGED queue
         \/ \E s \in Staff : QueueChange(s)
         \/ \E a \in Agent : ReportApplied(a)
<1>1. ASSUME NEW a \in Agent, AgentStep(a)
      PROVE  UNCHANGED queue \/ ReportApplied(a)
  BY <1>1 DEF NoFailInv, AgentStep, SelectTickets, SendSlice, FetchChanges, ApplyChange,
              RefuseChange, ReportFailed, ReportRefusal, webVars
<1>2. ASSUME NEW t \in Ticket, TillStep(t)
      PROVE  UNCHANGED queue
  BY <1>2 DEF TillStep, TillIssue, TillReady, TillCollect, TillCancel, webVars
<1>3. ASSUME NEW c \in Call,
             ReadHeld(c) \/ AnswerPush(c) \/ \E t \in Ticket : UpsertRow(c, t)
      PROVE  UNCHANGED queue
  BY <1>3 DEF ReadHeld, AnswerPush, UpsertRow, webVars
<1>4. ASSUME NEW s \in Staff,
             MoveCard(s) \/ \E t \in Ticket, k \in Kind : FindTicket(s, t, k)
      PROVE  UNCHANGED queue
  BY <1>4 DEF MoveCard, FindTicket
<1>5. UNCHANGED vars \/ NextDay => UNCHANGED queue
  BY DEF vars, webVars, NextDay
<1>6. QED
  BY <1>1, <1>2, <1>3, <1>4, <1>5, QuietSteps

\* What the two steps that change the queue do to it.
LEMMA QueuedRows ==
  ASSUME TypeOK, NEW s \in Staff, QueueChange(s)
  PROVE  /\ Len(queue) \in Nat /\ Len(queue') = Len(queue) + 1
         /\ \A i \in 1..Len(queue) : queue'[i] = queue[i]
         /\ queue'[Len(queue) + 1].status = "pending"
<1> DEFINE ch == [ticket |-> desk[s].press.ticket, kind |-> desk[s].press.kind,
                  status |-> "pending"]
<1>1. desk[s] \in [at : {"found", "queued"}, press : Press]
  BY DEF TypeOK, QueueChange, Idle
<1>2. ch \in Change /\ ch.status = "pending"
  BY <1>1 DEF Press, Change
<1>3. queue \in Seq(Change) /\ Len(queue) \in Nat
  BY LenProperties DEF TypeOK
<1>4. queue' = Append(queue, ch)
  BY DEF QueueChange
<1> HIDE DEF ch
<1>5. QED
  BY <1>2, <1>3, <1>4, QueueGrows

LEMMA ReportedRows ==
  ASSUME TypeOK, NEW a \in Agent, ReportApplied(a)
  PROVE  /\ Len(queue') = Len(queue)
         /\ \A i \in 1..Len(queue) : /\ queue'[i].ticket = queue[i].ticket
                                     /\ queue'[i].kind = queue[i].kind
                                     /\ queue'[i].status \in {queue[i].status, "applied"}
         /\ pc[a] = "landed" /\ pc'[a] \in {"idle", "applying"}
<1>1. PICK i \in todo[a] : Mark(i, "applied") /\ Finish(a, i)
  BY DEF ReportApplied
<1>2. i \in 1..Len(queue) /\ queue \in Seq(Change)
  BY DEF TypeOK
<1>3. queue' = [queue EXCEPT ![i].status = "applied"]
  BY <1>1 DEF Mark
<1>4. /\ Len(queue') = Len(queue) /\ queue'[i].status = "applied"
      /\ \A j \in 1..Len(queue) : /\ queue'[j].ticket = queue[j].ticket
                                  /\ queue'[j].kind = queue[j].kind
                                  /\ j # i => queue'[j] = queue[j]
  BY <1>2, <1>3, MarkKeeps
<1>5. pc[a] = "landed" /\ pc'[a] \in {"idle", "applying"}
  BY <1>1 DEF TypeOK, ReportApplied, Finish
<1>6. QED
  BY <1>4, <1>5

LEMMA NoFailStep ==
  ASSUME TypeOK, [Next]_vars, faults' = 0, NoFailInv
  PROVE  NoFailInv'
<1>1. \A i \in 1..Len(queue') : queue'[i].status # "failed"
  <2>1. CASE UNCHANGED queue
    BY <2>1 DEF NoFailInv
  <2>2. ASSUME NEW s \in Staff, QueueChange(s)
        PROVE  \A i \in 1..Len(queue') : queue'[i].status # "failed"
    <3>1. \A i \in 1..Len(queue') : i \in 1..Len(queue) \/ i = Len(queue) + 1
      BY <2>2, QueuedRows
    <3>2. QED
      BY <2>2, <3>1, QueuedRows DEF NoFailInv
  <2>3. ASSUME NEW a \in Agent, ReportApplied(a)
        PROVE  \A i \in 1..Len(queue') : queue'[i].status # "failed"
    BY <2>3, ReportedRows DEF NoFailInv
  <2>4. QED
    BY <2>1, <2>2, <2>3, QuietQueue
<1>2. \A a \in Agent : pc'[a] # "errored"
  <2>1. CASE UNCHANGED pc
    BY <2>1 DEF NoFailInv
  <2>2. ASSUME NEW b \in Agent, AgentStep(b)
        PROVE  \A a \in Agent : pc'[a] # "errored"
    BY <2>2 DEF TypeOK, NoFailInv, AgentStep, SelectTickets, SendSlice, FetchChanges,
                ApplyChange, RefuseChange, ReportApplied, ReportFailed, ReportRefusal, Finish
  <2>3. ASSUME NEW c \in Call, AnswerPush(c)
        PROVE  \A a \in Agent : pc'[a] # "errored"
    BY <2>3 DEF NoFailInv, AnswerPush, AfterSlice
  <2>4. ASSUME NEW t \in Ticket, TillStep(t)
        PROVE  UNCHANGED pc
    BY <2>4 DEF TillStep, TillIssue, TillReady, TillCollect, TillCancel, agentVars
  <2>5. ASSUME NEW s \in Staff,
               \/ QueueChange(s) \/ MoveCard(s)
               \/ \E t \in Ticket, k \in Kind : FindTicket(s, t, k)
        PROVE  UNCHANGED pc
    BY <2>5 DEF QueueChange, MoveCard, FindTicket, agentVars
  <2>6. ASSUME NEW c \in Call, ReadHeld(c) \/ \E t \in Ticket : UpsertRow(c, t)
        PROVE  UNCHANGED pc
    BY <2>6 DEF ReadHeld, UpsertRow, agentVars
  <2>7. UNCHANGED vars \/ NextDay => UNCHANGED pc
    BY DEF vars, NextDay, agentVars
  <2>8. QED
    BY <2>1, <2>2, <2>3, <2>4, <2>5, <2>6, <2>7, QuietSteps
<1>3. QED
  BY <1>1, <1>2 DEF NoFailInv

\* Requests, answers and slices: the agent waits for what it sent.
LEMMA SliceStep ==
  ASSUME TypeOK, [Next]_vars, faults' = 0, OneAgent, SliceInv, CarriedInv
  PROVE  SliceInv'
<1>0. /\ call \in [Call -> CallRecord] /\ pc \in [Agent -> Where]
      /\ snap \in [Agent -> [Ticket -> State]] /\ rest \in [Agent -> SUBSET Ticket]
      /\ on \in [Agent -> Call \cup {NoCall}]
  BY DEF TypeOK
<1>1. CASE UNCHANGED <<call, pc, on, snap>>
  BY <1>1 DEF SliceInv
<1>2. ASSUME NEW c \in Call, ReadHeld(c)
      PROVE  SliceInv'
  <2>1. \A d \in Call : /\ call'[d].at # "free" => call[d].at # "free"
                        /\ call'[d].rows = call[d].rows
                        /\ call'[d].left = call[d].left
    BY <1>0, <1>2 DEF ReadHeld, CallRecord
  <2>2. UNCHANGED <<pc, on, snap>>
    BY <1>2 DEF ReadHeld, agentVars
  <2>3. QED
    BY <2>1, <2>2 DEF SliceInv
<1>3. ASSUME NEW c \in Call, NEW u \in Ticket, UpsertRow(c, u)
      PROVE  SliceInv'
  <2>1. \A d \in Call : /\ call'[d].at = call[d].at
                        /\ call'[d].rows = call[d].rows
                        /\ call'[d].left \subseteq call[d].left
    BY <1>0, <1>3 DEF UpsertRow, CallRecord
  <2>2. UNCHANGED <<pc, on, snap>>
    BY <1>3 DEF UpsertRow, agentVars
  <2>3. QED
    BY <2>1, <2>2 DEF SliceInv
<1>4. ASSUME NEW c \in Call, AnswerPush(c)
      PROVE  SliceInv'
  <2>1. call[c].at # "free"
    BY <1>4 DEF AnswerPush
  <2>2. PICK a \in Agent : on[a] = c
    BY <2>1 DEF SliceInv
  <2>3. \A d \in Call \ {c} : call[d].at = "free"
    BY <2>2 DEF SliceInv, OneAgent
  <2>4. \A d \in Call : call'[d].at = "free"
    BY <1>0, <1>4, <2>3 DEF AnswerPush, FreeCall
  <2>5. QED
    BY <2>4 DEF SliceInv
<1>5. ASSUME NEW a \in Agent, AgentStep(a)
      PROVE  SliceInv'
  <2>1. CASE \E c \in Call : SendSlice(a, c)
    <3>1. PICK c \in Call : SendSlice(a, c)
      BY <2>1
    <3>2. pc[a] = "pushing"
      BY <3>1 DEF SendSlice
    <3>3. \A d \in Call : call[d].at = "free"
      BY <3>2 DEF SliceInv, OneAgent
    <3>4. PICK slice \in SUBSET rest[a] :
            call' = [call EXCEPT ![c] = [at |-> "received", rows |-> snap[a],
                                         held |-> {}, left |-> slice]]
      BY <3>1 DEF SendSlice
    <3>5. /\ \A d \in Call \ {c} : call'[d].at = "free"
          /\ call'[c].rows = snap[a] /\ call'[c].left = slice
      BY <1>0, <3>3, <3>4
    <3>6. \A t \in slice : snap[a][t] # "absent"
      BY <1>0, <3>2 DEF CarriedInv
    <3>7. pc'[a] = "waiting" /\ on'[a] = c /\ UNCHANGED snap
      BY <1>0, <3>1 DEF SendSlice
    <3>8. QED
      BY <3>5, <3>6, <3>7 DEF SliceInv
  <2>2. CASE ~ \E c \in Call : SendSlice(a, c)
    <3>1. pc[a] # "waiting" /\ UNCHANGED call
      BY <1>5, <2>2 DEF AgentStep, SelectTickets, FetchChanges, ApplyChange, RefuseChange,
                        ReportApplied, ReportFailed, ReportRefusal
    <3>2. \A d \in Call : call[d].at = "free"
      BY <3>1 DEF SliceInv, OneAgent
    <3>3. QED
      BY <3>1, <3>2 DEF SliceInv
  <2>3. QED
    BY <2>1, <2>2
<1>6. ASSUME NEW t \in Ticket, TillStep(t)
      PROVE  UNCHANGED <<call, pc, on, snap>>
  BY <1>6 DEF TillStep, TillIssue, TillReady, TillCollect, TillCancel, agentVars
<1>7. ASSUME NEW s \in Staff,
             \/ QueueChange(s) \/ MoveCard(s)
             \/ \E t \in Ticket, k \in Kind : FindTicket(s, t, k)
      PROVE  UNCHANGED <<call, pc, on, snap>>
  BY <1>7 DEF QueueChange, MoveCard, FindTicket, agentVars
<1>8. UNCHANGED vars \/ NextDay => UNCHANGED <<call, pc, on, snap>>
  BY DEF vars, NextDay, agentVars
<1>9. QED
  BY <1>1, <1>2, <1>3, <1>4, <1>5, <1>6, <1>7, <1>8, QuietSteps

\* What an agent carries stays fresh while no report is made of a change, and
\* whoever moves a card moves it to the state of a press the queue knows.
LEMMA FreshStays ==
  ASSUME TypeOK, NEW a \in Agent, NEW t \in Ticket, Fresh(a, t), NoFailInv, DeskInv,
         snap'[a] = snap[a],
         \/ UNCHANGED queue
         \/ \E s \in Staff : QueueChange(s),
         \/ board'[t] = board[t]
         \/ board'[t] = snap[a][t]
         \/ \E s \in Staff : MoveCard(s) /\ board'[t] = Target(desk[s].press.kind)
                                         /\ desk[s].press.ticket = t
  PROVE  Fresh(a, t)'
<1>0. queue \in Seq(Change) /\ Len(queue) \in Nat
  BY LenProperties DEF TypeOK
<1>1. /\ Len(queue') \in Nat /\ Len(queue) <= Len(queue')
      /\ \A i \in 1..Len(queue) : queue'[i] = queue[i]
      /\ \A i \in 1..Len(queue') : i \in 1..Len(queue) \/ queue'[i].status = "pending"
  <2>1. CASE UNCHANGED queue
    BY <1>0, <2>1
  <2>2. ASSUME NEW s \in Staff, QueueChange(s)
        PROVE  /\ Len(queue') \in Nat /\ Len(queue) <= Len(queue')
               /\ \A i \in 1..Len(queue) : queue'[i] = queue[i]
               /\ \A i \in 1..Len(queue') : i \in 1..Len(queue) \/ queue'[i].status = "pending"
    <3>1. \A i \in 1..Len(queue') : i \in 1..Len(queue) \/ i = Len(queue) + 1
      BY <2>2, QueuedRows
    <3>2. QED
      BY <2>2, <3>1, QueuedRows
  <2>3. QED
    BY <2>1, <2>2
<1>2. Held \subseteq Held'
  <2>1. \A i \in 1..Len(queue) : i \in 1..Len(queue')
    BY <1>0, <1>1
  <2>2. QED
    BY <1>1, <2>1 DEF Held, Pending
<1>3. \A i \in 1..Len(queue') : queue'[i].ticket = t /\ queue'[i].status = "applied" =>
                                Rank(Target(queue'[i].kind)) <= Rank(snap'[a][t])
  BY <1>1 DEF Fresh
<1>4. t \in Held' \/ Rank(board'[t]) <= Rank(snap'[a][t])
  <2>1. CASE board'[t] = board[t]
    BY <1>2, <2>1 DEF Fresh
  <2>2. CASE board'[t] = snap[a][t]
    <3>1. Rank(snap[a][t]) \in 0..3
      BY RankFacts DEF TypeOK
    <3>2. QED
      BY <2>2, <3>1
  <2>3. ASSUME NEW s \in Staff, MoveCard(s), board'[t] = Target(desk[s].press.kind),
               desk[s].press.ticket = t
        PROVE  t \in Held' \/ Rank(board'[t]) <= Rank(snap'[a][t])
    <3>1. desk[s].at = "queued"
      BY <2>3 DEF MoveCard
    <3>2. PICK i \in 1..Len(queue) : queue[i].ticket = t /\ queue[i].kind = desk[s].press.kind
      BY <2>3, <3>1 DEF DeskInv, QueuedFor
    <3>3. queue[i] \in Change
      BY <1>0, ElementOfSeq
    <3>4. queue[i].status = "pending" \/ queue[i].status = "applied"
      BY <3>3 DEF Change, NoFailInv
    <3>5. CASE queue[i].status = "pending"
      BY <1>2, <3>2, <3>5 DEF Held, Pending
    <3>6. CASE queue[i].status = "applied"
      BY <2>3, <3>2, <3>6 DEF Fresh
    <3>7. QED
      BY <3>4, <3>5, <3>6
  <2>4. QED
    BY <2>1, <2>2, <2>3
<1>5. QED
  BY <1>3, <1>4 DEF Fresh

\* What a selection finds is not behind the board but for pending presses: the
\* board is ahead of the shop only for a press the queue still holds.
LEMMA SelectedFresh ==
  ASSUME TypeOK, BoardInv, QueueInv, NoFailInv, NEW t \in Ticket,
         NEW a \in Agent, NEW back, SelectTickets(a, back), snap'[a][t] # "absent"
  PROVE  Fresh(a, t)'
<1>1. snap'[a][t] = shop[t] /\ UNCHANGED <<board, queue>>
  BY DEF TypeOK, SelectTickets, webVars
<1>2. Held' = Held
  BY <1>1 DEF Held, Pending
<1>3. \A i \in 1..Len(queue) : queue[i].ticket = t /\ queue[i].status = "applied" =>
                               Rank(Target(queue[i].kind)) <= Rank(shop[t])
  <2>1. SUFFICES ASSUME NEW i \in 1..Len(queue), queue[i].ticket = t,
                        queue[i].status = "applied"
                 PROVE  Rank(Target(queue[i].kind)) <= Rank(shop[t])
    OBVIOUS
  <2>2. queue[i] \in Change
    BY ElementOfSeq DEF TypeOK
  <2>3. Rank(Target(queue[i].kind)) \in 0..3 /\ Rank(shop[t]) \in 0..3
    BY <2>2, TargetType, RankFacts DEF TypeOK, Change
  <2>4. QED
    BY <2>1, <2>3 DEF QueueInv, Landed
<1>4. t \in Held \/ Rank(board[t]) <= Rank(shop[t])
  <2>1. CASE Rank(board[t]) <= Rank(shop[t])
    BY <2>1
  <2>2. ASSUME NEW i \in 1..Len(queue), queue[i].ticket = t,
               Rank(board[t]) <= Rank(Target(queue[i].kind))
        PROVE  t \in Held \/ Rank(board[t]) <= Rank(shop[t])
    <3>1. queue[i] \in Change
      BY ElementOfSeq DEF TypeOK
    <3>2. /\ Rank(Target(queue[i].kind)) \in 0..3 /\ Rank(shop[t]) \in 0..3
          /\ Rank(board[t]) \in 0..3
      BY <3>1, TargetType, RankFacts DEF TypeOK, Change
    <3>3. queue[i].status = "pending" \/ queue[i].status = "applied"
      BY <3>1 DEF Change, NoFailInv
    <3>4. CASE queue[i].status = "pending"
      BY <2>2, <3>4 DEF Held, Pending
    <3>5. CASE queue[i].status = "applied"
      BY <1>3, <2>2, <3>2, <3>5
    <3>6. QED
      BY <3>3, <3>4, <3>5
  <2>3. QED
    BY <2>1, <2>2 DEF BoardInv, Backed
<1>5. QED
  BY <1>1, <1>2, <1>3, <1>4 DEF Fresh

LEMMA CarriedStep ==
  ASSUME TypeOK, [Next]_vars, faults' = 0, OneAgent, TicketsInv, NoFailInv, SliceInv,
         CarriedInv
  PROVE  CarriedInv'
<1>0. /\ board \in [Ticket -> State] /\ pc \in [Agent -> Where]
      /\ snap \in [Agent -> [Ticket -> State]] /\ rest \in [Agent -> SUBSET Ticket]
  BY DEF TypeOK
<1> SUFFICES ASSUME NEW a \in Agent, pc'[a] \in {"pushing", "waiting"}, NEW t \in Ticket
             PROVE  /\ t \in rest'[a] => snap'[a][t] # "absent"
                    /\ snap'[a][t] # "absent" => Fresh(a, t)'
  BY DEF CarriedInv
<1> DEFINE Good == /\ t \in rest'[a] => snap'[a][t] # "absent"
                   /\ snap'[a][t] # "absent" => Fresh(a, t)'
<1>1. ASSUME pc[a] \in {"pushing", "waiting"}, snap'[a] = snap[a], rest'[a] \subseteq rest[a],
             UNCHANGED queue \/ \E s \in Staff : QueueChange(s),
             \/ board'[t] = board[t]
             \/ board'[t] = snap[a][t]
             \/ \E s \in Staff : MoveCard(s) /\ board'[t] = Target(desk[s].press.kind)
                                             /\ desk[s].press.ticket = t
      PROVE  Good
  <2>1. t \in rest'[a] => snap'[a][t] # "absent"
    BY <1>1 DEF CarriedInv
  <2>2. ASSUME snap'[a][t] # "absent"
        PROVE  Fresh(a, t)'
    <3>1. Fresh(a, t)
      BY <1>1, <2>2 DEF CarriedInv
    <3>2. QED
      BY <1>1, <3>1, FreshStays DEF TicketsInv
  <2>3. QED
    BY <2>1, <2>2
<1>2. CASE UNCHANGED <<pc, snap, rest, board, queue>>
  BY <1>1, <1>2
<1>3. ASSUME NEW c \in Call, ReadHeld(c)
      PROVE  UNCHANGED <<pc, snap, rest, board, queue>>
  BY <1>3 DEF ReadHeld, agentVars, webVars
<1>4. ASSUME NEW c \in Call, NEW u \in Ticket, UpsertRow(c, u)
      PROVE  Good
  <2>1. UNCHANGED <<pc, snap, rest, queue>>
    BY <1>4 DEF UpsertRow, agentVars
  <2>2. call[c].at # "free"
    BY <1>4 DEF UpsertRow
  <2>3. call[c].rows = snap[a]
    BY <2>2 DEF SliceInv, OneAgent
  <2>4. board'[t] = board[t] \/ board'[t] = snap[a][t]
    BY <1>0, <1>4, <2>3 DEF UpsertRow, Upserted
  <2>5. QED
    BY <1>1, <2>1, <2>4
<1>5. ASSUME NEW c \in Call, AnswerPush(c)
      PROVE  Good
  <2>1. UNCHANGED <<board, queue>>
    BY <1>5 DEF AnswerPush, webVars
  <2>2. AfterSlice(c, {b \in Awaiting(c) : rest[b] # {}})
    BY <1>5 DEF AnswerPush
  <2>3. pc[a] \in {"pushing", "waiting"}
    BY <1>0, <2>2 DEF AfterSlice, Awaiting
  <2>4. a \notin Awaiting(c) \ {b \in Awaiting(c) : rest[b] # {}}
    BY <1>0, <2>2 DEF AfterSlice
  <2>5. snap'[a] = snap[a] /\ rest'[a] = rest[a]
    BY <2>2, <2>4 DEF AfterSlice
  <2>6. QED
    BY <1>1, <2>1, <2>3, <2>5
<1>6. ASSUME NEW b \in Agent, AgentStep(b)
      PROVE  Good
  <2>0. b = a
    BY DEF OneAgent
  <2>1. \/ \E back \in {0, CatchUpDays} : SelectTickets(a, back)
        \/ \E c \in Call : SendSlice(a, c)
    BY <1>0, <1>6, <2>0 DEF AgentStep, FetchChanges, ApplyChange, RefuseChange,
                       ReportApplied, ReportFailed, ReportRefusal, Finish
  <2>2. ASSUME NEW back \in {0, CatchUpDays}, SelectTickets(a, back)
        PROVE  Good
    <3>1. t \in rest'[a] => snap'[a][t] # "absent"
      BY <1>0, <2>2 DEF SelectTickets, Selected
    <3>2. QED
      BY <2>2, <3>1, SelectedFresh DEF TicketsInv
  <2>3. ASSUME NEW c \in Call, SendSlice(a, c)
        PROVE  Good
    <3>1. pc[a] = "pushing" /\ UNCHANGED <<snap, board, queue>>
      BY <2>3 DEF SendSlice, webVars
    <3>2. rest'[a] \subseteq rest[a]
      BY <1>0, <2>3 DEF SendSlice
    <3>3. QED
      BY <1>1, <3>1, <3>2
  <2>4. QED
    BY <2>1, <2>2, <2>3
<1>7. ASSUME NEW s \in Staff, QueueChange(s)
      PROVE  Good
  <2>1. UNCHANGED <<pc, snap, rest, board>>
    BY <1>7 DEF QueueChange, agentVars
  <2>2. QED
    BY <1>1, <1>7, <2>1
<1>8. ASSUME NEW s \in Staff, MoveCard(s)
      PROVE  Good
  <2>1. UNCHANGED <<pc, snap, rest, queue>>
    BY <1>8 DEF MoveCard, agentVars
  <2>2. \/ board'[t] = board[t]
        \/ board'[t] = Target(desk[s].press.kind) /\ desk[s].press.ticket = t
    BY <1>0, <1>8 DEF MoveCard
  <2>3. QED
    BY <1>1, <1>8, <2>1, <2>2
<1>9. ASSUME NEW s \in Staff, \E u \in Ticket, k \in Kind : FindTicket(s, u, k)
      PROVE  UNCHANGED <<pc, snap, rest, board, queue>>
  BY <1>9 DEF FindTicket, agentVars
<1>10. ASSUME NEW u \in Ticket, TillStep(u)
       PROVE  UNCHANGED <<pc, snap, rest, board, queue>>
  BY <1>10 DEF TillStep, TillIssue, TillReady, TillCollect, TillCancel, agentVars, webVars
<1>11. UNCHANGED vars \/ NextDay => UNCHANGED <<pc, snap, rest, board, queue>>
  BY DEF vars, NextDay, agentVars, webVars
<1>12. QED
  BY <1>2, <1>3, <1>4, <1>5, <1>6, <1>7, <1>8, <1>9, <1>10, <1>11, QuietSteps

LEMMA PushInvCorrect ==
  ASSUME OneAgent
  PROVE  Spec => []PushInv
<1>1. TypeOK /\ TicketsInv /\ PushInv /\ [Next]_vars => PushInv'
  <2> SUFFICES ASSUME TypeOK, TicketsInv, PushInv, [Next]_vars, faults' = 0
               PROVE  NoFailInv' /\ SliceInv' /\ CarriedInv'
    BY DEF PushInv
  <2>1. NoFailInv /\ SliceInv /\ CarriedInv
    BY QuietSteps DEF PushInv
  <2>2. QED
    BY <2>1, NoFailStep, SliceStep, CarriedStep
<1>2. QED
  BY <1>1, PushInvInit, TypeCorrect, TicketsInvCorrect, PTL DEF Spec

\* With one agent, and until something fails, a push takes a card back only from
\* under a press still pending: what a slice writes was selected after every
\* press applied so far had landed, and no older slice is still about.
THEOREM AppliedStays ==
  ASSUME OneAgent
  PROVE  Spec => AppliedNeverBounces
<1>1. ASSUME TypeOK, PushInv, [Next]_vars, faults = 0, call' # call,
             NEW t \in Ticket, Rank(board'[t]) < Rank(board[t])
      PROVE  t \in Held
  <2>0. /\ Rank(board[t]) \in 0..3 /\ Rank(board'[t]) \in 0..3
        /\ board \in [Ticket -> State]
    BY <1>1, TypeStep, RankFacts DEF TypeOK
  <2>1. board' # board
    BY <1>1, <2>0
  <2>2. \E c \in Call, u \in Ticket : UpsertRow(c, u)
    <3>1. ASSUME NEW u \in Ticket, TillStep(u)
          PROVE  UNCHANGED board
      BY <3>1 DEF TillStep, TillIssue, TillReady, TillCollect, TillCancel, webVars
    <3>2. ASSUME NEW s \in Staff,
                 \/ \E u \in Ticket, k \in Kind : FindTicket(s, u, k)
                 \/ DeskStep(s) \/ DeskDies(s)
          PROVE  UNCHANGED call
      BY <3>2 DEF FindTicket, DeskStep, QueueChange, MoveCard, DeskDies
    <3>3. ASSUME NEW b \in Agent, AgentStep(b) \/ AgentFault(b)
          PROVE  UNCHANGED board
      BY <3>3 DEF AgentStep, AgentFault, SelectTickets, SendSlice, FetchChanges, ApplyChange,
                  RefuseChange, ReportApplied, ReportFailed, ReportRefusal, PushFails,
                  ApplyFails, ReportAppliedFails, ReportFailedFails, AgentDies, Mark, webVars
    <3>4. ASSUME NEW c \in Call, ReadHeld(c) \/ AnswerPush(c) \/ CallDies(c)
          PROVE  UNCHANGED board
      BY <3>4 DEF ReadHeld, AnswerPush, CallDies, webVars
    <3>5. NextDay \/ UNCHANGED vars => UNCHANGED board
      BY DEF NextDay, vars, webVars
    <3>6. QED
      BY <1>1, <2>1, <3>1, <3>2, <3>3, <3>4, <3>5 DEF Next, CallStep
  <2>3. PICK c \in Call, u \in Ticket : UpsertRow(c, u)
    BY <2>2
  <2>4. u = t /\ t \in call[c].left /\ board'[t] = call[c].rows[t] /\ call[c].at # "free"
    BY <1>1, <2>0, <2>3 DEF UpsertRow, Upserted
  <2>5. PICK a \in Agent : /\ pc[a] = "waiting" /\ call[c].rows = snap[a]
                           /\ \A v \in call[c].left : snap[a][v] # "absent"
    BY <1>1, <2>4 DEF PushInv, SliceInv
  <2>6. Fresh(a, t)
    BY <1>1, <2>4, <2>5 DEF PushInv, CarriedInv
  <2>7. QED
    BY <1>1, <2>0, <2>4, <2>5, <2>6 DEF Fresh
<1>2. TypeOK /\ PushInv /\ [Next]_vars =>
        [faults = 0 /\ call' # call =>
           \A t \in Ticket : Rank(board'[t]) < Rank(board[t]) => t \in Held]_vars
  BY <1>1
<1>3. QED
  BY <1>2, TypeCorrect, PushInvCorrect, PTL DEF Spec, AppliedNeverBounces
=============================================================================
