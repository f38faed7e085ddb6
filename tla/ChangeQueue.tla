---------------------------- MODULE ChangeQueue ----------------------------
(***************************************************************************)
(* The write-back queue beyond the ticket presses.  The dashboard queues   *)
(* changes of every kind (POST /sync/pending-changes); the shop agent      *)
(* fetches the oldest, works each into the shop's MySQL and reports it     *)
(* (bridge/pusher.js, applyPendingChanges).  A change is a program of      *)
(* statements: some kinds post one row, some a document row by row with no *)
(* transaction, payments inside one, commands nothing at all.  What a      *)
(* change carries is abstracted to its kind and, for payments, its amount. *)
(***************************************************************************)
EXTENDS Naturals, Sequences, FiniteSets

CONSTANTS
  Kinds,       \* the kinds of change the dashboard queues in this instance
  Amount,      \* amounts of a payment
  Bill,        \* what the invoice comes to, a supplier's or a customer's
  Slack,       \* the half shilling a payment may come to above what is left
  Window,      \* changes handed out per poll (50 in the code)
  MaxChange,   \* bound: changes ever queued
  MaxFault,    \* bound: lost messages, failed statements and crashes
  MaxRelease   \* bound: builds of the till program put on the server

AllKinds  == {"adjustment", "document", "payment", "print", "backup", "command", "update",
              "mirror", "unknown"}
Documents == {"adjustment", "document"}
Posted    == Documents \cup {"payment"}

ASSUME QueueConstantsOK ==
  /\ Kinds \subseteq AllKinds
  /\ Amount \subseteq Nat \ {0}
  /\ {Bill, Slack, MaxChange, MaxFault, MaxRelease} \subseteq Nat
  /\ Window \in Nat \ {0}

VARIABLES
  queue,   \* the PendingChange rows, oldest first
  late,    \* reports the agent gave up on that have yet to reach the server
  pc,      \* where applyPendingChanges stands
  todo,    \* the fetched changes it has not finished with
  step,    \* statements of the current change already run
  whole,   \* whole[i]: complete postings of change i in MySQL, or receipts printed
  part,    \* part[i]: postings of change i begun and abandoned
  paid,    \* what MySQL says has been paid against the invoice
  read,    \* what the payment under way read of it
  build,   \* builds released since the one the shop PC holds
  faults

webVars  == <<queue, late>>
shopVars == <<whole, part, paid>>
vars == <<webVars, pc, todo, step, shopVars, read, build, faults>>

Change == [kind : AllKinds, amount : Amount \cup {0},
           status : {"pending", "applied", "failed"}]
Mark   == [change : 1..MaxChange, status : {"applied", "failed"}]

TypeOK ==
  /\ queue \in Seq(Change) /\ Len(queue) <= MaxChange
  /\ late \subseteq Mark
  /\ pc \in {"idle", "working", "paying", "landed", "errored"}
  /\ todo \subseteq 1..Len(queue)
  /\ step \in 0..3
  /\ whole \in [1..MaxChange -> Nat] /\ part \in [1..MaxChange -> Nat]
  /\ {paid, read} \subseteq Nat
  /\ build \in 0..MaxRelease
  /\ faults \in 0..MaxFault

Init ==
  /\ queue = <<>> /\ late = {}
  /\ pc = "idle" /\ todo = {} /\ step = 0
  /\ whole = [i \in 1..MaxChange |-> 0] /\ part = [i \in 1..MaxChange |-> 0]
  /\ paid = 0 /\ read = 0
  /\ build = 0 /\ faults = 0

Fault == faults < MaxFault /\ faults' = faults + 1

-----------------------------------------------------------------------------
(* The dashboard and the server.                                           *)

Pending == {i \in 1..Len(queue) : queue[i].status = "pending"}
Oldest  == {i \in Pending : Cardinality({j \in Pending : j < i}) < Window}

NewChange(k, n) == [kind |-> k, amount |-> n, status |-> "pending"]

QueueChange(k) ==
  /\ Len(queue) < MaxChange
  /\ \E n \in IF k = "payment" THEN Amount ELSE {0} :
       queue' = Append(queue, NewChange(k, n))
  /\ UNCHANGED <<late, pc, todo, step, shopVars, read, build, faults>>

Release ==
  /\ build < MaxRelease
  /\ build' = build + 1
  /\ UNCHANGED <<webVars, pc, todo, step, shopVars, read, faults>>

\* A report that was given up on arrives after all.
LateMark(m) ==
  /\ m \in late
  /\ late' = late \ {m}
  /\ queue' = [queue EXCEPT ![m.change].status = m.status]
  /\ UNCHANGED <<pc, todo, step, shopVars, read, build, faults>>

-----------------------------------------------------------------------------
(* The agent.                                                              *)

Current == CHOOSE i \in todo : \A j \in todo : i <= j
Kind    == queue[Current].kind
Working(kinds) == pc = "working" /\ Kind \in kinds

Fetch ==
  /\ pc = "idle" /\ Oldest # {}
  /\ todo' = Oldest
  /\ pc' = "working"
  /\ UNCHANGED <<webVars, step, shopVars, read, build, faults>>

\* The statements a posting takes: an adjustment is one row; a return or a
\* goods receipt a header, a line and its stock movement.
Statements == IF Kind = "adjustment" THEN 1 ELSE 3

\* Slip: the stock movement is left to the next poll.
mut_PostStatement ==
  /\ Working(Documents)
  /\ whole' = whole
  /\ part' = [part EXCEPT ![Current] = @ + 1]
  /\ pc' = "landed"
  /\ UNCHANGED <<webVars, step, todo, paid, read, build, faults>>

PostStatement ==
  /\ Working(Documents)
  /\ IF step + 1 = Statements
     THEN /\ whole' = [whole EXCEPT ![Current] = @ + 1]
          /\ step' = 0 /\ pc' = "landed"
     ELSE /\ step' = step + 1
          /\ UNCHANGED <<whole, pc>>
  /\ UNCHANGED <<webVars, todo, part, paid, read, build, faults>>

\* What a document leaves behind when it is broken off after a statement.
Abandon == part' = IF step > 0 THEN [part EXCEPT ![Current] = @ + 1] ELSE part

\* A statement is refused or not answered.
StatementFails ==
  /\ Working(Documents) /\ Fault
  /\ Abandon
  /\ step' = 0 /\ pc' = "errored"
  /\ UNCHANGED <<webVars, todo, whole, paid, read, build>>

\* The balance is read, and the amount checked, before the transaction starts.
\* Slip: the check forgets what has been paid already.
mut_CheckPayment ==
  /\ Working({"payment"})
  /\ read' = paid
  /\ pc' = IF queue[Current].amount > Bill + Slack THEN "errored" ELSE "paying"
  /\ UNCHANGED <<webVars, todo, step, shopVars, build, faults>>

CheckPayment ==
  /\ Working({"payment"})
  /\ read' = paid
  /\ pc' = IF paid + queue[Current].amount > Bill + Slack THEN "errored" ELSE "paying"
  /\ UNCHANGED <<webVars, todo, step, shopVars, build, faults>>

Pay ==
  /\ paid' = paid + queue[Current].amount
  /\ whole' = [whole EXCEPT ![Current] = @ + 1]

CommitPayment ==
  /\ pc = "paying"
  /\ Pay
  /\ pc' = "landed" /\ read' = 0
  /\ UNCHANGED <<webVars, todo, step, part, build, faults>>

\* A statement fails and everything is rolled back, or the answer to the COMMIT
\* is what gets lost.
PaymentFails ==
  /\ pc = "paying" /\ Fault
  /\ Pay \/ UNCHANGED <<paid, whole>>
  /\ pc' = "errored" /\ read' = 0
  /\ UNCHANGED <<webVars, todo, step, part, build>>

\* A receipt is printed on the shop's printer (printReceipt).
PrintReceipt ==
  /\ Working({"print"})
  /\ whole' = [whole EXCEPT ![Current] = @ + 1]
  /\ pc' = "landed"
  /\ UNCHANGED <<webVars, todo, step, part, paid, read, build, faults>>

\* PowerShell fails or takes too long, having printed or not, and notepad is sent
\* after it; neither is told the queue.
PrintFails ==
  /\ Working({"print"}) /\ Fault
  /\ \E copies \in 0..2 : whole' = [whole EXCEPT ![Current] = @ + copies]
  /\ pc' = "landed"
  /\ UNCHANGED <<webVars, todo, step, part, paid, read, build>>

\* The day's tables go to the server one by one, to take the place of the day's
\* files there; one that fails is logged (runDailyBackup).
RunBackup ==
  /\ Working({"backup"})
  /\ pc' = "landed"
  /\ UNCHANGED <<webVars, todo, step, shopVars, read, build, faults>>

\* Probes, users, backfills and installs catch their own errors: whatever came of
\* it, the change is reported applied.
RunCommand ==
  /\ Working({"command"})
  /\ pc' = "landed"
  /\ UNCHANGED <<webVars, todo, step, shopVars, read, build, faults>>

RefuseUnknown ==
  /\ Working({"unknown"})
  /\ pc' = "errored"
  /\ UNCHANGED <<webVars, todo, step, shopVars, read, build, faults>>

\* A new build of the till program is staged.
StageUpdate ==
  /\ Working({"update"}) /\ build > 0
  /\ build' = 0 /\ pc' = "landed"
  /\ UNCHANGED <<webVars, todo, step, shopVars, read, faults>>

\* "Already up to date": break, which leaves the loop over the changes and
\* reports nothing.
\* Slip: every update is abandoned.
mut_BreakOff ==
  /\ Working({"update", "adjustment"})
  /\ todo' = {} /\ pc' = "idle"
  /\ UNCHANGED <<webVars, step, shopVars, read, build, faults>>

BreakOff ==
  /\ Working({"update"}) /\ build = 0
  /\ todo' = {} /\ pc' = "idle"
  /\ UNCHANGED <<webVars, step, shopVars, read, build, faults>>

\* The version or the file is not served, which breaks off as well; or the request
\* throws, which is caught and counts as done.
UpdateFails ==
  /\ Working({"update"}) /\ Fault
  /\ \/ todo' = {} /\ pc' = "idle"
     \/ pc' = "landed" /\ UNCHANGED todo
  /\ UNCHANGED <<webVars, step, shopVars, read, build>>

\* A batch of the mirror; with autoContinue and days left the next is queued.
RunMirror ==
  /\ Working({"mirror"})
  /\ \/ Len(queue) < MaxChange /\ queue' = Append(queue, NewChange("mirror", 0))
     \/ UNCHANGED queue
  /\ pc' = "landed"
  /\ UNCHANGED <<late, todo, step, shopVars, read, build, faults>>

NextChange ==
  /\ todo' = todo \ {Current}
  /\ pc' = IF todo' = {} THEN "idle" ELSE "working"

Report(status) == queue' = [queue EXCEPT ![Current].status = status]

\* Slip: the report does not reach the row.
mut_ReportApplied ==
  /\ pc = "landed"
  /\ NextChange
  /\ UNCHANGED <<webVars, step, shopVars, read, build, faults>>

ReportApplied ==
  /\ pc = "landed"
  /\ Report("applied") /\ NextChange
  /\ UNCHANGED <<late, step, shopVars, read, build, faults>>

ReportFailed ==
  /\ pc = "errored"
  /\ Report("failed") /\ NextChange
  /\ UNCHANGED <<late, step, shopVars, read, build, faults>>

\* The report is not answered: it never arrived, it arrived, or it is still on
\* its way.  After "applied" the catch reports a failure; a failure report that
\* is lost leaves the loop.  A status other than 200 is not looked at.
ReportLost ==
  /\ pc \in {"landed", "errored"} /\ Fault
  /\ LET status == IF pc = "landed" THEN "applied" ELSE "failed" IN
       \/ UNCHANGED webVars
       \/ Report(status) /\ UNCHANGED late
       \/ late' = late \cup {[change |-> Current, status |-> status]} /\ UNCHANGED queue
  /\ IF pc = "landed"
     THEN pc' = "errored" /\ UNCHANGED todo
     ELSE pc' = "idle" /\ todo' = {}
  /\ UNCHANGED <<step, shopVars, read, build>>

ReportIgnored ==
  /\ pc \in {"landed", "errored"} /\ Fault
  /\ NextChange
  /\ UNCHANGED <<webVars, step, shopVars, read, build>>

Dies ==
  /\ pc # "idle" /\ Fault
  /\ Abandon
  /\ pc' = "idle" /\ todo' = {} /\ step' = 0 /\ read' = 0
  /\ UNCHANGED <<webVars, whole, paid, build>>

AgentStep ==
  \/ Fetch \/ PostStatement \/ CheckPayment \/ CommitPayment \/ RunCommand
  \/ PrintReceipt \/ RunBackup
  \/ RefuseUnknown \/ RunMirror \/ ReportApplied \/ ReportFailed
  \/ StageUpdate \/ BreakOff

AgentFault ==
  \/ StatementFails \/ PaymentFails \/ PrintFails \/ UpdateFails
  \/ ReportLost \/ ReportIgnored \/ Dies

Next ==
  \/ \E k \in Kinds : QueueChange(k)
  \/ Release
  \/ \E m \in late : LateMark(m)
  \/ AgentStep \/ AgentFault

Spec == Init /\ [][Next]_vars

\* loop.js runs the agent again every few seconds, whatever became of the last.
FairSpec == Spec /\ WF_vars(AgentStep)

-----------------------------------------------------------------------------
\* "applied" is a promise: the whole document, not its header alone, is in the
\* shop's books, and a payment has been committed, whatever reports were lost,
\* late or repeated on the way.
AppliedIsWhole ==
  \A i \in 1..Len(queue) :
    queue[i].kind \in Posted /\ queue[i].status = "applied" => whole[i] >= 1

\* A change enters the books, or comes out of the printer, at most once, complete
\* or half, unless a fault struck: every further copy is owed to a fault of its own
\* (none of these inserts carries a key that would refuse a second copy).
Copies(i) == whole[i] + part[i]
ExtraCopies == UNION {{i} \X {n \in 1..Copies(i) : n < Copies(i)} : i \in 1..MaxChange}
RepeatsCostFaults == Cardinality(ExtraCopies) <= faults

\* Instalments posted from the dashboard never come to more than the invoice and
\* one half shilling of slack, however many there are and however often one of them
\* is applied again: the slack does not add up (the check of postGrnPayment and
\* postArPayment, with the agent the only one posting).
NeverOverpaid == paid <= Bill + Slack

\* The inductive strengthening of the three.  What the agent has in hand is what it
\* says it is, a late report tells the truth, and a change that will be worked
\* again although a copy of it is there has cost a fault already.
HandInv ==
  /\ pc = "idle" <=> todo = {}
  /\ step # 0 => pc = "working" /\ Kind = "document" /\ step < Statements
  /\ pc = "paying" => Kind = "payment" /\ paid + queue[Current].amount <= Bill + Slack
  /\ pc = "landed" /\ Kind \in Posted => whole[Current] >= 1
LateInv ==
  \A m \in late :
    /\ m.change <= Len(queue)
    /\ m.status = "applied" /\ queue[m.change].kind \in Posted => whole[m.change] >= 1
NoRowNoCopy == \A i \in 1..MaxChange : i > Len(queue) => Copies(i) = 0

InHand(i)     == i \in todo /\ pc \in {"landed", "errored"} /\ i = Current
AgainToDo(i)  == (i \in Pending \/ i \in todo) /\ ~InHand(i)
Charged(i)    == {n \in 1..Copies(i) : n < Copies(i) \/ AgainToDo(i)}
ChargedCopies == UNION {{i} \X Charged(i) : i \in 1..MaxChange}
FaultsCover   == IsFiniteSet(ChargedCopies) /\ Cardinality(ChargedCopies) <= faults

QueueInv == HandInv /\ LateInv /\ NoRowNoCopy /\ AppliedIsWhole /\ NeverOverpaid /\ FaultsCover

\* Every change is settled in the end, unless it is an update request with
\* nothing to stage or waits behind one.
Stuck(i) == \E j \in Pending : j <= i /\ queue[j].kind = "update" /\ build = 0
SettlesUnlessStuck ==
  \A i \in 1..MaxChange :
    (i <= Len(queue)) ~> (i <= Len(queue) /\ (queue[i].status # "pending" \/ Stuck(i)))
=============================================================================
