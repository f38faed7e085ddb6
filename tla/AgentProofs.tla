---------------------------- MODULE AgentProofs ----------------------------
(***************************************************************************)
(* Proofs about the shop PC's agent.  ChangeQueue: for every set of kinds, *)
(* amounts and bill, for any number of changes, faults and builds, and any *)
(* length of a poll.  AgentLoop, what keeps the agent running and current: *)
(* for every set of loops and every number of deploys and mishaps.  The two*)
(* share no state.                                                         *)
(***************************************************************************)
EXTENDS ChangeQueue, AgentLoop, FiniteSetTheorems, SequenceTheorems, WellFoundedInduction, TLAPS

-----------------------------------------------------------------------------
(* The change in hand.                                                     *)

\* The least number principle, from the library's theorem on well-founded relations.
LEMMA SmallestExists ==
  ASSUME NEW T, T \subseteq Nat, T # {}
  PROVE  \E i \in T : \A j \in T : i <= j
<1> DEFINE R == {ss \in Nat \X Nat : ss[1] < ss[2]}
<1>1. IsWellFoundedOn(R, Nat)
  BY NatLessThanWellFounded DEF OpToRel
<1>2. PICK i \in T : \A j \in T : <<j, i>> \notin R
  <2> HIDE DEF R
  <2>1. QED
    BY <1>1, WFMin
<1>3. ASSUME NEW j \in T
      PROVE  i <= j
  <2>1. i \in Nat /\ j \in Nat
    OBVIOUS
  <2>2. <<j, i>>[1] = j /\ <<j, i>>[2] = i /\ <<j, i>> \in Nat \X Nat
    BY <2>1
  <2>3. ~(<<j, i>>[1] < <<j, i>>[2])
    BY <1>2, <2>2
  <2>4. QED
    BY <2>1, <2>2, <2>3
<1>4. QED
  BY <1>3

LEMMA CurrentFetched ==
  ASSUME TypeOK, todo # {}
  PROVE  /\ Current \in todo /\ Current \in 1..Len(queue) /\ Current \in 1..MaxChange
         /\ queue[Current] \in Change /\ Len(queue) \in Nat
<1>1. todo \subseteq Nat
  BY DEF TypeOK
<1>2. \E i \in todo : \A j \in todo : i <= j
  BY <1>1, SmallestExists
<1>3. Current \in todo
  BY <1>2 DEF Current
<1>4. Current \in 1..Len(queue) /\ queue \in Seq(Change) /\ Len(queue) <= MaxChange /\ MaxChange \in Nat
  BY <1>3, QueueConstantsOK DEF TypeOK
<1>5. QED
  BY <1>3, <1>4

-----------------------------------------------------------------------------
(* What every step leaves of the rows and of the copies.                   *)

\* Rows are added and their status changes, never back to pending; nothing else
\* about them does.
RowsKept ==
  /\ queue' \in Seq(Change) /\ Len(queue) <= Len(queue') /\ Len(queue') <= MaxChange
  /\ \A i \in 1..Len(queue) :
       /\ queue'[i].kind = queue[i].kind /\ queue'[i].amount = queue[i].amount
       /\ queue'[i].status = "pending" => queue[i].status = "pending"

LEMMA AppendKeeps ==
  ASSUME TypeOK, NEW k \in AllKinds, NEW n \in Amount \cup {0},
         Len(queue) < MaxChange, queue' = Append(queue, NewChange(k, n))
  PROVE  /\ RowsKept /\ Len(queue') = Len(queue) + 1
         /\ \A i \in 1..Len(queue) : queue'[i] = queue[i]
         /\ queue'[Len(queue) + 1] = NewChange(k, n)
<1>1. NewChange(k, n) \in Change
  BY DEF NewChange, Change
<1>2. queue \in Seq(Change) /\ Len(queue) \in Nat
  BY DEF TypeOK
<1>3. /\ queue' \in Seq(Change) /\ Len(queue') = Len(queue) + 1
      /\ \A i \in 1..Len(queue) : queue'[i] = queue[i]
      /\ queue'[Len(queue) + 1] = NewChange(k, n)
  BY <1>1, <1>2, AppendProperties
<1>4. QED
  BY <1>2, <1>3, QueueConstantsOK DEF RowsKept

LEMMA StatusKeeps ==
  ASSUME TypeOK, NEW c \in 1..Len(queue), NEW s \in {"applied", "failed"},
         queue' = [queue EXCEPT ![c].status = s]
  PROVE  /\ RowsKept /\ Len(queue') = Len(queue)
         /\ \A i \in 1..Len(queue) : i # c => queue'[i] = queue[i]
         /\ queue'[c].status = s
<1> DEFINE e == [queue[c] EXCEPT !.status = s]
<1>1. queue \in Seq(Change) /\ queue[c] \in Change /\ Len(queue) \in Nat
  BY DEF TypeOK
<1>2. e \in Change /\ e.status = s /\ e.kind = queue[c].kind /\ e.amount = queue[c].amount
  BY <1>1 DEF Change
<1>3. queue' = [queue EXCEPT ![c] = e]
  OBVIOUS
<1> HIDE DEF e
<1>4. /\ queue' \in Seq(Change) /\ Len(queue') = Len(queue)
      /\ \A j \in 1..Len(queue) : queue'[j] = IF j = c THEN e ELSE queue[j]
  BY <1>1, <1>2, <1>3, ExceptSeq
<1>5. QED
  BY <1>1, <1>2, <1>4, QueueConstantsOK DEF RowsKept, TypeOK

LEMMA ReportKeeps ==
  ASSUME TypeOK, todo # {}, NEW s \in {"applied", "failed"}, Report(s)
  PROVE  /\ RowsKept /\ Len(queue') = Len(queue)
         /\ \A i \in 1..Len(queue) : i # Current => queue'[i] = queue[i]
         /\ queue'[Current].status = s
<1>1. PICK c \in 1..Len(queue) : c = Current
  BY CurrentFetched
<1>2. queue' = [queue EXCEPT ![c].status = s]
  BY <1>1 DEF Report
<1>3. QED
  BY <1>1, <1>2, StatusKeeps

LEMMA UnchangedKeeps ==
  ASSUME TypeOK, queue' = queue
  PROVE  RowsKept
<1>1. queue \in Seq(Change) /\ Len(queue) \in Nat /\ Len(queue) <= MaxChange
  BY DEF TypeOK
<1>2. QED
  BY <1>1 DEF RowsKept

-----------------------------------------------------------------------------
(* Type correctness.  Where the step count of a document stops, and that a *)
(* late report is about a row that exists, come from the invariant.        *)

LEMMA TypeInit == Init => TypeOK
BY QueueConstantsOK, EmptySeq DEF Init, TypeOK

\* The parts of TypeOK that the rows, and the shop's books, make up.
LEMMA RowsType ==
  ASSUME TypeOK, RowsKept, late' \subseteq Mark, todo' \subseteq todo
  PROVE  /\ queue' \in Seq(Change) /\ Len(queue') <= MaxChange /\ late' \subseteq Mark
         /\ todo' \subseteq 1..Len(queue')
<1>1. /\ queue' \in Seq(Change) /\ Len(queue') <= MaxChange /\ Len(queue) <= Len(queue')
      /\ Len(queue) \in Nat /\ Len(queue') \in Nat
  BY DEF TypeOK, RowsKept
<1>2. todo' \subseteq 1..Len(queue)
  BY DEF TypeOK
<1>3. QED
  BY <1>1, <1>2

LEMMA WebType ==
  ASSUME TypeOK, QueueInv,
         \/ \E k \in Kinds : QueueChange(k)
         \/ Release
         \/ \E m \in late : LateMark(m)
         \/ Fetch
  PROVE  TypeOK' /\ RowsKept
<1>1. ASSUME NEW k \in Kinds, QueueChange(k)
      PROVE  TypeOK' /\ RowsKept
  <2>1. PICK n \in Amount \cup {0} : queue' = Append(queue, NewChange(k, n))
    BY <1>1 DEF QueueChange
  <2>2. RowsKept
    BY <1>1, <2>1, QueueConstantsOK, AppendKeeps DEF QueueChange
  <2>3. QED
    BY <1>1, <2>2, RowsType DEF QueueChange, shopVars, TypeOK
<1>2. CASE Release
  <2>1. RowsKept
    BY <1>2, UnchangedKeeps DEF Release, webVars
  <2>2. build' \in 0..MaxRelease
    BY <1>2, QueueConstantsOK DEF Release, TypeOK
  <2>3. QED
    BY <1>2, <2>1, <2>2, RowsType DEF Release, webVars, shopVars, TypeOK
<1>3. ASSUME NEW m \in late, LateMark(m)
      PROVE  TypeOK' /\ RowsKept
  <2>1. m.change \in 1..Len(queue) /\ m.status \in {"applied", "failed"}
    BY DEF TypeOK, Mark, QueueInv, LateInv
  <2>2. RowsKept
    BY <1>3, <2>1, StatusKeeps DEF LateMark
  <2>3. QED
    BY <1>3, <2>2, RowsType DEF LateMark, shopVars, TypeOK
<1>4. CASE Fetch
  <2>1. RowsKept
    BY <1>4, UnchangedKeeps DEF Fetch, webVars
  <2>2. todo' \subseteq 1..Len(queue')
    BY <1>4 DEF Fetch, Oldest, Pending, webVars
  <2>3. QED
    BY <1>4, <2>1, <2>2, RowsType DEF Fetch, webVars, shopVars, TypeOK
<1>5. QED
  BY <1>1, <1>2, <1>3, <1>4

\* A step of the agent after the fetch has a change in hand.
AgentWork ==
  \/ PostStatement \/ CheckPayment \/ CommitPayment \/ RunCommand \/ PrintReceipt \/ RunBackup
  \/ RefuseUnknown \/ RunMirror \/ ReportApplied \/ ReportFailed \/ StageUpdate \/ BreakOff

LEMMA WorkingHasChange ==
  ASSUME QueueInv, AgentWork \/ AgentFault
  PROVE  todo # {}
BY DEF QueueInv, HandInv, AgentWork, AgentFault, PostStatement, CheckPayment, CommitPayment,
   RunCommand, PrintReceipt, RunBackup, RefuseUnknown, RunMirror, ReportApplied, ReportFailed,
   StageUpdate, BreakOff, StatementFails, PaymentFails, PrintFails, UpdateFails, ReportLost,
   ReportIgnored, Dies, Working

LEMMA WorkRows ==
  ASSUME TypeOK, QueueInv, AgentWork \/ AgentFault
  PROVE  RowsKept /\ late' \subseteq Mark /\ todo' \subseteq todo
<1>1. todo # {} /\ Current \in 1..MaxChange
  BY WorkingHasChange, CurrentFetched
<1>2. CASE RunMirror
  <2>1. CASE queue' = queue
    BY <1>2, <2>1, UnchangedKeeps DEF RunMirror, TypeOK
  <2>2. CASE Len(queue) < MaxChange /\ queue' = Append(queue, NewChange("mirror", 0))
    <3>1. "mirror" \in AllKinds /\ 0 \in Amount \cup {0}
      BY DEF AllKinds
    <3>2. QED
      BY <1>2, <2>2, <3>1, AppendKeeps DEF RunMirror, TypeOK
  <2>3. QED
    BY <1>2, <2>1, <2>2 DEF RunMirror
<1>3. CASE ReportApplied \/ ReportFailed
  BY <1>1, <1>3, ReportKeeps DEF ReportApplied, ReportFailed, NextChange, TypeOK
<1>4. CASE ReportLost
  <2>1. PICK s \in {"applied", "failed"} :
               \/ UNCHANGED webVars
               \/ Report(s) /\ UNCHANGED late
               \/ late' = late \cup {[change |-> Current, status |-> s]} /\ UNCHANGED queue
    BY <1>4 DEF ReportLost
  <2>2. RowsKept
    BY <1>1, <2>1, ReportKeeps, UnchangedKeeps DEF webVars
  <2>3. late' \subseteq Mark
    BY <1>1, <2>1 DEF webVars, TypeOK, Mark
  <2>4. todo' \subseteq todo
    BY <1>4 DEF ReportLost
  <2>5. QED
    BY <2>2, <2>3, <2>4
<1>5. CASE \/ PostStatement \/ CheckPayment \/ CommitPayment \/ RunCommand \/ PrintReceipt
           \/ RunBackup \/ RefuseUnknown \/ StageUpdate \/ BreakOff
  BY <1>5, UnchangedKeeps DEF PostStatement, CheckPayment, CommitPayment, RunCommand,
     PrintReceipt, RunBackup, RefuseUnknown, StageUpdate, BreakOff, webVars, TypeOK
<1>6. CASE \/ StatementFails \/ PaymentFails \/ PrintFails \/ UpdateFails \/ ReportIgnored \/ Dies
  BY <1>6, UnchangedKeeps DEF StatementFails, PaymentFails, PrintFails, UpdateFails,
     ReportIgnored, Dies, NextChange, webVars, TypeOK
<1>7. QED
  BY <1>2, <1>3, <1>4, <1>5, <1>6 DEF AgentWork, AgentFault

\* The copies in the books only grow, and only those of the change in hand.
BooksKept ==
  /\ whole' \in [1..MaxChange -> Nat] /\ part' \in [1..MaxChange -> Nat]
  /\ \A i \in 1..MaxChange :
       /\ whole[i] <= whole'[i] /\ part[i] <= part'[i]
       /\ i # Current \/ todo = {} => whole'[i] = whole[i] /\ part'[i] = part[i]

LEMMA BooksSame ==
  ASSUME TypeOK, UNCHANGED <<whole, part>>
  PROVE  BooksKept
<1>1. whole \in [1..MaxChange -> Nat] /\ part \in [1..MaxChange -> Nat]
  BY DEF TypeOK
<1>2. QED
  BY <1>1 DEF BooksKept

LEMMA BooksAdd ==
  ASSUME TypeOK, todo # {}, NEW n \in Nat,
         \/ whole' = [whole EXCEPT ![Current] = @ + n] /\ part' = part
         \/ part' = [part EXCEPT ![Current] = @ + n] /\ whole' = whole
  PROVE  BooksKept
<1>1. PICK c \in 1..MaxChange : c = Current
  BY CurrentFetched
<1>2. whole \in [1..MaxChange -> Nat] /\ part \in [1..MaxChange -> Nat]
  BY DEF TypeOK
<1>3. CASE whole' = [whole EXCEPT ![c] = @ + n] /\ part' = part
  BY <1>1, <1>2, <1>3 DEF BooksKept
<1>4. CASE part' = [part EXCEPT ![c] = @ + n] /\ whole' = whole
  BY <1>1, <1>2, <1>4 DEF BooksKept
<1>5. QED
  BY <1>1, <1>3, <1>4

LEMMA WorkBooks ==
  ASSUME TypeOK, QueueInv, AgentWork \/ AgentFault
  PROVE  BooksKept
<1>1. todo # {}
  BY WorkingHasChange
<1>2. CASE PostStatement \/ CommitPayment \/ PrintReceipt \/ PaymentFails
  <2>1. \/ whole' = [whole EXCEPT ![Current] = @ + 1] /\ part' = part
        \/ UNCHANGED <<whole, part>>
    BY <1>2 DEF PostStatement, CommitPayment, PrintReceipt, PaymentFails, Pay
  <2>2. QED
    BY <1>1, <2>1, BooksSame, BooksAdd
<1>3. CASE PrintFails
  <2>1. PICK copies \in 0..2 : whole' = [whole EXCEPT ![Current] = @ + copies]
    BY <1>3 DEF PrintFails
  <2>2. copies \in Nat /\ part' = part
    BY <1>3 DEF PrintFails
  <2>3. QED
    BY <1>1, <2>1, <2>2, BooksAdd
<1>4. CASE StatementFails \/ Dies
  <2>1. \/ part' = [part EXCEPT ![Current] = @ + 1] /\ whole' = whole
        \/ UNCHANGED <<whole, part>>
    BY <1>4 DEF StatementFails, Dies, Abandon
  <2>2. QED
    BY <1>1, <2>1, BooksSame, BooksAdd
<1>5. CASE \/ CheckPayment \/ RunCommand \/ RunBackup \/ RefuseUnknown \/ StageUpdate
           \/ BreakOff \/ RunMirror \/ ReportApplied \/ ReportFailed
           \/ UpdateFails \/ ReportLost \/ ReportIgnored
  BY <1>5, BooksSame DEF CheckPayment, RunCommand, RunBackup, RefuseUnknown, StageUpdate,
     BreakOff, RunMirror, ReportApplied, ReportFailed, UpdateFails, ReportLost, ReportIgnored,
     shopVars
<1>6. QED
  BY <1>2, <1>3, <1>4, <1>5 DEF AgentWork, AgentFault

LEMMA WorkType ==
  ASSUME TypeOK, QueueInv, AgentWork \/ AgentFault
  PROVE  TypeOK'
<1>1. todo # {} /\ queue[Current] \in Change
  BY WorkingHasChange, CurrentFetched
<1>2. pc' \in {"idle", "working", "paying", "landed", "errored"}
  BY DEF TypeOK, AgentWork, AgentFault, PostStatement, CheckPayment, CommitPayment,
   RunCommand, PrintReceipt, RunBackup, RefuseUnknown, RunMirror, ReportApplied, ReportFailed,
   StageUpdate, BreakOff, StatementFails, PaymentFails, PrintFails, UpdateFails, ReportLost,
   ReportIgnored, Dies, NextChange
<1>3. step' \in 0..3
  <2>1. CASE PostStatement
    <3>1. step + 1 \in 0..3
      BY DEF QueueInv, HandInv, Statements, TypeOK
    <3>2. QED
      BY <2>1, <3>1 DEF PostStatement, TypeOK
  <2>2. CASE ~PostStatement
    BY <2>2 DEF TypeOK, AgentWork, AgentFault, CheckPayment, CommitPayment,
     RunCommand, PrintReceipt, RunBackup, RefuseUnknown, RunMirror, ReportApplied,
     ReportFailed, StageUpdate, BreakOff, StatementFails, PaymentFails, PrintFails, UpdateFails,
     ReportLost, ReportIgnored, Dies
  <2>3. QED
    BY <2>1, <2>2
<1>4. {paid', read'} \subseteq Nat
  <2>1. queue[Current].amount \in Nat
    <3>1. queue[Current].amount \in Amount \cup {0}
      BY <1>1 DEF Change
    <3>2. \A n \in Amount \cup {0} : n \in Nat
      BY QueueConstantsOK
    <3>3. QED
      BY <3>1, <3>2, Zenon
  <2>2. CASE CheckPayment \/ CommitPayment \/ PaymentFails
    BY <2>1, <2>2 DEF TypeOK, CheckPayment, CommitPayment, PaymentFails, Pay, shopVars
  <2>3. CASE ~(CheckPayment \/ CommitPayment \/ PaymentFails)
    <3>1. CASE AgentWork
      <4>1. UNCHANGED paid /\ UNCHANGED read
        BY <2>3, <3>1 DEF AgentWork, PostStatement, shopVars, RunCommand, PrintReceipt,
         RunBackup, RefuseUnknown, RunMirror, ReportApplied, ReportFailed, StageUpdate, BreakOff
      <4>2. QED
        BY <4>1 DEF TypeOK
    <3>2. CASE AgentFault
      <4>1. paid' = paid /\ read' \in {read, 0}
        BY <2>3, <3>2 DEF AgentFault, shopVars, StatementFails, PrintFails, UpdateFails,
         ReportLost, ReportIgnored, Dies
      <4>2. QED
        BY <4>1 DEF TypeOK
    <3>3. QED
      BY <3>1, <3>2
  <2>4. QED
    BY <2>2, <2>3
<1>5. build' \in 0..MaxRelease
  BY QueueConstantsOK DEF TypeOK, AgentWork, AgentFault, PostStatement, CheckPayment,
   CommitPayment, RunCommand, PrintReceipt, RunBackup, RefuseUnknown, RunMirror, ReportApplied,
   ReportFailed, StageUpdate, BreakOff, StatementFails, PaymentFails, PrintFails, UpdateFails,
   ReportLost, ReportIgnored, Dies
<1>6. faults' \in 0..MaxFault
  BY QueueConstantsOK DEF TypeOK, AgentWork, AgentFault, PostStatement, CheckPayment, Fault,
   CommitPayment, RunCommand, PrintReceipt, RunBackup, RefuseUnknown, RunMirror, ReportApplied,
   ReportFailed, StageUpdate, BreakOff, StatementFails, PaymentFails, PrintFails, UpdateFails,
   ReportLost, ReportIgnored, Dies
<1>7. QED
  BY <1>2, <1>3, <1>4, <1>5, <1>6, WorkRows, WorkBooks, RowsType DEF TypeOK, BooksKept

LEMMA TypeNext ==
  ASSUME TypeOK, QueueInv, Next
  PROVE  TypeOK' /\ RowsKept
BY WebType, WorkType, WorkRows DEF Next, AgentStep, AgentWork

LEMMA NextBooks ==
  ASSUME TypeOK, QueueInv, Next
  PROVE  BooksKept
<1>1. CASE \/ \E k \in Kinds : QueueChange(k)
           \/ Release
           \/ \E m \in late : LateMark(m)
           \/ Fetch
  BY <1>1, BooksSame DEF QueueChange, Release, LateMark, Fetch, shopVars
<1>2. QED
  BY <1>1, WorkBooks DEF Next, AgentStep, AgentWork

-----------------------------------------------------------------------------
(* What is in hand, and what late reports say.                             *)

LEMMA SameHand ==
  ASSUME TypeOK, RowsKept, todo # {}, todo' = todo
  PROVE  /\ Current' = Current /\ Kind' = Kind /\ Statements' = Statements
         /\ queue'[Current].amount = queue[Current].amount
<1>1. Current' = Current
  BY DEF Current
<1>2. Current \in 1..Len(queue)
  BY CurrentFetched
<1>3. Kind' = Kind /\ queue'[Current].amount = queue[Current].amount
  BY <1>1, <1>2 DEF Kind, RowsKept
<1>4. QED
  BY <1>1, <1>3 DEF Statements

LEMMA HandWeb ==
  ASSUME TypeOK, QueueInv, RowsKept, UNCHANGED <<pc, todo, step, shopVars>>
  PROVE  HandInv'
<1>1. HandInv
  BY DEF QueueInv
<1>2. CASE todo = {}
  BY <1>1, <1>2 DEF HandInv
<1>3. CASE todo # {}
  BY <1>1, <1>3, SameHand DEF HandInv, shopVars
<1>4. QED
  BY <1>2, <1>3

\* A change that was posted, or had no posting to make, has landed.
LEMMA HandLands ==
  ASSUME TypeOK, RowsKept, todo # {}, todo' = todo, step' = 0,
         pc' = "landed", Kind \in Posted => whole'[Current] >= 1
  PROVE  HandInv'
BY SameHand DEF HandInv

LEMMA HandErrs ==
  ASSUME todo # {}, todo' = todo, step' = 0, pc' = "errored"
  PROVE  HandInv'
BY DEF HandInv

LEMMA HandLeaves ==
  ASSUME step' = 0, pc' = IF todo' = {} THEN "idle" ELSE "working"
  PROVE  HandInv'
BY DEF HandInv

LEMMA HandWork ==
  ASSUME TypeOK, QueueInv, AgentWork \/ AgentFault
  PROVE  HandInv'
<1>1. todo # {} /\ RowsKept /\ HandInv /\ Current \in 1..MaxChange
  BY WorkingHasChange, WorkRows, CurrentFetched DEF QueueInv
<1>2. Kind = "document" => Statements = 3
  BY DEF Statements
<1>3. pc # "working" \/ Kind # "document" => step = 0
  BY <1>1 DEF HandInv
<1>4. whole \in [1..MaxChange -> Nat] /\ step \in Nat
  BY DEF TypeOK
<1>5. CASE PostStatement
  <2>1. CASE step + 1 = Statements
    <3>1. whole'[Current] >= 1
      <4>1. whole' = [whole EXCEPT ![Current] = @ + 1]
        BY <1>5, <2>1 DEF PostStatement
      <4>2. QED
        BY <1>1, <1>4, <4>1
    <3>2. QED
      BY <1>1, <1>5, <2>1, <3>1, HandLands DEF PostStatement
  <2>2. CASE step + 1 # Statements
    <3>1. todo' = todo /\ pc' = "working" /\ step' = step + 1 /\ Kind \in Documents
      BY <1>5, <2>2 DEF PostStatement, Working
    <3>2. Kind = "document" /\ step + 1 < Statements
      BY <1>1, <1>2, <1>3, <1>4, <2>2, <3>1 DEF HandInv, Statements, Documents
    <3>3. QED
      BY <1>1, <3>1, <3>2, SameHand DEF HandInv
  <2>3. QED
    BY <2>1, <2>2
<1>6. CASE CheckPayment
  <2>1. todo' = todo /\ Kind = "payment" /\ step' = 0
    BY <1>3, <1>6 DEF CheckPayment, Working
  <2>2. CASE paid + queue[Current].amount > Bill + Slack
    BY <1>1, <1>6, <2>1, <2>2, HandErrs DEF CheckPayment
  <2>3. CASE ~(paid + queue[Current].amount > Bill + Slack)
    <3>1. pc' = "paying" /\ paid' = paid
      BY <1>6, <2>3 DEF CheckPayment, shopVars
    <3>2. paid + queue[Current].amount <= Bill + Slack
      <4>1. queue[Current].amount \in Amount \cup {0}
        BY <1>1, CurrentFetched DEF Change
      <4>2. \A n \in Amount \cup {0} : n \in Nat
        BY QueueConstantsOK
      <4>3. queue[Current].amount \in Nat
        BY <4>1, <4>2, Zenon
      <4>4. paid \in Nat /\ Bill + Slack \in Nat
        BY QueueConstantsOK DEF TypeOK
      <4>5. QED
        BY <2>3, <4>3, <4>4
    <3>3. QED
      BY <1>1, <2>1, <3>1, <3>2, SameHand DEF HandInv
  <2>4. QED
    BY <2>2, <2>3
<1>7. CASE CommitPayment
  <2>1. whole'[Current] >= 1
    BY <1>1, <1>4, <1>7 DEF CommitPayment, Pay
  <2>2. step' = 0
    BY <1>3, <1>7 DEF CommitPayment
  <2>3. QED
    BY <1>1, <1>7, <2>1, <2>2, HandLands DEF CommitPayment
<1>8. CASE \/ RunCommand \/ PrintReceipt \/ RunBackup \/ RefuseUnknown \/ RunMirror
           \/ StageUpdate \/ PrintFails
  <2>1. Kind \notin Posted
    BY <1>8 DEF RunCommand, PrintReceipt, RunBackup, RefuseUnknown, RunMirror, StageUpdate,
       PrintFails, Working, Posted, Documents
  <2>2. step' = step /\ todo' = todo /\ pc' \in {"landed", "errored"}
    BY <1>8 DEF RunCommand, PrintReceipt, RunBackup, RefuseUnknown, RunMirror, StageUpdate,
       PrintFails
  <2>3. step' = 0
    BY <1>3, <2>1, <2>2 DEF Posted, Documents
  <2>4. QED
    BY <1>1, <2>1, <2>2, <2>3, HandLands, HandErrs
<1>9. CASE StatementFails \/ PaymentFails
  <2>1. step' = 0 /\ todo' = todo /\ pc' = "errored"
    BY <1>3, <1>9 DEF StatementFails, PaymentFails
  <2>2. QED
    BY <1>1, <2>1, HandErrs
<1>10. CASE UpdateFails
  <2>1. step' = 0 /\ Kind = "update"
    BY <1>3, <1>10 DEF UpdateFails, Working
  <2>2. QED
    BY <1>1, <1>10, <2>1, HandLands, HandLeaves DEF UpdateFails, Posted, Documents
<1>11. CASE BreakOff \/ Dies
  <2>1. step' = 0 /\ todo' = {} /\ pc' = "idle"
    BY <1>3, <1>11 DEF BreakOff, Dies, Working
  <2>2. QED
    BY <2>1, HandLeaves
<1>12. CASE ReportApplied \/ ReportFailed \/ ReportIgnored
  <2>1. step' = step /\ NextChange /\ pc \in {"landed", "errored"}
    BY <1>12 DEF ReportApplied, ReportFailed, ReportIgnored
  <2>2. step' = 0
    BY <1>3, <2>1
  <2>3. QED
    BY <2>1, <2>2, HandLeaves DEF NextChange
<1>13. CASE ReportLost
  <2>1. step' = step /\ pc \in {"landed", "errored"}
    BY <1>13 DEF ReportLost
  <2>2. step' = 0
    BY <1>3, <2>1
  <2>3. CASE pc = "landed"
    BY <1>1, <1>13, <2>2, <2>3, HandErrs DEF ReportLost
  <2>4. CASE pc # "landed"
    BY <1>13, <2>2, <2>4, HandLeaves DEF ReportLost
  <2>5. QED
    BY <2>3, <2>4
<1>14. QED
  BY <1>5, <1>6, <1>7, <1>8, <1>9, <1>10, <1>11, <1>12, <1>13 DEF AgentWork, AgentFault

LEMMA HandNext ==
  ASSUME TypeOK, QueueInv, Next
  PROVE  HandInv'
<1>1. RowsKept
  BY TypeNext
<1>2. CASE Fetch
  BY <1>2, HandLeaves DEF Fetch, QueueInv, HandInv
<1>3. CASE \/ \E k \in Kinds : QueueChange(k)
           \/ Release
           \/ \E m \in late : LateMark(m)
  BY <1>1, <1>3, HandWeb DEF QueueChange, Release, LateMark
<1>4. QED
  BY <1>2, <1>3, HandWork DEF Next, AgentStep, AgentWork

\* A copy that is in the books stays there.
LEMMA WholeStays ==
  ASSUME TypeOK, BooksKept, NEW i \in 1..MaxChange, whole[i] >= 1
  PROVE  whole'[i] >= 1
<1>1. whole[i] \in Nat /\ whole'[i] \in Nat /\ whole[i] <= whole'[i]
  BY DEF TypeOK, BooksKept
<1>2. QED
  BY <1>1

LEMMA LateNext ==
  ASSUME TypeOK, QueueInv, Next
  PROVE  LateInv'
<1>1. RowsKept /\ BooksKept /\ LateInv /\ HandInv
  BY TypeNext, NextBooks DEF QueueInv
<1>2. ASSUME NEW m \in late
      PROVE  /\ m.change <= Len(queue')
             /\ m.status = "applied" /\ queue'[m.change].kind \in Posted => whole'[m.change] >= 1
  <2>1. m.change \in 1..MaxChange /\ m.change \in 1..Len(queue) /\ Len(queue) \in Nat
    BY <1>1 DEF TypeOK, Mark, LateInv
  <2>2. m.change <= Len(queue') /\ queue'[m.change].kind = queue[m.change].kind
    BY <1>1, <2>1 DEF RowsKept
  <2>3. QED
    BY <1>1, <2>1, <2>2, WholeStays DEF LateInv
<1>3. CASE ReportLost
  <2>1. Current \in 1..MaxChange /\ Current \in 1..Len(queue) /\ Len(queue) \in Nat
    BY <1>3, WorkingHasChange, CurrentFetched DEF AgentFault
  <2>2. Current <= Len(queue') /\ queue'[Current].kind = Kind
    BY <1>1, <2>1 DEF RowsKept, Kind
  <2>3. pc = "landed" /\ Kind \in Posted => whole'[Current] >= 1
    BY <1>1, <2>1, WholeStays DEF HandInv
  <2>4. \A m \in late' : m \notin late =>
          m.change = Current /\ (m.status = "applied" => pc = "landed")
    BY <1>3 DEF ReportLost, webVars
  <2>5. QED
    BY <1>2, <2>2, <2>3, <2>4 DEF LateInv
<1>4. CASE ~ReportLost
  <2>1. late' \subseteq late
    BY <1>4 DEF Next, AgentStep, AgentFault, QueueChange, Release, LateMark, Fetch, PostStatement,
     CheckPayment, CommitPayment, RunCommand, PrintReceipt, RunBackup, RefuseUnknown, RunMirror,
     ReportApplied, ReportFailed, StageUpdate, BreakOff, StatementFails, PaymentFails, PrintFails,
     UpdateFails, ReportIgnored, Dies, webVars
  <2>2. QED
    BY <1>2, <2>1 DEF LateInv
<1>5. QED
  BY <1>3, <1>4

LEMMA RowsNext ==
  ASSUME TypeOK, QueueInv, Next
  PROVE  NoRowNoCopy'
<1>1. RowsKept /\ BooksKept /\ NoRowNoCopy
  BY TypeNext, NextBooks DEF QueueInv
<1>2. ASSUME NEW i \in 1..MaxChange, i > Len(queue')
      PROVE  whole'[i] + part'[i] = 0
  <2>1. Len(queue) \in Nat /\ Len(queue') \in Nat /\ Len(queue) <= Len(queue')
    BY <1>1 DEF TypeOK, RowsKept
  <2>2. i > Len(queue) /\ whole[i] + part[i] = 0
    BY <1>1, <1>2, <2>1 DEF NoRowNoCopy, Copies
  <2>3. todo = {} \/ i # Current
    BY <2>1, <2>2, CurrentFetched
  <2>4. QED
    BY <1>1, <2>2, <2>3 DEF BooksKept
<1>3. QED
  BY <1>2 DEF NoRowNoCopy, Copies

\* A step reports one change applied at most: the one that has landed, or the one a
\* late report is about.
LEMMA NewlyApplied ==
  ASSUME TypeOK, QueueInv, Next, NEW i \in 1..Len(queue'), queue'[i].status = "applied"
  PROVE  /\ i \in 1..Len(queue)
         /\ \/ queue[i].status = "applied"
            \/ todo # {} /\ i = Current /\ pc = "landed"
            \/ \E m \in late : m.change = i /\ m.status = "applied"
<1>1. queue \in Seq(Change) /\ Len(queue) \in Nat
  BY DEF TypeOK
<1>2. CASE queue' = queue
  BY <1>2
<1>3. ASSUME NEW k \in AllKinds, NEW n \in Amount \cup {0}, Len(queue) < MaxChange,
             queue' = Append(queue, NewChange(k, n))
      PROVE  i \in 1..Len(queue) /\ queue[i].status = "applied"
  <2>1. /\ Len(queue') = Len(queue) + 1 /\ \A j \in 1..Len(queue) : queue'[j] = queue[j]
        /\ queue'[Len(queue) + 1].status = "pending"
    BY <1>3, AppendKeeps DEF NewChange
  <2>2. i # Len(queue) + 1
    BY <2>1
  <2>3. i \in 1..Len(queue)
    BY <1>1, <2>1, <2>2
  <2>4. QED
    BY <2>1, <2>3
<1>4. ASSUME NEW s \in {"applied", "failed"}, todo # {}, Report(s),
             s = "applied" => pc = "landed"
      PROVE  /\ i \in 1..Len(queue)
             /\ queue[i].status = "applied" \/ (i = Current /\ pc = "landed")
  BY <1>4, ReportKeeps
<1>5. ASSUME NEW k \in Kinds, QueueChange(k)
      PROVE  i \in 1..Len(queue) /\ queue[i].status = "applied"
  BY <1>3, <1>5, QueueConstantsOK DEF QueueChange
<1>6. ASSUME NEW m \in late, LateMark(m)
      PROVE  /\ i \in 1..Len(queue)
             /\ queue[i].status = "applied" \/ (m.change = i /\ m.status = "applied")
  <2>1. m.change \in 1..Len(queue) /\ m.status \in {"applied", "failed"}
    BY DEF TypeOK, Mark, QueueInv, LateInv
  <2>2. QED
    BY <1>6, <2>1, StatusKeeps DEF LateMark
<1>7. CASE ReportApplied \/ ReportFailed \/ ReportLost
  <2>1. todo # {}
    BY <1>7, WorkingHasChange DEF AgentWork, AgentFault
  <2>2. \/ queue' = queue
        \/ \E s \in {"applied", "failed"} : Report(s) /\ (s = "applied" => pc = "landed")
    BY <1>7 DEF ReportApplied, ReportFailed, ReportLost, webVars
  <2>3. QED
    BY <1>2, <1>4, <2>1, <2>2
<1>8. CASE RunMirror
  <2>1. "mirror" \in AllKinds
    BY DEF AllKinds
  <2>2. QED
    BY <1>2, <1>3, <1>8, <2>1 DEF RunMirror
<1>9. CASE Release \/ (AgentStep /\ ~RunMirror /\ ~ReportApplied /\ ~ReportFailed)
           \/ (AgentFault /\ ~ReportLost)
  <2>1. queue' = queue
    BY <1>9 DEF AgentStep, AgentFault, Release, Fetch, PostStatement,
     CheckPayment, CommitPayment, RunCommand, PrintReceipt, RunBackup, RefuseUnknown,
     StageUpdate, BreakOff, StatementFails, PaymentFails, PrintFails,
     UpdateFails, ReportIgnored, Dies, webVars
  <2>2. QED
    BY <1>2, <2>1
<1>10. QED
  BY <1>5, <1>6, <1>7, <1>8, <1>9 DEF Next

LEMMA AppliedNext ==
  ASSUME TypeOK, QueueInv, Next
  PROVE  AppliedIsWhole'
<1>1. RowsKept /\ BooksKept /\ AppliedIsWhole /\ HandInv /\ LateInv
  BY TypeNext, NextBooks DEF QueueInv
<1>2. ASSUME NEW i \in 1..Len(queue'), queue'[i].kind \in Posted, queue'[i].status = "applied"
      PROVE  whole'[i] >= 1
  <2>1. i \in 1..Len(queue) /\ i \in 1..MaxChange /\ queue[i].kind \in Posted
    <3>1. i \in 1..Len(queue) /\ Len(queue) \in Nat /\ Len(queue) <= MaxChange /\ MaxChange \in Nat
      <4>1. i \in 1..Len(queue)
        BY <1>2, NewlyApplied
      <4>2. QED
        BY <4>1, QueueConstantsOK DEF TypeOK
    <3>2. QED
      BY <1>1, <1>2, <3>1 DEF RowsKept
  <2>2. CASE queue[i].status = "applied"
    BY <1>1, <2>1, <2>2, WholeStays DEF AppliedIsWhole
  <2>3. CASE i = Current /\ pc = "landed"
    BY <1>1, <2>1, <2>3, WholeStays DEF HandInv, Kind
  <2>4. ASSUME NEW m \in late, m.change = i, m.status = "applied"
        PROVE  whole'[i] >= 1
    BY <1>1, <2>1, <2>4, WholeStays DEF LateInv
  <2>5. QED
    BY <1>2, <2>2, <2>3, <2>4, NewlyApplied
<1>3. QED
  BY <1>2 DEF AppliedIsWhole

LEMMA PaidNext ==
  ASSUME TypeOK, QueueInv, Next
  PROVE  NeverOverpaid'
<1>1. CASE CommitPayment \/ PaymentFails
  <2>1. paid' = paid \/ paid' = paid + queue[Current].amount
    BY <1>1 DEF CommitPayment, PaymentFails, Pay
  <2>2. paid + queue[Current].amount <= Bill + Slack
    BY <1>1 DEF CommitPayment, PaymentFails, QueueInv, HandInv
  <2>3. QED
    BY <2>1, <2>2 DEF NeverOverpaid, QueueInv
<1>2. CASE ~CommitPayment /\ ~PaymentFails
  <2>1. paid' = paid
    BY <1>2 DEF Next, AgentStep, AgentFault, QueueChange, Release, LateMark, Fetch, PostStatement,
     CheckPayment, RunCommand, PrintReceipt, RunBackup, RefuseUnknown, RunMirror,
     ReportApplied, ReportFailed, StageUpdate, BreakOff, StatementFails, PrintFails,
     UpdateFails, ReportLost, ReportIgnored, Dies, shopVars
  <2>2. QED
    BY <2>1 DEF NeverOverpaid, QueueInv
<1>3. QED
  BY <1>1, <1>2

-----------------------------------------------------------------------------
(* Copies and faults.  ChargedCopies is a set of pairs of a change and the *)
(* number of one of its copies: a step without a fault adds none, a fault  *)
(* one at most.                                                            *)

LEMMA CoverKeeps ==
  ASSUME TypeOK, FaultsCover, faults' \in Nat, faults <= faults',
         \A i \in 1..MaxChange : Charged(i)' \subseteq Charged(i)
  PROVE  FaultsCover'
<1>1. IsFiniteSet(ChargedCopies) /\ Cardinality(ChargedCopies) <= faults
  BY DEF FaultsCover
<1>2. ChargedCopies' \subseteq ChargedCopies
  BY DEF ChargedCopies
<1>3. /\ IsFiniteSet(ChargedCopies') /\ Cardinality(ChargedCopies') <= Cardinality(ChargedCopies)
      /\ Cardinality(ChargedCopies') \in Nat /\ Cardinality(ChargedCopies) \in Nat
  BY <1>1, <1>2, FS_Subset, FS_CardinalityType
<1>4. faults \in Nat
  BY QueueConstantsOK DEF TypeOK
<1>5. QED
  BY <1>1, <1>3, <1>4 DEF FaultsCover

LEMMA CoverGrows ==
  ASSUME TypeOK, FaultsCover, faults' = faults + 1, NEW c \in 1..MaxChange, NEW n,
         Charged(c)' \subseteq Charged(c) \cup {n},
         \A i \in 1..MaxChange : i # c => Charged(i)' \subseteq Charged(i)
  PROVE  FaultsCover'
<1> DEFINE S == ChargedCopies \cup {<<c, n>>}
<1>1. IsFiniteSet(ChargedCopies) /\ Cardinality(ChargedCopies) <= faults
  BY DEF FaultsCover
<1>2. ChargedCopies' \subseteq S
  BY DEF ChargedCopies
<1>3. /\ IsFiniteSet(S) /\ Cardinality(ChargedCopies) \in Nat
      /\ Cardinality(S) = Cardinality(ChargedCopies) \/ Cardinality(S) = Cardinality(ChargedCopies) + 1
  BY <1>1, FS_AddElement, FS_CardinalityType
<1> HIDE DEF S
<1>4. /\ IsFiniteSet(ChargedCopies') /\ Cardinality(ChargedCopies') <= Cardinality(S)
      /\ Cardinality(ChargedCopies') \in Nat /\ Cardinality(S) \in Nat
  BY <1>2, <1>3, FS_Subset, FS_CardinalityType
<1>5. faults \in Nat
  BY QueueConstantsOK DEF TypeOK
<1>6. QED
  BY <1>1, <1>3, <1>4, <1>5 DEF FaultsCover

\* No copy is added, and the change is not to be worked again unless it was before.
LEMMA ChargedSame ==
  ASSUME TypeOK, NEW i \in 1..MaxChange, Copies(i)' = Copies(i), AgainToDo(i)' => AgainToDo(i)
  PROVE  Charged(i)' \subseteq Charged(i)
BY DEF Charged

\* A copy is added of a change that was to be worked, and now has been.
LEMMA ChargedWorked ==
  ASSUME TypeOK, NEW i \in 1..MaxChange, Copies(i) \in Nat, Copies(i)' = Copies(i) + 1, AgainToDo(i),
         ~AgainToDo(i)'
  PROVE  Charged(i)' \subseteq Charged(i)
BY DEF Charged

\* A copy too many, or one of a change that will be worked again.
LEMMA ChargedFault ==
  ASSUME TypeOK, NEW i \in 1..MaxChange, Copies(i) \in Nat,
         \/ Copies(i)' = Copies(i)
         \/ Copies(i)' = Copies(i) + 1 /\ AgainToDo(i)
  PROVE  Charged(i)' \subseteq Charged(i) \cup {Copies(i)'}
BY DEF Charged

LEMMA ChargedTwice ==
  ASSUME TypeOK, NEW i \in 1..MaxChange, Copies(i) \in Nat, Copies(i)' = Copies(i) + 2, AgainToDo(i),
         ~AgainToDo(i)'
  PROVE  Charged(i)' \subseteq Charged(i) \cup {Copies(i) + 1}
BY DEF Charged

\* A change other than the one in hand is to be worked again only if it was before,
\* and its copies are what they were.
LEMMA OthersSame ==
  ASSUME TypeOK, QueueInv, Next, NEW i \in 1..MaxChange, i # Current \/ todo = {}
  PROVE  Charged(i)' \subseteq Charged(i)
<1>1. RowsKept /\ BooksKept /\ NoRowNoCopy
  BY TypeNext, NextBooks DEF QueueInv
<1>2. Copies(i)' = Copies(i)
  BY <1>1 DEF BooksKept, Copies
<1>3. Len(queue) \in Nat /\ Len(queue') \in Nat
  BY <1>1 DEF TypeOK, RowsKept
<1>4. CASE i > Len(queue)
  BY <1>1, <1>2, <1>4 DEF NoRowNoCopy, Charged
<1>5. CASE i \in 1..Len(queue)
  <2>1. i \in Pending' => i \in Pending
    BY <1>1, <1>5 DEF RowsKept, Pending
  <2>2. i \in todo' => i \in Pending \/ i \in todo
    <3>1. CASE AgentWork \/ AgentFault
      BY <3>1, WorkRows
    <3>2. CASE Fetch
      BY <3>2 DEF Fetch, Oldest
    <3>3. CASE (\E k \in Kinds : QueueChange(k)) \/ Release \/ (\E m \in late : LateMark(m))
      BY <3>3 DEF QueueChange, Release, LateMark
    <3>4. QED
      BY <3>1, <3>2, <3>3 DEF Next, AgentStep, AgentWork
  <2>3. ~InHand(i)
    BY DEF InHand
  <2>4. AgainToDo(i)' => AgainToDo(i)
    BY <2>1, <2>2, <2>3 DEF AgainToDo
  <2>5. QED
    BY <1>2, <2>4, ChargedSame
<1>6. QED
  BY <1>3, <1>4, <1>5

\* What has landed, or failed, is in hand and not to be worked again for now.
LEMMA HeldNotAgain ==
  ASSUME NEW c \in 1..MaxChange, c = Current, c \in todo, todo' = todo, pc' \in {"landed", "errored"}
  PROVE  ~AgainToDo(c)'
<1>1. Current' = Current
  BY DEF Current
<1>2. QED
  BY <1>1 DEF AgainToDo, InHand

LEMMA CoverSame ==
  ASSUME TypeOK, QueueInv, Next, faults' = faults \/ faults' = faults + 1,
         NEW c \in 1..MaxChange, c = Current, Charged(c)' \subseteq Charged(c)
  PROVE  FaultsCover'
<1>1. FaultsCover /\ faults \in Nat /\ faults' \in Nat /\ faults <= faults'
  BY TypeNext, QueueConstantsOK DEF QueueInv, TypeOK
<1>2. \A i \in 1..MaxChange : Charged(i)' \subseteq Charged(i)
  BY OthersSame
<1>3. QED
  BY <1>1, <1>2, CoverKeeps

LEMMA CoverFault ==
  ASSUME TypeOK, QueueInv, Next, faults' = faults + 1,
         NEW c \in 1..MaxChange, c = Current, NEW n, Charged(c)' \subseteq Charged(c) \cup {n}
  PROVE  FaultsCover'
BY OthersSame, CoverGrows DEF QueueInv

LEMMA CoverWeb ==
  ASSUME TypeOK, QueueInv, Next,
         (\E k \in Kinds : QueueChange(k)) \/ Release \/ (\E m \in late : LateMark(m)) \/ Fetch
  PROVE  FaultsCover'
<1>1. faults' = faults /\ RowsKept /\ BooksKept
  BY TypeNext, NextBooks DEF QueueChange, Release, LateMark, Fetch
<1>2. CASE todo = {}
  <2>1. FaultsCover /\ faults \in Nat
    BY QueueConstantsOK DEF QueueInv, TypeOK
  <2>2. \A i \in 1..MaxChange : Charged(i)' \subseteq Charged(i)
    BY <1>2, OthersSame
  <2>3. QED
    BY <1>1, <2>1, <2>2, CoverKeeps
<1>3. CASE todo # {}
  <2>1. PICK c \in 1..MaxChange : c = Current /\ c \in todo /\ c \in 1..Len(queue)
    BY <1>3, CurrentFetched
  <2>2. todo' = todo /\ pc' = pc /\ UNCHANGED <<whole, part>>
    BY <1>3 DEF QueueChange, Release, LateMark, Fetch, shopVars, QueueInv, HandInv
  <2>3. Current' = Current
    BY <2>2 DEF Current
  <2>4. AgainToDo(c)' => AgainToDo(c)
    BY <2>1, <2>2, <2>3 DEF AgainToDo, InHand
  <2>5. QED
    BY <1>1, <2>1, <2>2, <2>4, ChargedSame, CoverSame DEF Copies
<1>4. QED
  BY <1>2, <1>3

LEMMA CopiesAdd ==
  ASSUME TypeOK, NEW c \in 1..MaxChange,
         \/ whole' = [whole EXCEPT ![c] = @ + 1] /\ part' = part
         \/ part' = [part EXCEPT ![c] = @ + 1] /\ whole' = whole
  PROVE  Copies(c)' = Copies(c) + 1
<1>1. whole[c] \in Nat /\ part[c] \in Nat
  BY DEF TypeOK
<1>2. \/ whole'[c] = whole[c] + 1 /\ part'[c] = part[c]
      \/ whole'[c] = whole[c] /\ part'[c] = part[c] + 1
  BY DEF TypeOK
<1>3. QED
  BY <1>1, <1>2 DEF Copies

LEMMA CoverWork ==
  ASSUME TypeOK, QueueInv, Next, AgentWork \/ AgentFault
  PROVE  FaultsCover'
<1>1. todo # {} /\ RowsKept /\ BooksKept /\ HandInv
  BY WorkingHasChange, WorkRows, WorkBooks DEF QueueInv
<1>2. PICK c \in 1..MaxChange : c = Current /\ c \in todo /\ c \in 1..Len(queue)
  BY <1>1, CurrentFetched
<1>3. /\ whole \in [1..MaxChange -> Nat] /\ part \in [1..MaxChange -> Nat]
      /\ Copies(c) \in Nat /\ faults \in Nat
  BY QueueConstantsOK DEF TypeOK, Copies
<1>4. pc \in {"working", "paying"} => AgainToDo(c)
  BY <1>2 DEF AgainToDo, InHand
<1>5. CASE \/ RunCommand \/ RunBackup \/ RefuseUnknown \/ RunMirror \/ StageUpdate
           \/ CheckPayment \/ BreakOff \/ UpdateFails
           \/ PostStatement /\ step + 1 # Statements
  <2>1. pc = "working" /\ UNCHANGED <<whole, part>> /\ (faults' = faults \/ faults' = faults + 1)
    BY <1>5 DEF RunCommand, RunBackup, RefuseUnknown, RunMirror, StageUpdate, CheckPayment,
       BreakOff, UpdateFails, PostStatement, Working, Fault, shopVars
  <2>2. Charged(c)' \subseteq Charged(c)
    BY <1>4, <2>1, ChargedSame DEF Copies
  <2>3. QED
    BY <1>2, <2>1, <2>2, CoverSame
<1>6. CASE \/ PostStatement /\ step + 1 = Statements
           \/ CommitPayment \/ PaymentFails \/ PrintReceipt \/ StatementFails
  <2>1. /\ pc \in {"working", "paying"} /\ pc' \in {"landed", "errored"} /\ todo' = todo
        /\ faults' = faults \/ faults' = faults + 1
    BY <1>6 DEF PostStatement, CommitPayment, PaymentFails, PrintReceipt, StatementFails,
       Working, Fault
  <2>2. Copies(c)' = Copies(c) \/ Copies(c)' = Copies(c) + 1
    <3>1. \/ whole' = [whole EXCEPT ![c] = @ + 1] /\ part' = part
          \/ part' = [part EXCEPT ![c] = @ + 1] /\ whole' = whole
          \/ whole' = whole /\ part' = part
      BY <1>2, <1>6 DEF PostStatement, CommitPayment, PaymentFails, PrintReceipt,
         StatementFails, Pay, Abandon
    <3>2. QED
      BY <3>1, CopiesAdd DEF Copies
  <2>3. ~AgainToDo(c)'
    BY <1>2, <2>1, HeldNotAgain
  <2>4. Charged(c)' \subseteq Charged(c)
    BY <1>3, <1>4, <2>1, <2>2, <2>3, ChargedSame, ChargedWorked
  <2>5. QED
    BY <1>2, <2>1, <2>4, CoverSame
<1>7. CASE PrintFails
  <2>1. PICK copies \in 0..2 : whole' = [whole EXCEPT ![c] = @ + copies]
    BY <1>2, <1>7 DEF PrintFails
  <2>2. /\ Copies(c)' = Copies(c) + copies /\ faults' = faults + 1
        /\ pc = "working" /\ pc' = "landed" /\ todo' = todo
    BY <1>3, <1>7, <2>1 DEF PrintFails, Working, Fault, Copies
  <2>3. AgainToDo(c) /\ ~AgainToDo(c)'
    BY <1>2, <1>4, <2>2, HeldNotAgain
  <2>4. CASE copies = 0 \/ copies = 1
    <3>1. Charged(c)' \subseteq Charged(c)
      BY <1>3, <2>2, <2>3, <2>4, ChargedSame, ChargedWorked
    <3>2. QED
      BY <1>2, <2>2, <3>1, CoverSame
  <2>5. CASE copies = 2
    <3>1. Charged(c)' \subseteq Charged(c) \cup {Copies(c) + 1}
      BY <1>3, <2>2, <2>3, <2>5, ChargedTwice
    <3>2. QED
      BY <1>2, <2>2, <3>1, CoverFault
  <2>6. QED
    BY <2>4, <2>5
<1>8. CASE ReportApplied \/ ReportFailed
  <2>1. PICK s \in {"applied", "failed"} : Report(s)
    BY <1>8 DEF ReportApplied, ReportFailed
  <2>2. queue'[c].status # "pending"
    BY <1>1, <1>2, <2>1, ReportKeeps
  <2>3. c \notin Pending' /\ c \notin todo' /\ faults' = faults /\ UNCHANGED <<whole, part>>
    BY <1>2, <1>8, <2>2 DEF ReportApplied, ReportFailed, NextChange, Pending, shopVars
  <2>4. Charged(c)' \subseteq Charged(c)
    BY <2>3, ChargedSame DEF AgainToDo, Copies
  <2>5. QED
    BY <1>2, <2>3, <2>4, CoverSame
<1>9. CASE ReportLost /\ pc = "landed"
  <2>1. pc' = "errored" /\ todo' = todo /\ faults' = faults + 1 /\ UNCHANGED <<whole, part>>
    BY <1>9 DEF ReportLost, Fault, shopVars
  <2>2. Charged(c)' \subseteq Charged(c)
    BY <1>2, <2>1, ChargedSame, HeldNotAgain DEF Copies
  <2>3. QED
    BY <1>2, <2>1, <2>2, CoverSame
<1>10. CASE ReportIgnored \/ Dies \/ (ReportLost /\ pc # "landed")
  <2>1. faults' = faults + 1
    BY <1>10 DEF ReportIgnored, Dies, ReportLost, Fault
  <2>2. Copies(c)' = Copies(c) \/ (Copies(c)' = Copies(c) + 1 /\ AgainToDo(c))
    <3>1. \/ whole' = whole /\ part' = part
          \/ part' = [part EXCEPT ![c] = @ + 1] /\ whole' = whole /\ step > 0
      BY <1>2, <1>10 DEF ReportIgnored, Dies, ReportLost, shopVars, Abandon
    <3>2. step > 0 => AgainToDo(c)
      BY <1>1, <1>4 DEF HandInv, TypeOK
    <3>3. CASE whole' = whole /\ part' = part
      BY <3>3 DEF Copies
    <3>4. CASE part' = [part EXCEPT ![c] = @ + 1] /\ whole' = whole /\ step > 0
      BY <3>2, <3>4, CopiesAdd
    <3>5. QED
      BY <3>1, <3>3, <3>4
  <2>3. Charged(c)' \subseteq Charged(c) \cup {Copies(c)'}
    BY <1>3, <2>2, ChargedFault
  <2>4. QED
    BY <1>2, <2>1, <2>3, CoverFault
<1>11. QED
  BY <1>5, <1>6, <1>7, <1>8, <1>9, <1>10 DEF AgentWork, AgentFault

LEMMA CoverNext ==
  ASSUME TypeOK, QueueInv, Next
  PROVE  FaultsCover'
BY CoverWeb, CoverWork DEF Next, AgentStep, AgentWork

-----------------------------------------------------------------------------
(* The theorems.                                                           *)

LEMMA InvInit == Init => QueueInv
<1> SUFFICES ASSUME Init
             PROVE  QueueInv
  OBVIOUS
<1>1. /\ HandInv /\ LateInv /\ AppliedIsWhole
  BY EmptySeq DEF Init, HandInv, LateInv, AppliedIsWhole
<1>2. \A i \in 1..MaxChange : Copies(i) = 0
  BY DEF Init, Copies
<1>3. NoRowNoCopy
  BY <1>2 DEF NoRowNoCopy
<1>4. NeverOverpaid
  BY QueueConstantsOK DEF Init, NeverOverpaid
<1>5. ChargedCopies = {}
  <2>1. \A i \in 1..MaxChange : Charged(i) = {}
    BY <1>2 DEF Charged
  <2>2. QED
    BY <2>1 DEF ChargedCopies
<1>6. FaultsCover
  BY <1>5, FS_EmptySet DEF FaultsCover, Init
<1>7. QED
  BY <1>1, <1>3, <1>4, <1>6 DEF QueueInv

LEMMA InvNext ==
  ASSUME TypeOK, QueueInv, [Next]_vars
  PROVE  TypeOK' /\ QueueInv'
<1>1. CASE Next
  BY <1>1, TypeNext, HandNext, LateNext, RowsNext, AppliedNext, PaidNext, CoverNext DEF QueueInv
<1>2. CASE UNCHANGED vars
  BY <1>2 DEF vars, webVars, shopVars, TypeOK, QueueInv, HandInv, LateInv, NoRowNoCopy,
     AppliedIsWhole, NeverOverpaid, FaultsCover, ChargedCopies, Charged, Copies, AgainToDo,
     InHand, Pending, Current, Kind, Statements
<1>3. QED
  BY <1>1, <1>2

LEMMA CoverMeans ==
  ASSUME TypeOK, QueueInv
  PROVE  RepeatsCostFaults
<1>1. IsFiniteSet(ChargedCopies) /\ Cardinality(ChargedCopies) <= faults /\ faults \in Nat
  BY QueueConstantsOK DEF QueueInv, FaultsCover, TypeOK
<1>2. ExtraCopies \subseteq ChargedCopies
  BY DEF ExtraCopies, ChargedCopies, Charged
<1>3. Cardinality(ExtraCopies) <= Cardinality(ChargedCopies)
      /\ Cardinality(ExtraCopies) \in Nat /\ Cardinality(ChargedCopies) \in Nat
  BY <1>1, <1>2, FS_Subset, FS_CardinalityType
<1>4. QED
  BY <1>1, <1>3 DEF RepeatsCostFaults

LEMMA Inductive == Spec => [](TypeOK /\ QueueInv)
BY TypeInit, InvInit, InvNext, PTL DEF Spec

\* Every reachable state of the queue and the agent is well typed.
THEOREM TypeCorrect == Spec => []TypeOK
BY Inductive, PTL

\* What the shop's agent reported applied is in the books whole, whatever reports
\* were lost or came late, and wherever the agent died.
THEOREM AppliedWhole == Spec => []AppliedIsWhole
<1>1. QueueInv => AppliedIsWhole
  BY DEF QueueInv
<1>2. QED
  BY <1>1, Inductive, PTL

\* The payments of one invoice never come to more than the invoice and the slack the
\* check grants, for every bill, every slack and every number of changes and faults.
THEOREM NotOverpaid == Spec => []NeverOverpaid
<1>1. QueueInv => NeverOverpaid
  BY DEF QueueInv
<1>2. QED
  BY <1>1, Inductive, PTL

\* There are no more surplus copies of changes in the books, or on paper, than there
\* were faults.
THEOREM CopiesCostFaults == Spec => []RepeatsCostFaults
BY CoverMeans, Inductive, PTL

-----------------------------------------------------------------------------
(* Type correctness.                                                       *)

LEMMA LoopTypeInit == LoopInit => LoopTypeOK
<1> SUFFICES ASSUME LoopInit
             PROVE  LoopTypeOK
  OBVIOUS
<1>1. 0 \in Version /\ 0 \in 0..MaxMishap
  BY LoopConstantsOK DEF Version
<1>2. NoAgent \in [at : {"none", "run", "old", "sidecar", "fetched", "pusher"},
                   runs : Version, got : Version]
  BY <1>1 DEF NoAgent
<1>3. agent \in [Loop -> [at : {"none", "run", "old", "sidecar", "fetched", "pusher"},
                          runs : Version, got : Version]]
  BY <1>2 DEF LoopInit
<1>4. files \in Version /\ version \in 0..files /\ mishaps \in 0..MaxMishap
  BY <1>1 DEF LoopInit
<1>5. loop \in [Loop -> {"down", "checked", "up"}] /\ running \in [Loop -> BOOLEAN]
  BY DEF LoopInit
<1>6. pusher \in Version \cup {Torn} /\ sidecar \in Version \cup {Torn}
  BY <1>1 DEF LoopInit
<1>7. lock \in Loop \cup {NoLock, Stale, Stranger} /\ unguarded \in BOOLEAN /\ behind \in BOOLEAN
  BY DEF LoopInit
<1>8. QED
  BY <1>3, <1>4, <1>5, <1>6, <1>7 DEF LoopTypeOK

LEMMA LoopTypeNext ==
  ASSUME LoopTypeOK, LoopNext
  PROVE  LoopTypeOK'
<1>b. behind' \in BOOLEAN
  <2>1. \/ behind' = behind \/ behind' = (behind \/ sidecar < files)
        \/ \E l \in Loop : \/ behind' = (behind \/ WritingModules(l))
                          \/ behind' = (behind /\ \E k \in Loop \ {l} : WritingModules(k))
        \/ behind' = (behind \/ \E l \in Loop : WritingModules(l))
        \/ behind' = (behind \/ \E l \in Loop : agent[l].at \in {"sidecar", "fetched"})
    BY DEF LoopNext, PowerCut, Deploy, Restart, Start, WriteLock, LockNotWritten, RunSync, LoopDies, Ends,
           CheckForUpdate, Update, FetchSidecar, WriteSidecar, FetchPusher, WritePusher,
           SidecarFails, AgentDies
  <2>2. QED
    BY <2>1, Zenon DEF LoopTypeOK
<1> USE LoopConstantsOK DEF LoopTypeOK, Version, loopVars, serverVars, diskVars
<1>1. CASE PowerCut
  <2>1. agent' \in [Loop -> [at : {"none", "run", "old", "sidecar", "fetched", "pusher"},
                             runs : Version, got : Version]]
    BY <1>1 DEF PowerCut, NoAgent
  <2>2. /\ loop' \in [Loop -> {"down", "checked", "up"}] /\ running' \in [Loop -> BOOLEAN]
        /\ lock' \in Loop \cup {NoLock, Stale, Stranger}
    BY <1>1 DEF PowerCut
  <2>3. mishaps' \in 0..MaxMishap
    BY <1>1 DEF PowerCut, Mishap
  <2>4. unguarded' = FALSE /\ UNCHANGED <<files, version, pusher, sidecar>>
    BY <1>1 DEF PowerCut
  <2>5. QED
    BY <1>b, <2>1, <2>2, <2>3, <2>4
<1>2. CASE Deploy
  BY <1>b, <1>2 DEF Deploy
<1>3. CASE Restart
  BY <1>3 DEF Restart
<1>4. ASSUME NEW l \in Loop, Start(l) \/ WriteLock(l)
      PROVE  LoopTypeOK'
  BY <1>4 DEF Start, WriteLock
<1>5. ASSUME NEW l \in Loop, RunSync(l)
      PROVE  LoopTypeOK'
  BY <1>5 DEF RunSync
<1>6. ASSUME NEW l \in Loop, LockNotWritten(l)
      PROVE  LoopTypeOK'
  <2>1. loop' \in [Loop -> {"down", "checked", "up"}] /\ unguarded' \in BOOLEAN
    BY <1>6 DEF LockNotWritten
  <2>2. mishaps' \in 0..MaxMishap
    BY <1>6 DEF LockNotWritten, Mishap
  <2>3. UNCHANGED <<lock, running, agent, files, version, pusher, sidecar, behind>>
    BY <1>6 DEF LockNotWritten
  <2>4. QED
    BY <2>1, <2>2, <2>3
<1>7. ASSUME NEW l \in Loop, LoopDies(l)
      PROVE  LoopTypeOK'
  <2>1. lock' \in Loop \cup {NoLock, Stale, Stranger}
    BY <1>7 DEF LoopDies
  <2>2. mishaps' \in 0..MaxMishap
    BY <1>7 DEF LoopDies, Mishap
  <2>3. loop' \in [Loop -> {"down", "checked", "up"}] /\ running' \in [Loop -> BOOLEAN]
    BY <1>7 DEF LoopDies
  <2>4. UNCHANGED <<agent, files, version, pusher, sidecar>>
    BY <1>7 DEF LoopDies
  <2>5. unguarded' \in BOOLEAN
    BY <1>7 DEF LoopDies
  <2>6. files' \in Version /\ version' \in 0..files' /\ pusher' \in Version \cup {Torn}
        /\ sidecar' \in Version \cup {Torn}
    BY <2>4
  <2>7. QED
    BY <1>b, <2>1, <2>2, <2>3, <2>4, <2>5, <2>6
<1>8. ASSUME NEW l \in Loop, Ends(l) \/ AgentDies(l) \/ WritePusher(l)
      PROVE  LoopTypeOK'
  <2>1. Gone(l)
    BY <1>8 DEF Ends, AgentDies, WritePusher
  <2>2. NoAgent \in [at : {"none", "run", "old", "sidecar", "fetched", "pusher"},
                     runs : Version, got : Version]
    BY DEF NoAgent
  <2>3. agent' \in [Loop -> [at : {"none", "run", "old", "sidecar", "fetched", "pusher"},
                             runs : Version, got : Version]]
    BY <2>1, <2>2 DEF Gone
  <2>4. /\ running' \in [Loop -> BOOLEAN]
        /\ loop' \in [Loop -> {"down", "checked", "up"}]
        /\ lock' \in Loop \cup {NoLock, Stale, Stranger}
    BY <2>1 DEF Gone
  <2>5. mishaps' \in 0..MaxMishap /\ unguarded' \in BOOLEAN
    BY <1>8 DEF Ends, AgentDies, WritePusher, Mishap
  <2>6. /\ files' \in Version /\ version' \in 0..files'
        /\ pusher' \in Version \cup {Torn} /\ sidecar' \in Version \cup {Torn}
    BY <1>8 DEF Ends, AgentDies, WritePusher
  <2>7. QED
    BY <1>b, <2>3, <2>4, <2>5, <2>6
<1>9. ASSUME NEW l \in Loop, CheckForUpdate(l) \/ SidecarFails(l)
      PROVE  LoopTypeOK'
  <2>1. agent' \in [Loop -> [at : {"none", "run", "old", "sidecar", "fetched", "pusher"},
                             runs : Version, got : Version]]
    BY <1>9 DEF CheckForUpdate, SidecarFails
  <2>2. mishaps' \in 0..MaxMishap
    BY <1>9 DEF CheckForUpdate, SidecarFails, Mishap
  <2>3. UNCHANGED <<loop, lock, running, files, version, pusher, sidecar, unguarded>>
    BY <1>9 DEF CheckForUpdate, SidecarFails
  <2>4. QED
    BY <1>b, <2>1, <2>2, <2>3
<1>10. ASSUME NEW l \in Loop, FetchSidecar(l) \/ WriteSidecar(l) \/ FetchPusher(l)
      PROVE  LoopTypeOK'
  <2>1. /\ agent' \in [Loop -> [at : {"none", "run", "old", "sidecar", "fetched", "pusher"},
                                runs : Version, got : Version]]
        /\ pusher' \in Version \cup {Torn} /\ sidecar' \in Version \cup {Torn}
    <3>1. agent[l].got \in Version /\ files \in Version
      OBVIOUS
    <3>2. CASE FetchSidecar(l)
      BY <3>1, <3>2 DEF FetchSidecar
    <3>3. CASE WriteSidecar(l)
      BY <3>1, <3>3 DEF WriteSidecar
    <3>4. CASE FetchPusher(l)
      BY <3>1, <3>4 DEF FetchPusher
    <3>5. QED
      BY <1>10, <3>2, <3>3, <3>4
  <2>2. UNCHANGED <<loop, lock, running, files, version, mishaps, unguarded>>
    BY <1>10 DEF FetchSidecar, WriteSidecar, FetchPusher
  <2>3. QED
    BY <1>b, <2>1, <2>2
<1>11. QED
  BY <1>1, <1>2, <1>3, <1>4, <1>5, <1>6, <1>7, <1>8, <1>9, <1>10 DEF LoopNext, Update

\* Every reachable state of the PC is well typed.
THEOREM LoopTypeCorrect == LoopSpec => []LoopTypeOK
<1>1. LoopTypeOK /\ [LoopNext]_machineVars => LoopTypeOK'
  BY LoopTypeNext DEF LoopTypeOK, machineVars, loopVars, serverVars, diskVars
<1>2. QED
  BY <1>1, LoopTypeInit, PTL DEF LoopSpec

-----------------------------------------------------------------------------
(* The loops: which of them run, and which agent has its loop.             *)

LEMMA LoopInvInit == LoopInit => AgentLoopInv
<1> SUFFICES ASSUME LoopInit
             PROVE  AgentLoopInv
  OBVIOUS
<1>1. \A l \in Loop : loop[l] = "down" /\ agent[l] = NoAgent
  BY DEF LoopInit
<1>2. \A l \in Loop : ~Alive(l) /\ agent[l].at = "none" /\ agent[l].runs = 0 /\ agent[l].got = 0
  BY <1>1 DEF Alive, NoAgent
<1>3. LoopInv
  BY <1>1, <1>2 DEF LoopInv
<1>4. DiskInv
  BY <1>2 DEF LoopInit, DiskInv, Modules
<1>5. QED
  BY <1>3, <1>4 DEF AgentLoopInv

\* A loop starts only when no other runs, or the two have started across each other.
LEMMA LoopStarts ==
  ASSUME LoopTypeOK, LoopInv, NEW l \in Loop, Start(l) \/ WriteLock(l) \/ LockNotWritten(l)
  PROVE  LoopInv'
<1>1. CASE Start(l)
  <2>1. \A k \in Loop : Alive(k)' => loop'[k] = "down" \/ (loop'[k] = "up" /\ running'[k])
    BY <1>1 DEF Start, LoopInv, LoopTypeOK, Alive
  <2>2. ~unguarded' => \A k \in Loop : loop[k] # "down" => k = l
    BY <1>1 DEF Start, AlreadyRunning, LoopInv, LoopTypeOK
  <2>3. QED
    BY <1>1, <2>1, <2>2 DEF Start, LoopInv, LoopTypeOK
<1>2. CASE WriteLock(l)
  <2>1. ~unguarded' => \A k \in Loop : loop[k] # "down" => k = l
    BY <1>2 DEF WriteLock, LoopInv
  <2>2. Alive(l) => FALSE
    BY <1>2 DEF WriteLock, LoopInv
  <2>3. \A k \in Loop : Alive(k)' => loop'[k] = "down" \/ (loop'[k] = "up" /\ running'[k])
    BY <1>2, <2>2 DEF WriteLock, LoopInv, LoopTypeOK, Alive
  <2>4. QED
    BY <1>2, <2>1, <2>3 DEF WriteLock, LoopInv, LoopTypeOK
<1>3. CASE LockNotWritten(l)
  <2>1. \A k \in Loop : Alive(k)' => loop'[k] = "down" \/ (loop'[k] = "up" /\ running'[k])
    BY <1>3 DEF LockNotWritten, LoopInv, LoopTypeOK, Alive
  <2>2. QED
    BY <1>3, <2>1 DEF LockNotWritten, LoopInv
<1>4. QED
  BY <1>1, <1>2, <1>3

\* When of two loops that unguarded one is left, it has the field to itself only once it
\* is down too.
LEMMA LoopEnds ==
  ASSUME LoopTypeOK, LoopInv, PowerCut \/ \E l \in Loop : LoopDies(l)
  PROVE  LoopInv'
<1>1. CASE PowerCut
  <2>1. \A k \in Loop : loop'[k] = "down"
    BY <1>1 DEF PowerCut
  <2>2. QED
    BY <2>1 DEF LoopInv
<1>2. ASSUME NEW l \in Loop, LoopDies(l)
      PROVE  LoopInv'
  <2>1. \A k \in Loop : Alive(k)' => loop'[k] = "down" \/ (loop'[k] = "up" /\ running'[k])
    BY <1>2 DEF LoopDies, LoopInv, LoopTypeOK, Alive
  <2>2. ~unguarded' => \A k \in Loop : loop'[k] = "down"
    <3>1. CASE ~unguarded
      <4>1. \A k \in Loop : loop[k] # "down" => k = l
        BY <1>2, <3>1 DEF LoopDies, LoopInv
      <4>2. QED
        BY <1>2, <4>1 DEF LoopDies, LoopTypeOK
    <3>2. CASE unguarded
      <4>1. ~unguarded' => \A k \in Loop \ {l} : loop[k] = "down"
        BY <1>2, <3>2 DEF LoopDies
      <4>2. QED
        BY <1>2, <4>1 DEF LoopDies, LoopTypeOK
    <3>3. QED
      BY <3>1, <3>2
  <2>3. QED
    BY <2>1, <2>2 DEF LoopInv
<1>3. QED
  BY <1>1, <1>2

\* A step of an agent, or of the server, leaves the loops alone.
LEMMA LoopsStay ==
  ASSUME LoopTypeOK, LoopInv, UNCHANGED <<loop, lock, unguarded>>,
         \A k \in Loop : Alive(k)' => \/ Alive(k) /\ running'[k] = running[k]
                                      \/ loop[k] = "up" /\ running'[k]
  PROVE  LoopInv'
BY DEF LoopInv

LEMMA LoopAgent ==
  ASSUME LoopTypeOK, LoopInv, NEW l \in Loop,
         RunSync(l) \/ Ends(l) \/ CheckForUpdate(l) \/ Update(l) \/ SidecarFails(l) \/ AgentDies(l)
  PROVE  LoopInv'
<1>1. UNCHANGED <<loop, lock, unguarded>>
  BY DEF RunSync, Ends, CheckForUpdate, Update, FetchSidecar, WriteSidecar, FetchPusher,
         WritePusher, SidecarFails, AgentDies, Gone, loopVars
<1>2. CASE RunSync(l)
  <2>1. \A k \in Loop : Alive(k)' => \/ Alive(k) /\ running'[k] = running[k]
                                     \/ loop[k] = "up" /\ running'[k]
    BY <1>2 DEF RunSync, LoopTypeOK, Alive
  <2>2. QED
    BY <1>1, <2>1, LoopsStay
<1>3. CASE Ends(l) \/ WritePusher(l) \/ AgentDies(l)
  <2>1. Gone(l)
    BY <1>3 DEF Ends, WritePusher, AgentDies
  <2>2. agent'[l].at = "none" /\ \A k \in Loop : k # l => agent'[k] = agent[k] /\ running'[k] = running[k]
    BY <2>1 DEF Gone, NoAgent, LoopTypeOK
  <2>3. \A k \in Loop : Alive(k)' => \/ Alive(k) /\ running'[k] = running[k]
                                     \/ loop[k] = "up" /\ running'[k]
    BY <2>2 DEF Alive
  <2>4. QED
    BY <1>1, <2>3, LoopsStay
<1>4. CASE CheckForUpdate(l) \/ FetchSidecar(l) \/ WriteSidecar(l) \/ FetchPusher(l) \/ SidecarFails(l)
  <2>1. agent[l].at # "none" /\ running' = running /\ \A k \in Loop : k # l => agent'[k] = agent[k]
    BY <1>4 DEF CheckForUpdate, FetchSidecar, WriteSidecar, FetchPusher, SidecarFails, LoopTypeOK, loopVars
  <2>2. \A k \in Loop : Alive(k)' => \/ Alive(k) /\ running'[k] = running[k]
                                     \/ loop[k] = "up" /\ running'[k]
    BY <2>1 DEF Alive
  <2>3. QED
    BY <1>1, <2>2, LoopsStay
<1>5. QED
  BY <1>2, <1>3, <1>4 DEF Update

-----------------------------------------------------------------------------
(* The disk: what an update, wherever it is cut off, leaves there.         *)

\* Half a file is older than any version.
LEMMA DiskNumbers ==
  ASSUME LoopTypeOK
  PROVE  /\ files \in Nat /\ pusher \in Int /\ sidecar \in Int
         /\ \A l \in Loop : agent[l].runs \in Nat /\ agent[l].got \in Nat
BY LoopConstantsOK DEF LoopTypeOK, Version, Torn

LEMMA DiskRun ==
  ASSUME LoopTypeOK, LoopInv, DiskInv, NEW l \in Loop, RunSync(l)
  PROVE  DiskInv'
<1>1. /\ UNCHANGED <<files, pusher, sidecar, behind>>
      /\ agent'[l].at = "run" /\ agent'[l].runs = pusher /\ agent'[l].got = 0
      /\ \A k \in Loop : k # l => agent'[k] = agent[k]
  BY DEF RunSync, LoopTypeOK, serverVars, diskVars
<1>2. agent[l].at = "none"
  BY DEF RunSync, LoopInv, Alive
<1>3. QED
  BY <1>1, <1>2, DiskNumbers DEF DiskInv, Modules, WritingModules, Alive

LEMMA DiskGone ==
  ASSUME LoopTypeOK, DiskInv, NEW l \in Loop, Ends(l) \/ WritePusher(l) \/ AgentDies(l)
  PROVE  DiskInv'
<1>1. /\ agent'[l].at = "none" /\ agent'[l].runs = 0 /\ agent'[l].got = 0
      /\ \A k \in Loop : k # l => agent'[k] = agent[k]
  BY LoopConstantsOK DEF Ends, WritePusher, AgentDies, Gone, NoAgent, LoopTypeOK
<1>2. UNCHANGED <<files, sidecar>>
  BY DEF Ends, WritePusher, AgentDies, serverVars, diskVars
<1>3. ~behind' => ~behind /\ agent[l].at # "sidecar"
  BY DEF Ends, WritePusher, AgentDies, WritingModules
<1>4. pusher' = pusher \/ (agent[l].at = "pusher" /\ pusher' = agent[l].got)
  BY DEF Ends, WritePusher, AgentDies, diskVars
<1>5. QED
  BY <1>1, <1>2, <1>3, <1>4, DiskNumbers DEF DiskInv, Modules, WritingModules, Alive

\* The modules fetched are as new as anything, once they are written.
LEMMA DiskUpdate ==
  ASSUME LoopTypeOK, DiskInv, NEW l \in Loop,
         CheckForUpdate(l) \/ FetchSidecar(l) \/ SidecarFails(l) \/ WriteSidecar(l) \/ FetchPusher(l)
  PROVE  DiskInv'
<1>1. /\ files' = files /\ agent[l].at # "none"
      /\ \A k \in Loop : k # l => agent'[k] = agent[k]
      /\ agent'[l].runs = agent[l].runs
  BY DEF CheckForUpdate, FetchSidecar, SidecarFails, WriteSidecar, FetchPusher, LoopTypeOK, serverVars
<1>2. CASE CheckForUpdate(l)
  <2>1. /\ UNCHANGED <<pusher, sidecar, behind>> /\ agent[l].at = "run"
        /\ agent'[l].at = "old" /\ agent'[l].got = agent[l].got
    BY <1>2 DEF CheckForUpdate, LoopTypeOK, diskVars
  <2>2. QED
    BY <1>1, <2>1, DiskNumbers DEF DiskInv, Modules, WritingModules, Alive
<1>3. CASE FetchSidecar(l)
  <2>1. /\ pusher' = pusher /\ agent'[l].at = "sidecar" /\ agent'[l].got = files
        /\ ~behind' => ~behind \/ \A k \in Loop : k # l => agent[k].at # "sidecar"
    BY <1>3 DEF FetchSidecar, LoopTypeOK, WritingModules
  <2>2. \A v : Modules(v)'
    BY <2>1 DEF Modules, WritingModules
  <2>3. Modules(pusher)' /\ Modules(files)' /\ \A k \in Loop : Modules(agent[k].runs)' /\ Modules(agent[k].got)'
    BY <2>1 DEF Modules, WritingModules
  <2>4. QED
    BY <1>1, <2>1, <2>3, DiskNumbers DEF DiskInv, Alive
<1>4. CASE SidecarFails(l)
  <2>1. /\ UNCHANGED <<pusher, sidecar>> /\ agent[l].at = "old"
        /\ agent'[l].at = "fetched" /\ agent'[l].got = agent[l].got
        /\ behind' = (behind \/ sidecar < files)
    BY <1>4 DEF SidecarFails, LoopTypeOK, diskVars
  <2>2. CASE behind'
    BY <1>1, <2>1, <2>2, DiskNumbers DEF DiskInv
  <2>3. CASE ~behind'
    <3>1. ~behind /\ ~(sidecar < files)
      BY <2>1, <2>3
    <3>2. sidecar >= files
      BY <3>1, DiskNumbers
    <3>3. QED
      BY <1>1, <2>1, <3>1, <3>2, DiskNumbers DEF DiskInv, Modules, WritingModules, Alive
  <2>4. QED
    BY <2>2, <2>3
<1>5. CASE WriteSidecar(l)
  <2>1. /\ UNCHANGED <<pusher, behind>> /\ agent[l].at = "sidecar" /\ sidecar' = agent[l].got
        /\ agent'[l].at = "fetched" /\ agent'[l].got = agent[l].got
    BY <1>5 DEF WriteSidecar, LoopTypeOK
  <2>2. CASE behind
    BY <1>1, <2>1, <2>2 DEF DiskInv
  <2>3. CASE ~behind
    <3>1. sidecar' = files
      BY <2>1, <2>3 DEF DiskInv
    <3>2. \A k \in Loop : agent'[k].runs <= files /\ agent'[k].got <= files
      BY <1>1, <2>1 DEF DiskInv
    <3>3. QED
      BY <1>1, <2>1, <2>3, <3>1, <3>2, DiskNumbers DEF DiskInv, Modules, WritingModules, Alive
  <2>4. QED
    BY <2>2, <2>3
<1>6. CASE FetchPusher(l)
  <2>1. /\ UNCHANGED <<sidecar, behind>> /\ agent[l].at = "fetched" /\ pusher' = Torn
        /\ agent'[l].at = "pusher" /\ agent'[l].got = files
    BY <1>6 DEF FetchPusher, LoopTypeOK
  <2>2. sidecar >= Torn /\ Torn <= files
    BY DiskNumbers, LoopConstantsOK DEF LoopTypeOK, Version, Torn
  <2>3. QED
    BY <1>1, <2>1, <2>2, DiskNumbers DEF DiskInv, Modules, WritingModules, Alive
<1>7. QED
  BY <1>2, <1>3, <1>4, <1>5, <1>6

LEMMA DiskElse ==
  ASSUME LoopTypeOK, DiskInv,
         \/ PowerCut \/ Deploy \/ Restart
         \/ \E l \in Loop : Start(l) \/ WriteLock(l) \/ LockNotWritten(l) \/ LoopDies(l)
  PROVE  DiskInv'
<1>1. CASE PowerCut
  <2>1. UNCHANGED <<files, pusher, sidecar>> /\ (\A k \in Loop : agent'[k] = NoAgent)
        /\ (~behind' => ~behind /\ \A k \in Loop : ~WritingModules(k))
    BY <1>1 DEF PowerCut, serverVars, diskVars
  <2>2. \A k \in Loop : agent'[k].at = "none" /\ agent'[k].runs = 0 /\ agent'[k].got = 0
    BY <2>1 DEF NoAgent
  <2>3. QED
    BY <2>1, <2>2, DiskNumbers DEF DiskInv, Modules, Alive
<1>2. CASE Deploy
  <2>1. UNCHANGED <<pusher, sidecar, agent>> /\ files' = files + 1
        /\ (~behind' => ~behind /\ \A k \in Loop : agent[k].at \notin {"sidecar", "fetched"})
    BY <1>2 DEF Deploy, diskVars
  <2>2. QED
    BY <2>1, DiskNumbers DEF DiskInv, Modules, WritingModules, Alive
<1>3. CASE Restart \/ \E l \in Loop : Start(l) \/ WriteLock(l) \/ LockNotWritten(l) \/ LoopDies(l)
  <2>1. UNCHANGED <<files, pusher, sidecar, agent, behind>>
    BY <1>3 DEF Restart, Start, WriteLock, LockNotWritten, LoopDies, serverVars, diskVars
  <2>2. QED
    BY <2>1 DEF DiskInv, Modules, WritingModules, Alive
<1>4. QED
  BY <1>1, <1>2, <1>3

LEMMA InvCorrect == LoopSpec => [](LoopTypeOK /\ AgentLoopInv)
<1>1. ASSUME LoopTypeOK, LoopInv, LoopNext
      PROVE  LoopInv'
  <2>1. CASE Deploy \/ Restart
    <3>1. UNCHANGED <<loop, lock, unguarded, agent, running>>
      BY <2>1 DEF Deploy, Restart, loopVars
    <3>2. QED
      BY <1>1, <3>1 DEF LoopInv, Alive
  <2>2. QED
    BY <1>1, <2>1, LoopStarts, LoopEnds, LoopAgent DEF LoopNext
<1>2. ASSUME LoopTypeOK, LoopInv, DiskInv, LoopNext
      PROVE  DiskInv'
  BY <1>2, DiskRun, DiskGone, DiskUpdate, DiskElse DEF LoopNext, Update
<1>3. ASSUME LoopTypeOK, AgentLoopInv, UNCHANGED machineVars
      PROVE  AgentLoopInv'
  BY <1>3 DEF machineVars, loopVars, serverVars, diskVars, AgentLoopInv, LoopInv, DiskInv,
     Modules, WritingModules, Alive
<1>4. LoopTypeOK /\ AgentLoopInv /\ [LoopNext]_machineVars => AgentLoopInv'
  BY <1>1, <1>2, <1>3 DEF AgentLoopInv
<1>5. QED
  BY <1>4, LoopTypeCorrect, LoopInvInit, PTL DEF LoopSpec

-----------------------------------------------------------------------------
(* What the parts add up to.                                               *)

\* loop.js: two agents at once take two loops started across each other, a pid that
\* could not be written, or an agent that has outlived its loop.
THEOREM OneAgentUnlessRaceOrKill == LoopSpec => []TwoAgentsNeedRaceOrKill
<1>1. ASSUME LoopTypeOK, AgentLoopInv
      PROVE  TwoAgentsNeedRaceOrKill
  <2> DEFINE Living == {l \in Loop : Alive(l)}
  <2> SUFFICES ASSUME ~unguarded, \A l \in Loop : Alive(l) => loop[l] # "down"
               PROVE  Cardinality(Living) <= 1
    BY DEF TwoAgentsNeedRaceOrKill
  <2>1. CASE Living = {}
    BY <2>1, FS_EmptySet
  <2>2. CASE Living # {}
    <3>1. PICK l \in Loop : Alive(l)
      BY <2>2
    <3>2. Living = {l}
      BY <1>1, <3>1 DEF AgentLoopInv, LoopInv
    <3>3. Cardinality({l}) = 1
      BY FS_Singleton
    <3>4. QED
      BY <3>2, <3>3
  <2>3. QED
    BY <2>1, <2>2
<1>2. QED
  BY <1>1, InvCorrect, PTL

\* checkForUpdate: the modules on the disk are as new as the agent that runs, wherever
\* an update was cut off, unless they are being written or were left behind.
THEOREM ModulesComeFirst == LoopSpec => []RunsWithItsModules
<1>1. AgentLoopInv => RunsWithItsModules
  BY DEF RunsWithItsModules, AgentLoopInv, DiskInv, Modules
<1>2. QED
  BY <1>1, InvCorrect, PTL
=============================================================================
