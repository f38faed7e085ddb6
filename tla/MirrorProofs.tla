---------------------------- MODULE MirrorProofs ----------------------------
(***************************************************************************)
(* Proofs about Mirror, for every set of runners and requests, every       *)
(* number of days and chunks, and every number of faults.                  *)
(***************************************************************************)
EXTENDS Mirror, FiniteSetTheorems, WellFoundedInduction, TLAPS

Runs  == [at : {"idle", "choosing", "sending", "waiting", "closing"},
          from : 0..LastDay, to : 0..LastDay, day : 0..LastDay + 1,
          table : Table, left : SUBSET (Chunk \cup {0}), ok : BOOLEAN]
Calls == [at : {"free", "received", "deleted"}, table : Table, day : Day,
          rows : SUBSET Chunk, for : Runner \cup {Nobody}]

-----------------------------------------------------------------------------
(* Chunks and rows.                                                        *)

\* Of any chunks there is a least one.
LEMMA LeastChunk ==
  ASSUME NEW S \in SUBSET (Chunk \cup {0}), S # {}
  PROVE  (CHOOSE x \in S : \A y \in S : x <= y) \in S
<1> DEFINE R == {ss \in Nat \X Nat : ss[1] < ss[2]}
<1>1. S \subseteq Nat
  BY MirrorConstantsOK
<1>2. IsWellFoundedOn(R, Nat)
  BY NatLessThanWellFounded DEF OpToRel
<1>3. IsWellFoundedOn(R, S)
  BY <1>1, <1>2, IsWellFoundedOnSubset
<1> HIDE DEF R
<1>4. PICK x \in S : \A y \in S : <<y, x>> \notin R
  BY <1>3, WFMin
<1>5. ASSUME NEW y \in S
      PROVE  x <= y
  <2>1. ~(y < x)
    BY <1>1, <1>4 DEF R
  <2>2. QED
    BY <1>1, <2>1
<1>6. QED
  BY <1>5

LEMMA RowsFacts ==
  ASSUME TypeOK, NEW d \in Day
  PROVE  /\ Rows(d) # {} /\ Rows(d) \subseteq Chunk \cup {0}
         /\ sold[d] \subseteq Rows(d)
         /\ Small(d) => \E k \in Chunk \cup {0} : Rows(d) = {k} /\ {k} \ {0} = sold[d]
<1>1. sold[d] \in SUBSET Chunk /\ 0 \notin Chunk
  BY MirrorConstantsOK DEF TypeOK
<1>2. Rows(d) # {} /\ Rows(d) \subseteq Chunk \cup {0} /\ sold[d] \subseteq Rows(d)
  BY <1>1 DEF Rows
<1>3. ASSUME Small(d)
      PROVE  \E k \in Chunk \cup {0} : Rows(d) = {k} /\ {k} \ {0} = sold[d]
  <2>1. IsFiniteSet(sold[d])
    BY <1>1, MirrorConstantsOK, FS_Subset
  <2>2. Cardinality(sold[d]) \in Nat /\ Cardinality(sold[d]) <= 1
    BY <1>3, <2>1, FS_CardinalityType DEF Small
  <2>3. CASE Cardinality(sold[d]) = 0
    <3>1. sold[d] = {}
      BY <2>1, <2>3, FS_EmptySet
    <3>2. QED
      BY <3>1 DEF Rows
  <2>4. CASE Cardinality(sold[d]) = 1
    <3>1. PICK k : sold[d] = {k}
      BY <2>1, <2>4, FS_Singleton
    <3>2. QED
      BY <1>1, <3>1 DEF Rows
  <2>5. QED
    BY <2>2, <2>3, <2>4
<1>4. QED
  BY <1>2, <1>3

-----------------------------------------------------------------------------
(* How a run goes on.                                                      *)

\* v follows w, which is done with its table, well or not.
After(v, w, ok) ==
  /\ v.from = w.from /\ v.to = w.to /\ v.ok = ok /\ v.table = "dated"
  /\ \/ w.table = "keyed" /\ v.at = "sending" /\ v.left = Rows(w.day) /\ v.day = w.day
     \/ w.table = "dated" /\ ok /\ v.at = "choosing" /\ v.left = {} /\ v.day = w.day + 1
     \/ w.table = "dated" /\ ~ok /\ v.at = "closing" /\ v.left = {} /\ v.day = w.day

\* v has more of the table to send.
Resumed(v, w) ==
  /\ v.from = w.from /\ v.to = w.to /\ v.ok = w.ok /\ v.table = w.table /\ v.day = w.day
  /\ w.left # {} /\ v.left = w.left /\ v.at = "sending"

LEMMA AfterTableFacts ==
  ASSUME TypeOK, NEW w \in Runs, w.day \in Day
  PROVE  AfterTable(w) \in Runs /\ After(AfterTable(w), w, w.ok)
<1>1. w.day + 1 \in 0..LastDay + 1 /\ Rows(w.day) \in SUBSET (Chunk \cup {0})
  BY RowsFacts, MirrorConstantsOK DEF Day
<1>2. w.table \in {"keyed", "dated"} /\ w.ok \in BOOLEAN
  BY DEF Runs, Table
<1>3. CASE w.table = "keyed"
  <2>1. AfterTable(w) = [w EXCEPT !.at = "sending", !.table = "dated", !.left = Rows(w.day)]
    BY <1>3 DEF AfterTable
  <2>2. QED
    BY <1>1, <1>3, <2>1 DEF Runs, After, Table
<1>4. CASE w.table = "dated" /\ w.ok
  <2>1. AfterTable(w) = [w EXCEPT !.at = "choosing", !.day = w.day + 1, !.left = {}]
    BY <1>4 DEF AfterTable
  <2>2. QED
    BY <1>1, <1>4, <2>1 DEF Runs, After, Table
<1>5. CASE w.table = "dated" /\ ~w.ok
  <2>1. AfterTable(w) = [w EXCEPT !.at = "closing", !.left = {}]
    BY <1>5 DEF AfterTable
  <2>2. QED
    BY <1>1, <1>5, <2>1 DEF Runs, After, Table
<1>6. QED
  BY <1>2, <1>3, <1>4, <1>5

LEMMA AnsweredFacts ==
  ASSUME TypeOK, NEW w \in Runs, w.day \in Day
  PROVE  /\ Answered(w) \in Runs
         /\ (w.left = {} /\ After(Answered(w), w, w.ok)) \/ Resumed(Answered(w), w)
<1>1. CASE w.left = {}
  BY <1>1, AfterTableFacts DEF Answered
<1>2. CASE w.left # {}
  <2>1. Answered(w) = [w EXCEPT !.at = "sending"]
    BY <1>2 DEF Answered
  <2>2. QED
    BY <1>2, <2>1 DEF Runs, Resumed
<1>3. QED
  BY <1>1, <1>2

LEMMA RefusedFacts ==
  ASSUME TypeOK, NEW w \in Runs, w.day \in Day
  PROVE  Refused(w) \in Runs /\ After(Refused(w), w, FALSE)
<1> DEFINE u == [w EXCEPT !.ok = FALSE]
<1>1. /\ u \in Runs /\ u.day = w.day /\ u.from = w.from /\ u.to = w.to /\ u.table = w.table
      /\ u.ok = FALSE
  BY DEF Runs
<1>2. Refused(w) = AfterTable(u)
  BY DEF Refused
<1> HIDE DEF u
<1>3. AfterTable(u) \in Runs /\ After(AfterTable(u), u, FALSE)
  BY <1>1, AfterTableFacts
<1>4. QED
  BY <1>1, <1>2, <1>3 DEF After

\* A run that is not asleep is at a day of its plan, or has got to its end.
LEMMA RunFacts ==
  ASSUME TypeOK, RunInv, NEW r \in Runner
  PROVE  /\ run[r] \in Runs
         /\ mark \in Nat /\ today \in Day /\ today \in Nat /\ today <= LastDay /\ mark < today
         /\ run[r].from \in Nat /\ run[r].to \in Nat /\ run[r].day \in Nat
         /\ run[r].at \in {"sending", "waiting"} => run[r].day \in Day /\ run[r].day < today
<1>1. run[r] \in Runs /\ mark \in 0..LastDay /\ today \in Day
  BY DEF TypeOK, Runs
<1>2. run[r].from \in Nat /\ run[r].to \in Nat /\ run[r].day \in Nat
  BY <1>1, MirrorConstantsOK DEF Runs
<1>3. mark \in Nat /\ today \in Nat /\ today <= LastDay /\ mark < today
  BY <1>1, MirrorConstantsOK DEF Day, RunInv
<1>4. ASSUME run[r].at \in {"sending", "waiting"}
      PROVE  run[r].day \in Day /\ run[r].day < today
  <2>1. run[r].from < run[r].day /\ run[r].day <= run[r].to /\ run[r].to < today
    BY <1>4 DEF RunInv
  <2>2. QED
    BY <1>2, <1>3, <2>1, MirrorConstantsOK DEF Day
<1>5. QED
  BY <1>1, <1>2, <1>3, <1>4

\* The request answered is the one its run waits for.
LEMMA AnswerFacts ==
  ASSUME TypeOK, RunInv, CallInv, NEW c \in Call, NEW ok \in BOOLEAN, Answer(c, ok)
  PROVE  /\ run' \in [Runner -> Runs]
         /\ \A r \in Runner : call[c].for # r => run'[r] = run[r]
         /\ \A r \in Runner : call[c].for = r =>
              /\ run[r].at = "waiting" /\ run[r].day = call[c].day /\ run[r].table = call[c].table
              /\ ok => (run[r].left = {} /\ After(run'[r], run[r], run[r].ok)) \/ Resumed(run'[r], run[r])
              /\ ~ok => After(run'[r], run[r], FALSE)
<1>1. run' = [r \in Runner |-> IF call[c].for # r THEN run[r]
                              ELSE IF ok THEN Answered(run[r]) ELSE Refused(run[r])]
  BY DEF Answer
<1>2. ASSUME NEW r \in Runner
      PROVE  run[r] \in Runs
  BY RunFacts
<1>3. ASSUME NEW r \in Runner, call[c].for = r
      PROVE  /\ run'[r] \in Runs
             /\ run[r].at = "waiting" /\ run[r].day = call[c].day /\ run[r].table = call[c].table
             /\ ok => (run[r].left = {} /\ After(run'[r], run[r], run[r].ok)) \/ Resumed(run'[r], run[r])
             /\ ~ok => After(run'[r], run[r], FALSE)
  <2>1. run[r].at = "waiting" /\ run[r].day = call[c].day /\ run[r].table = call[c].table
    BY <1>3 DEF CallInv
  <2>2. run[r].day \in Day
    BY <2>1, RunFacts
  <2>3. run'[r] = IF ok THEN Answered(run[r]) ELSE Refused(run[r])
    BY <1>1, <1>3
  <2>4. CASE ok
    BY <1>2, <2>1, <2>2, <2>3, <2>4, AnsweredFacts
  <2>5. CASE ~ok
    BY <1>2, <2>1, <2>2, <2>3, <2>5, RefusedFacts
  <2>6. QED
    BY <2>4, <2>5
<1>4. QED
  BY <1>1, <1>2, <1>3

LEMMA ChunkFailsFacts ==
  ASSUME TypeOK, RunInv, NEW r \in Runner, ChunkFails(r)
  PROVE  /\ run' \in [Runner -> Runs]
         /\ \A q \in Runner \ {r} : run'[q] = run[q]
         /\ run[r].at \in {"sending", "waiting"} /\ After(run'[r], run[r], FALSE)
<1>1. run[r].at \in {"sending", "waiting"} /\ run' = [run EXCEPT ![r] = Refused(run[r])]
  BY DEF ChunkFails
<1>2. run[r] \in Runs /\ run[r].day \in Day
  BY <1>1, RunFacts
<1>3. Refused(run[r]) \in Runs /\ After(Refused(run[r]), run[r], FALSE)
  BY <1>2, RefusedFacts
<1>4. run \in [Runner -> Runs]
  BY DEF TypeOK, Runs
<1>5. QED
  BY <1>1, <1>3, <1>4

-----------------------------------------------------------------------------
(* Types.                                                                  *)

\* What a runner or a request comes to.
LEMMA RunnerTypes ==
  ASSUME TypeOK, RunInv, CallInv, Next
  PROVE  run' \in [Runner -> Runs] /\ mark' \in 0..LastDay
<1>1. run \in [Runner -> Runs] /\ mark \in 0..LastDay /\ 0 \in 0..LastDay /\ Asleep \in Runs
  BY MirrorConstantsOK DEF TypeOK, Runs, Asleep, Table
<1>2. ASSUME NEW r \in Runner, StartRun(r)
      PROVE  run' \in [Runner -> Runs] /\ mark' \in 0..LastDay
  <2>1. mark < LastDue /\ today \in Nat /\ today <= LastDay /\ mark \in Nat
    BY <1>2, RunFacts DEF StartRun
  <2>2. Least(LastDue, mark + Span) \in 0..LastDay /\ mark + 1 \in 0..LastDay + 1
    BY <2>1, MirrorConstantsOK DEF Least, LastDue
  <2>3. [Asleep EXCEPT !.at = "choosing", !.from = mark,
                       !.to = Least(LastDue, mark + Span), !.day = mark + 1] \in Runs
    BY <1>1, <2>2 DEF Runs, Asleep
  <2>4. QED
    BY <1>1, <1>2, <2>3 DEF StartRun
<1>3. ASSUME NEW r \in Runner, ChooseDay(r)
      PROVE  run' \in [Runner -> Runs] /\ mark' \in 0..LastDay
  <2>1. PICK at \in {"closing", "sending"}, left \in {{}, Rows(run[r].day)} :
          /\ run' = [run EXCEPT ![r].at = at, ![r].table = "keyed", ![r].left = left]
          /\ left # {} => ~Finished(r)
    BY <1>3 DEF ChooseDay
  <2>2. left \in SUBSET (Chunk \cup {0})
    <3>1. ~Finished(r) => run[r].day \in Day
      <4>1. /\ run[r].at = "choosing" /\ run[r].from < run[r].day /\ run[r].to < today
            /\ run[r].from \in Nat /\ run[r].to \in Nat /\ run[r].day \in Nat
            /\ today \in Nat /\ today <= LastDay
        BY <1>3, RunFacts DEF ChooseDay, RunInv
      <4>2. QED
        BY <4>1, MirrorConstantsOK DEF Finished, Day
    <3>2. QED
      BY <2>1, <3>1, RowsFacts
  <2>3. [run[r] EXCEPT !.at = at, !.table = "keyed", !.left = left] \in Runs
    BY <1>1, <2>2 DEF Runs, Table
  <2>4. run' = [run EXCEPT ![r] = [run[r] EXCEPT !.at = at, !.table = "keyed", !.left = left]]
    BY <1>1, <2>1
  <2>5. run' \in [Runner -> Runs]
    BY <1>1, <2>3, <2>4
  <2>6. mark' = mark
    BY <1>3 DEF ChooseDay
  <2>7. QED
    BY <1>1, <2>5, <2>6
<1>4. ASSUME NEW r \in Runner, NEW c \in Call, SendChunk(r, c)
      PROVE  run' \in [Runner -> Runs] /\ mark' \in 0..LastDay
  <2>1. PICK k : run' = [run EXCEPT ![r] = [run[r] EXCEPT !.at = "waiting", !.left = @ \ {k}]]
    BY <1>4 DEF SendChunk
  <2>2. [run[r] EXCEPT !.at = "waiting", !.left = @ \ {k}] \in Runs
    BY <1>1 DEF Runs
  <2>3. QED
    BY <1>1, <1>4, <2>1, <2>2 DEF SendChunk
<1>5. ASSUME NEW r \in Runner, ChunkFails(r)
      PROVE  run' \in [Runner -> Runs] /\ mark' \in 0..LastDay
  BY <1>1, <1>5, ChunkFailsFacts DEF ChunkFails
<1>6. ASSUME NEW r \in Runner, CloseRun(r)
      PROVE  run' \in [Runner -> Runs] /\ mark' \in 0..LastDay
  <2>1. LastGood(r) > run[r].from => LastGood(r) \in 0..LastDay
    <3>1. /\ run[r].day <= run[r].to + 1 /\ run[r].to < today
          /\ run[r].from \in Nat /\ run[r].to \in Nat /\ run[r].day \in Nat
          /\ today \in Nat /\ today <= LastDay
      BY <1>6, RunFacts DEF CloseRun, RunInv
    <3>2. QED
      BY <3>1, MirrorConstantsOK DEF LastGood
  <2>2. QED
    BY <1>1, <1>6, <2>1 DEF CloseRun
<1>7. ASSUME NEW r \in Runner, RunDies(r)
      PROVE  run' \in [Runner -> Runs] /\ mark' \in 0..LastDay
  BY <1>1, <1>7 DEF RunDies
<1>8. ASSUME NEW c \in Call, UpsertKeyed(c) \/ InsertChunk(c) \/ CallDies(c)
      PROVE  run' \in [Runner -> Runs] /\ mark' \in 0..LastDay
  BY <1>1, <1>8, AnswerFacts DEF UpsertKeyed, InsertChunk, CallDies
<1>9. ASSUME UNCHANGED <<run, mark>>
      PROVE  run' \in [Runner -> Runs] /\ mark' \in 0..LastDay
  BY <1>1, <1>9
<1>10. QED
  BY <1>2, <1>3, <1>4, <1>5, <1>6, <1>7, <1>8, <1>9
  DEF Next, RunStep, CallStep, Sell, NextDay, SetPaused, DeleteDate

LEMMA RequestTypes ==
  ASSUME TypeOK, RunInv, CallInv, Next
  PROVE  call' \in [Call -> Calls] /\ exposed' \subseteq Day
<1>1. call \in [Call -> Calls] /\ exposed \subseteq Day /\ FreeCall \in Calls
  BY MirrorConstantsOK DEF TypeOK, Calls, FreeCall, Table, Day
<1>2. ASSUME NEW r \in Runner, NEW c \in Call, SendChunk(r, c)
      PROVE  call' \in [Call -> Calls] /\ exposed' \subseteq Day
  <2> DEFINE k == CHOOSE x \in run[r].left : \A y \in run[r].left : x <= y
  <2>1. run[r].at = "sending" /\ run[r].day \in Day /\ run[r] \in Runs
    BY <1>2, RunFacts DEF SendChunk
  <2>2. k \in Chunk \cup {0}
    <3>1. run[r].left # {} /\ run[r].left \in SUBSET (Chunk \cup {0})
      BY <2>1 DEF RunInv, Runs
    <3>2. QED
      BY <3>1, LeastChunk
  <2>3. /\ call' = [call EXCEPT ![c] = [at |-> "received", table |-> run[r].table, day |-> run[r].day,
                                       rows |-> {k} \ {0}, for |-> r]]
        /\ exposed' \in {exposed, exposed \cup {run[r].day}}
    BY <1>2 DEF SendChunk
  <2> HIDE DEF k
  <2>4. [at |-> "received", table |-> run[r].table, day |-> run[r].day,
         rows |-> {k} \ {0}, for |-> r] \in Calls
    BY <2>1, <2>2 DEF Runs, Calls
  <2>5. call' \in [Call -> Calls]
    BY <1>1, <2>3, <2>4
  <2>6. exposed' \subseteq Day
    BY <1>1, <2>1, <2>3
  <2>7. QED
    BY <2>5, <2>6
<1>3. ASSUME NEW r \in Runner, ChunkFails(r) \/ RunDies(r)
      PROVE  call' \in [Call -> Calls] /\ exposed' \subseteq Day
  <2>1. call' = [c \in Call |-> IF call[c].for = r THEN [call[c] EXCEPT !.for = Nobody] ELSE call[c]]
        /\ exposed' = exposed
    BY <1>3 DEF ChunkFails, RunDies
  <2>2. \A c \in Call : [call[c] EXCEPT !.for = Nobody] \in Calls
    BY <1>1 DEF Calls
  <2>3. QED
    BY <1>1, <2>1, <2>2
<1>4. ASSUME NEW c \in Call, UpsertKeyed(c) \/ InsertChunk(c) \/ CallDies(c)
      PROVE  call' \in [Call -> Calls] /\ exposed' \subseteq Day
  BY <1>1, <1>4 DEF UpsertKeyed, InsertChunk, CallDies
<1>5. ASSUME NEW c \in Call, DeleteDate(c)
      PROVE  call' \in [Call -> Calls] /\ exposed' \subseteq Day
  <2>1. call' = [call EXCEPT ![c] = [call[c] EXCEPT !.at = "deleted"]] /\ exposed' = exposed
    BY <1>1, <1>5 DEF DeleteDate
  <2>2. [call[c] EXCEPT !.at = "deleted"] \in Calls
    BY <1>1 DEF Calls
  <2>3. QED
    BY <1>1, <2>1, <2>2
<1>6. ASSUME UNCHANGED <<call, exposed>>
      PROVE  call' \in [Call -> Calls] /\ exposed' \subseteq Day
  BY <1>1, <1>6
<1>7. QED
  BY <1>2, <1>3, <1>4, <1>5, <1>6
  DEF Next, RunStep, CallStep, Sell, NextDay, SetPaused, StartRun, ChooseDay, CloseRun

LEMMA RowTypes ==
  ASSUME TypeOK, Next
  PROVE  /\ today' \in Day /\ sold' \in [Day -> SUBSET Chunk] /\ paused' \in BOOLEAN
         /\ faults' \in 0..MaxFault /\ copy' \in [Table -> [Day -> [Chunk -> 0..2]]]
<1>1. /\ today \in Day /\ sold \in [Day -> SUBSET Chunk] /\ paused \in BOOLEAN
      /\ faults \in 0..MaxFault /\ copy \in [Table -> [Day -> [Chunk -> 0..2]]]
      /\ \A c \in Call : call[c].day \in Day
  BY DEF TypeOK
<1>2. ASSUME NEW c \in Chunk, Sell(c)
      PROVE  sold' \in [Day -> SUBSET Chunk] /\ UNCHANGED <<today, paused, faults, copy>>
  BY <1>1, <1>2 DEF Sell
<1>3. ASSUME NextDay
      PROVE  today' \in Day /\ UNCHANGED <<sold, paused, faults, copy>>
  BY <1>1, <1>3, MirrorConstantsOK DEF NextDay, Day
<1>4. ASSUME Fault
      PROVE  faults' \in 0..MaxFault
  BY <1>1, <1>4, MirrorConstantsOK DEF Fault
<1>5. ASSUME NEW c \in Call, UpsertKeyed(c) \/ DeleteDate(c) \/ InsertChunk(c)
      PROVE  copy' \in [Table -> [Day -> [Chunk -> 0..2]]] /\ UNCHANGED <<today, sold, paused, faults>>
  <2>1. PICK t \in Table, row \in [Chunk -> 0..2] : copy' = [copy EXCEPT ![t][call[c].day] = row]
    <3>1. CASE UpsertKeyed(c)
      <4> DEFINE row == [k \in Chunk |-> IF k \in call[c].rows THEN 1 ELSE copy["keyed"][call[c].day][k]]
      <4>1. row \in [Chunk -> 0..2]
        BY <1>1 DEF Table
      <4>2. copy' = [copy EXCEPT !["keyed"][call[c].day] = row]
        BY <1>1, <3>1 DEF UpsertKeyed, Upserted, Table
      <4>3. QED
        BY <4>1, <4>2 DEF Table
    <3>2. CASE DeleteDate(c)
      <4> DEFINE row == [k \in Chunk |-> 0]
      <4>1. row \in [Chunk -> 0..2]
        OBVIOUS
      <4>2. copy' = [copy EXCEPT !["dated"][call[c].day] = row]
        BY <3>2 DEF DeleteDate, Emptied
      <4>3. QED
        BY <4>1, <4>2 DEF Table
    <3>3. CASE InsertChunk(c)
      <4> DEFINE row == [k \in Chunk |-> IF k \in call[c].rows THEN Least(2, copy["dated"][call[c].day][k] + 1)
                                         ELSE copy["dated"][call[c].day][k]]
      <4>1. row \in [Chunk -> 0..2]
        <5>1. \A n \in 0..2 : Least(2, n + 1) \in 0..2
          BY DEF Least
        <5>2. \A k \in Chunk : copy["dated"][call[c].day][k] \in 0..2
          BY <1>1 DEF Table
        <5>3. \A k \in Chunk : Least(2, copy["dated"][call[c].day][k] + 1) \in 0..2
          BY <5>1, <5>2
        <5>4. QED
          BY <5>2, <5>3
      <4>2. copy' = [copy EXCEPT !["dated"][call[c].day] = row]
        BY <1>1, <3>3 DEF InsertChunk, Inserted, Table
      <4>3. QED
        BY <4>1, <4>2 DEF Table
    <3>4. QED
      BY <1>5, <3>1, <3>2, <3>3
  <2>2. [copy[t] EXCEPT ![call[c].day] = row] \in [Day -> [Chunk -> 0..2]]
    BY <1>1
  <2>3. copy' = [copy EXCEPT ![t] = [copy[t] EXCEPT ![call[c].day] = row]]
    BY <1>1, <2>1
  <2>4. copy' \in [Table -> [Day -> [Chunk -> 0..2]]]
    BY <1>1, <2>2, <2>3
  <2>5. UNCHANGED <<today, sold, paused, faults>>
    BY <1>5 DEF UpsertKeyed, DeleteDate, InsertChunk
  <2>6. QED
    BY <2>4, <2>5
<1>6. ASSUME NEW b \in BOOLEAN, SetPaused(b)
      PROVE  paused' \in BOOLEAN /\ UNCHANGED <<today, sold, faults, copy>>
  BY <1>6 DEF SetPaused
<1>7. ASSUME NEW r \in Runner, RunStep(r)
      PROVE  UNCHANGED <<today, sold, paused, faults, copy>>
  BY <1>7 DEF RunStep, StartRun, ChooseDay, SendChunk, CloseRun
<1>8. ASSUME NEW r \in Runner, ChunkFails(r) \/ RunDies(r)
      PROVE  Fault /\ UNCHANGED <<today, sold, paused, copy>>
  BY <1>8 DEF ChunkFails, RunDies
<1>9. ASSUME NEW c \in Call, CallDies(c)
      PROVE  Fault /\ UNCHANGED <<today, sold, paused, copy>>
  BY <1>9 DEF CallDies
<1>10. QED
  BY <1>1, <1>2, <1>3, <1>4, <1>5, <1>6, <1>7, <1>8, <1>9 DEF Next, CallStep

LEMMA TypeInit == Init => TypeOK
<1> SUFFICES ASSUME Init
             PROVE  TypeOK
  OBVIOUS
<1>1. /\ 0 \in 0..LastDay /\ 0 \in 0..LastDay + 1 /\ 1 \in Day /\ 0 \in 0..MaxFault
  BY MirrorConstantsOK DEF Day
<1>2. run \in [Runner -> Runs]
  BY <1>1 DEF Init, Runs, Asleep, Table
<1>3. call \in [Call -> Calls]
  BY <1>1 DEF Init, Calls, FreeCall, Table
<1>4. copy \in [Table -> [Day -> [Chunk -> 0..2]]]
  BY DEF Init
<1>5. QED
  BY <1>1, <1>2, <1>3, <1>4 DEF Init, TypeOK, Runs, Calls

LEMMA TypeNext ==
  ASSUME TypeOK, RunInv, CallInv, Next
  PROVE  TypeOK'
  BY RunnerTypes, RequestTypes, RowTypes DEF TypeOK, Runs, Calls

-----------------------------------------------------------------------------
(* Runs.                                                                   *)

LEMMA RunInvNext ==
  ASSUME TypeOK, RunInv, CallInv, Next
  PROVE  RunInv'
<1>1. \A r \in Runner : run[r].at # "idle" =>
        /\ run[r].from < run[r].day /\ run[r].day <= run[r].to + 1 /\ run[r].to < today
        /\ run[r].at \in {"sending", "waiting"} => run[r].day <= run[r].to /\ run[r].left \subseteq Rows(run[r].day)
        /\ run[r].at = "sending" => run[r].left # {}
  BY DEF RunInv
<1>2. \A r \in Runner : run[r].from \in Nat /\ run[r].to \in Nat /\ run[r].day \in Nat
  BY RunFacts
<1>3. mark < today /\ mark \in Nat /\ today \in Nat /\ today <= LastDay
  <2>1. mark \in 0..LastDay /\ today \in Day
    BY DEF TypeOK
  <2>2. QED
    BY <2>1, MirrorConstantsOK DEF RunInv, Day
<1>4. run \in [Runner -> Runs]
  BY DEF TypeOK, Runs
<1>5. ASSUME NEW r \in Runner,
             run[r].at \in {"sending", "waiting"}, UNCHANGED <<today, mark, sold>>,
             After(run'[r], run[r], run[r].ok) \/ After(run'[r], run[r], FALSE) \/ Resumed(run'[r], run[r]),
             \A q \in Runner \ {r} : run'[q] = run[q]
      PROVE  RunInv'
  <2>1. Rows(run[r].day) # {}
    BY <1>5, RunFacts, RowsFacts
  <2>2. /\ run'[r].from = run[r].from /\ run'[r].to = run[r].to
        /\ \/ run'[r].day = run[r].day
           \/ run'[r].day = run[r].day + 1 /\ run'[r].at = "choosing"
        /\ run'[r].at # "waiting"
        /\ run'[r].at = "sending" => run'[r].left # {} /\ run'[r].left \subseteq Rows(run'[r].day)
    BY <1>1, <1>5, <2>1 DEF After, Resumed
  <2>3. /\ run'[r].from < run'[r].day /\ run'[r].day <= run'[r].to + 1 /\ run'[r].to < today
        /\ run'[r].at \in {"sending", "waiting"} => run'[r].day <= run'[r].to
    BY <1>1, <1>2, <1>5, <2>2
  <2>4. QED
    BY <1>1, <1>3, <1>5, <2>2, <2>3 DEF RunInv, Rows
<1>6. ASSUME NEW r \in Runner, run'[r] = Asleep, mark' < today, UNCHANGED <<today, sold>>,
             \A q \in Runner \ {r} : run'[q] = run[q]
      PROVE  RunInv'
  BY <1>1, <1>6 DEF RunInv, Asleep, Rows
<1>7. ASSUME UNCHANGED <<run, mark>>, today' \in {today, today + 1}, \A d \in Day \ {today} : sold'[d] = sold[d]
      PROVE  RunInv'
  <2>1. mark < today'
    BY <1>3, <1>7
  <2>2. \A r \in Runner : run[r].to < today => run[r].to < today'
    BY <1>2, <1>3, <1>7
  <2>3. ASSUME NEW r \in Runner, run[r].at \in {"sending", "waiting"}
        PROVE  Rows(run[r].day)' = Rows(run[r].day)
    <3>1. run[r].day \in Day \ {today}
      BY <1>3, <2>3, RunFacts
    <3>2. QED
      BY <1>7, <3>1 DEF Rows
  <2>4. QED
    BY <1>1, <1>7, <2>1, <2>2, <2>3 DEF RunInv
<1>8. ASSUME NEW r \in Runner, StartRun(r)
      PROVE  RunInv'
  <2> DEFINE v == [Asleep EXCEPT !.at = "choosing", !.from = mark,
                                 !.to = Least(LastDue, mark + Span), !.day = mark + 1]
  <2>1. mark < LastDue /\ run' = [run EXCEPT ![r] = v] /\ UNCHANGED <<today, mark, sold>>
    BY <1>8 DEF StartRun
  <2>2. v.at = "choosing" /\ v.from = mark /\ v.to = Least(LastDue, mark + Span) /\ v.day = mark + 1
    BY DEF Asleep
  <2> HIDE DEF v
  <2>3. mark < v.day /\ v.day <= v.to + 1 /\ v.to < today
    BY <1>3, <2>1, <2>2, MirrorConstantsOK DEF Least, LastDue
  <2>4. run'[r] = v /\ \A q \in Runner \ {r} : run'[q] = run[q]
    BY <1>4, <2>1
  <2>5. QED
    BY <1>1, <1>3, <2>1, <2>2, <2>3, <2>4 DEF RunInv, Rows
<1>9. ASSUME NEW r \in Runner, ChooseDay(r)
      PROVE  RunInv'
  <2>1. PICK at, left :
          /\ run' = [run EXCEPT ![r].at = at, ![r].table = "keyed", ![r].left = left]
          /\ at = "closing" \/ (at = "sending" /\ ~Finished(r) /\ left = Rows(run[r].day))
    BY <1>9 DEF ChooseDay
  <2>2. /\ run'[r].from = run[r].from /\ run'[r].to = run[r].to /\ run'[r].day = run[r].day
        /\ run'[r].at = at /\ run'[r].left = left
        /\ \A q \in Runner \ {r} : run'[q] = run[q]
    BY <1>4, <2>1 DEF Runs
  <2>3. run[r].at = "choosing" /\ UNCHANGED <<today, mark, sold>>
    BY <1>9 DEF ChooseDay
  <2>4. ASSUME at = "sending"
        PROVE  run[r].day <= run[r].to /\ left # {}
    <3>1. run[r].day <= run[r].to
      BY <1>2, <2>1, <2>4 DEF Finished
    <3>2. run[r].day \in Day
      BY <1>1, <1>2, <1>3, <2>3, <3>1, MirrorConstantsOK DEF Day
    <3>3. QED
      BY <2>1, <2>4, <3>1, <3>2, RowsFacts
  <2>5. /\ run'[r].from < run'[r].day /\ run'[r].day <= run'[r].to + 1 /\ run'[r].to < today'
        /\ run'[r].at # "waiting"
        /\ run'[r].at = "sending" => /\ run'[r].day <= run'[r].to /\ run'[r].left # {}
                                    /\ run'[r].left = Rows(run'[r].day)
    BY <1>1, <2>1, <2>2, <2>3, <2>4
  <2>6. \A d : Rows(d)' = Rows(d)
    BY <2>3 DEF Rows
  <2>7. QED
    BY <1>1, <1>3, <2>2, <2>3, <2>5, <2>6 DEF RunInv
<1>10. ASSUME NEW r \in Runner, NEW c \in Call, SendChunk(r, c)
       PROVE  RunInv'
  <2>1. PICK k : run' = [run EXCEPT ![r] = [run[r] EXCEPT !.at = "waiting", !.left = @ \ {k}]]
    BY <1>10 DEF SendChunk
  <2>2. /\ run'[r].from = run[r].from /\ run'[r].to = run[r].to /\ run'[r].day = run[r].day
        /\ run'[r].at = "waiting" /\ run'[r].left \subseteq run[r].left
        /\ \A q \in Runner \ {r} : run'[q] = run[q]
    BY <1>4, <2>1 DEF Runs
  <2>3. run[r].at = "sending" /\ UNCHANGED <<today, mark, sold>>
    BY <1>10 DEF SendChunk
  <2>4. QED
    BY <1>1, <1>3, <2>2, <2>3 DEF RunInv, Rows
<1>11. ASSUME NEW r \in Runner, ChunkFails(r)
       PROVE  RunInv'
  BY <1>5, <1>11, ChunkFailsFacts DEF ChunkFails
<1>12. ASSUME NEW r \in Runner, CloseRun(r)
       PROVE  RunInv'
  <2>1. run'[r] = Asleep /\ \A q \in Runner \ {r} : run'[q] = run[q]
    BY <1>4, <1>12 DEF CloseRun
  <2>2. mark' \in {mark, run[r].day - 1} /\ UNCHANGED <<today, sold>> /\ run[r].at = "closing"
    BY <1>12 DEF CloseRun, LastGood
  <2>3. run[r].day - 1 < today
    BY <1>1, <1>2, <1>3, <2>2
  <2>4. QED
    BY <1>3, <1>6, <2>1, <2>2, <2>3
<1>13. ASSUME NEW r \in Runner, RunDies(r)
       PROVE  RunInv'
  <2>1. run'[r] = Asleep /\ \A q \in Runner \ {r} : run'[q] = run[q]
    BY <1>4, <1>13 DEF RunDies
  <2>2. QED
    BY <1>3, <1>6, <1>13, <2>1 DEF RunDies
<1>14. ASSUME NEW c \in Call, UpsertKeyed(c) \/ InsertChunk(c) \/ CallDies(c)
       PROVE  RunInv'
  <2>1. UNCHANGED <<today, mark, sold>> /\ \E ok \in BOOLEAN : Answer(c, ok)
    BY <1>14 DEF UpsertKeyed, InsertChunk, CallDies
  <2>2. CASE \E r \in Runner : call[c].for = r
    <3>1. PICK r \in Runner : call[c].for = r
      BY <2>2
    <3>2. /\ run[r].at \in {"sending", "waiting"}
          /\ After(run'[r], run[r], run[r].ok) \/ After(run'[r], run[r], FALSE) \/ Resumed(run'[r], run[r])
          /\ \A q \in Runner \ {r} : run'[q] = run[q]
      BY <2>1, <3>1, AnswerFacts
    <3>3. QED
      BY <1>5, <2>1, <3>2
  <2>3. CASE \A r \in Runner : call[c].for # r
    <3>1. \A r \in Runner : run'[r] = run[r]
      BY <2>1, <2>3, AnswerFacts
    <3>2. QED
      BY <1>1, <1>3, <2>1, <3>1 DEF RunInv, Rows
  <2>4. QED
    BY <2>2, <2>3
<1>15. ASSUME NEW c \in Chunk, Sell(c)
       PROVE  RunInv'
  <2>1. \A d \in Day \ {today} : sold'[d] = sold[d]
    BY <1>15 DEF Sell, TypeOK
  <2>2. QED
    BY <1>7, <1>15, <2>1 DEF Sell
<1>16. QED
  BY <1>7, <1>8, <1>9, <1>10, <1>11, <1>12, <1>13, <1>14, <1>15
  DEF Next, RunStep, CallStep, NextDay, SetPaused, DeleteDate

-----------------------------------------------------------------------------
(* Requests.                                                               *)

\* A run that is not waiting has no request out, so whatever it does next leaves
\* the requests as they are.
LEMMA RunMoves ==
  ASSUME CallInv, NEW r \in Runner, run[r].at # "waiting",
         \A q \in Runner \ {r} : run'[q] = run[q], UNCHANGED <<today, sold, call>>
  PROVE  CallInv'
<1>1. \A c \in Call : call[c].for # r
  BY DEF CallInv
<1>2. \A c \in Call, q \in Runner : call[c].for = q => run'[q] = run[q]
  BY <1>1
<1>3. QED
  BY <1>2 DEF CallInv

\* A run that lets go of its request may do as it likes.
LEMMA RunLetsGo ==
  ASSUME CallInv, NEW r \in Runner,
         \A q \in Runner \ {r} : run'[q] = run[q], UNCHANGED <<today, sold>>, call \in [Call -> Calls],
         call' = [c \in Call |-> IF call[c].for = r THEN [call[c] EXCEPT !.for = Nobody] ELSE call[c]]
  PROVE  CallInv'
<1>1. Nobody \notin Runner
  BY MirrorConstantsOK
<1>2. ASSUME NEW c \in Call
      PROVE  /\ call'[c].at = call[c].at /\ call'[c].day = call[c].day
             /\ call'[c].rows = call[c].rows /\ call'[c].table = call[c].table
             /\ call'[c].for = IF call[c].for = r THEN Nobody ELSE call[c].for
  BY DEF Calls
<1>3. \A c \in Call, q \in Runner : call'[c].for = q => call[c].for = q /\ q # r
  BY <1>1, <1>2
<1>4. \A c \in Call : call'[c].at # "free" => call'[c].day < today /\ call'[c].rows \subseteq sold[call'[c].day]
  BY <1>2 DEF CallInv
<1>5. \A c \in Call, q \in Runner : call'[c].for = q =>
        /\ call'[c].at # "free" /\ run'[q].at = "waiting"
        /\ run'[q].day = call'[c].day /\ run'[q].table = call'[c].table
  BY <1>2, <1>3 DEF CallInv
<1>6. \A b, c \in Call : call'[b].for = call'[c].for /\ call'[c].for \in Runner => b = c
  BY <1>3 DEF CallInv
<1>7. \A c \in Call : call'[c].at = "deleted" => call'[c].table = "dated"
  BY <1>2 DEF CallInv
<1>8. QED
  BY <1>4, <1>5, <1>6, <1>7 DEF CallInv

\* What is sent is part of what was sold that day.
LEMMA SentFacts ==
  ASSUME TypeOK, RunInv, NEW r \in Runner, NEW c \in Call, SendChunk(r, c)
  PROVE  \E k \in run[r].left :
           /\ run' = [run EXCEPT ![r] = [run[r] EXCEPT !.at = "waiting", !.left = run[r].left \ {k}]]
           /\ call' = [call EXCEPT ![c] = [at |-> "received", table |-> run[r].table, day |-> run[r].day,
                                           rows |-> {k} \ {0}, for |-> r]]
           /\ {k} \ {0} \subseteq sold[run[r].day] /\ run[r].day \in Day /\ run[r].day < today
<1>1. /\ run[r].at = "sending" /\ run[r].day \in Day /\ run[r].day < today
      /\ run[r].left # {} /\ run[r].left \subseteq Rows(run[r].day)
      /\ run[r].left \in SUBSET (Chunk \cup {0})
  BY RunFacts DEF SendChunk, RunInv, Runs
<1> DEFINE k == CHOOSE x \in run[r].left : \A y \in run[r].left : x <= y
<1>2. k \in run[r].left
  BY <1>1, LeastChunk
<1>3. /\ run' = [run EXCEPT ![r] = [run[r] EXCEPT !.at = "waiting", !.left = run[r].left \ {k}]]
      /\ call' = [call EXCEPT ![c] = [at |-> "received", table |-> run[r].table, day |-> run[r].day,
                                      rows |-> {k} \ {0}, for |-> r]]
  BY DEF SendChunk
<1> HIDE DEF k
<1>4. {k} \ {0} \subseteq sold[run[r].day]
  BY <1>1, <1>2 DEF Rows
<1>5. QED
  BY <1>1, <1>2, <1>3, <1>4

LEMMA CallInvNext ==
  ASSUME TypeOK, RunInv, CallInv, Next
  PROVE  CallInv'
<1>1. run \in [Runner -> Runs] /\ call \in [Call -> Calls]
  BY DEF TypeOK, Runs, Calls
<1>2. Nobody \notin Runner
  BY MirrorConstantsOK
<1>3. ASSUME NEW r \in Runner, StartRun(r) \/ ChooseDay(r) \/ CloseRun(r)
      PROVE  CallInv'
  <2>1. run[r].at # "waiting" /\ UNCHANGED <<today, sold, call>>
    BY <1>3 DEF StartRun, ChooseDay, CloseRun
  <2>2. \A q \in Runner \ {r} : run'[q] = run[q]
    BY <1>1, <1>3 DEF StartRun, ChooseDay, CloseRun
  <2>3. QED
    BY <2>1, <2>2, RunMoves
<1>4. ASSUME NEW r \in Runner, ChunkFails(r) \/ RunDies(r)
      PROVE  CallInv'
  <2>1. \A q \in Runner \ {r} : run'[q] = run[q]
    BY <1>1, <1>4 DEF ChunkFails, RunDies
  <2>2. QED
    BY <1>1, <1>4, <2>1, RunLetsGo DEF ChunkFails, RunDies
<1>5. ASSUME NEW r \in Runner, NEW c \in Call, SendChunk(r, c)
      PROVE  CallInv'
  <2>1. PICK k \in run[r].left :
           /\ run' = [run EXCEPT ![r] = [run[r] EXCEPT !.at = "waiting", !.left = run[r].left \ {k}]]
           /\ call' = [call EXCEPT ![c] = [at |-> "received", table |-> run[r].table, day |-> run[r].day,
                                           rows |-> {k} \ {0}, for |-> r]]
           /\ {k} \ {0} \subseteq sold[run[r].day] /\ run[r].day \in Day /\ run[r].day < today
    BY <1>5, SentFacts
  <2>2. run[r].at = "sending" /\ UNCHANGED <<today, sold>>
    BY <1>5 DEF SendChunk
  <2>3. /\ run'[r].at = "waiting" /\ run'[r].day = run[r].day /\ run'[r].table = run[r].table
        /\ \A q \in Runner \ {r} : run'[q] = run[q]
    BY <1>1, <2>1 DEF Runs
  <2>4. /\ call'[c].at = "received" /\ call'[c].table = run[r].table /\ call'[c].day = run[r].day
        /\ call'[c].rows = {k} \ {0} /\ call'[c].for = r
        /\ \A b \in Call \ {c} : call'[b] = call[b]
    BY <1>1, <2>1
  <2>5. \A b \in Call : call[b].for # r
    BY <2>2 DEF CallInv
  <2>6. \A b \in Call : call'[b].at # "free" => call'[b].day < today /\ call'[b].rows \subseteq sold[call'[b].day]
    BY <2>1, <2>4 DEF CallInv
  <2>7. \A b \in Call, q \in Runner : call'[b].for = q =>
          /\ call'[b].at # "free" /\ run'[q].at = "waiting"
          /\ run'[q].day = call'[b].day /\ run'[q].table = call'[b].table
    BY <2>3, <2>4, <2>5 DEF CallInv
  <2>8. \A a, b \in Call : call'[a].for = call'[b].for /\ call'[b].for \in Runner => a = b
    BY <2>4, <2>5 DEF CallInv
  <2>9. \A b \in Call : call'[b].at = "deleted" => call'[b].table = "dated"
    BY <2>4 DEF CallInv
  <2>10. QED
    BY <2>2, <2>6, <2>7, <2>8, <2>9 DEF CallInv
<1>6. ASSUME NEW c \in Call, UpsertKeyed(c) \/ InsertChunk(c) \/ CallDies(c)
      PROVE  CallInv'
  <2>1. UNCHANGED <<today, sold>> /\ call' = [call EXCEPT ![c] = FreeCall] /\ \E ok \in BOOLEAN : Answer(c, ok)
    BY <1>6 DEF UpsertKeyed, InsertChunk, CallDies
  <2>2. call'[c].at = "free" /\ call'[c].for \notin Runner /\ \A b \in Call \ {c} : call'[b] = call[b]
    BY <1>1, <1>2, <2>1 DEF FreeCall
  <2>3. \A b \in Call \ {c}, q \in Runner : call[b].for = q => call[c].for # q
    BY DEF CallInv
  <2>4. \A b \in Call \ {c}, q \in Runner : call[b].for = q => run'[q] = run[q]
    BY <2>1, <2>3, AnswerFacts
  <2>5. QED
    BY <2>1, <2>2, <2>4 DEF CallInv
<1>7. ASSUME NEW c \in Call, DeleteDate(c)
      PROVE  CallInv'
  <2>1. /\ call[c].at = "received" /\ call[c].table = "dated"
        /\ call' = [call EXCEPT ![c] = [call[c] EXCEPT !.at = "deleted"]] /\ UNCHANGED <<today, sold, run>>
    BY <1>1, <1>7 DEF DeleteDate
  <2>2. \A b \in Call : /\ call'[b].day = call[b].day /\ call'[b].rows = call[b].rows
                        /\ call'[b].table = call[b].table /\ call'[b].for = call[b].for
                        /\ call'[b].at # "free" <=> call[b].at # "free"
                        /\ call'[b].at = "deleted" => call[b].at = "deleted" \/ b = c
    BY <1>1, <2>1 DEF Calls
  <2>3. QED
    BY <2>1, <2>2 DEF CallInv
<1>8. ASSUME UNCHANGED <<run, call>>, today' \in {today, today + 1},
             \A d \in Day \ {today} : sold'[d] = sold[d]
      PROVE  CallInv'
  <2>1. ASSUME NEW c \in Call, call[c].at # "free"
        PROVE  call[c].day < today' /\ call[c].rows \subseteq sold'[call[c].day]
    <3>1. call[c].day < today /\ call[c].day \in Day /\ today \in Day /\ call[c].rows \subseteq sold[call[c].day]
      BY <1>1, <2>1 DEF CallInv, Calls, TypeOK
    <3>2. call[c].day < today' /\ call[c].day # today
      BY <1>8, <3>1, MirrorConstantsOK DEF Day
    <3>3. QED
      BY <1>8, <3>1, <3>2
  <2>2. QED
    BY <1>8, <2>1 DEF CallInv
<1>9. ASSUME NEW c \in Chunk, Sell(c)
      PROVE  CallInv'
  <2>1. \A d \in Day \ {today} : sold'[d] = sold[d]
    BY <1>9 DEF Sell, TypeOK
  <2>2. QED
    BY <1>8, <1>9, <2>1 DEF Sell
<1>10. QED
  BY <1>3, <1>4, <1>5, <1>6, <1>7, <1>8, <1>9 DEF Next, RunStep, CallStep, NextDay, SetPaused

-----------------------------------------------------------------------------
(* The tables with a key.                                                  *)

Sound == \A d \in Day, k \in Chunk : copy["keyed"][d][k] \in {0, 1} /\ (Copied(d, k) => k \in sold[d])

KeyedRun(r) ==
  run[r].at # "idle" =>
    /\ \A d \in Day : d < run[r].day => Exact("keyed", d)
    /\ run[r].at \in {"sending", "waiting"} =>
         IF run[r].table = "dated" THEN run[r].ok => Exact("keyed", run[r].day)
         ELSE \A k \in sold[run[r].day] \ run[r].left : Copied(run[r].day, k) \/ OnItsWay(r, k)

LEMMA KeyedParts == KeyedInv <=> Sound /\ KeyedComplete /\ \A r \in Runner : KeyedRun(r)
  BY DEF KeyedInv, Sound, KeyedRun

LEMMA ExactWhenCopied ==
  ASSUME TypeOK, Sound, NEW d \in Day
  PROVE  Exact("keyed", d) <=> \A k \in sold[d] : Copied(d, k)
<1>1. sold[d] \subseteq Chunk
  BY DEF TypeOK
<1>2. QED
  BY <1>1 DEF Exact, Sound, Copied

\* Nothing that was copied is lost, and no day before today changes.
LEMMA KeyedRowsNext ==
  ASSUME TypeOK, RunInv, CallInv, Sound, Next
  PROVE  /\ Sound'
         /\ \A d \in Day, k \in Chunk : Copied(d, k) => Copied(d, k)'
         /\ \A d \in Day \ {today} : sold'[d] = sold[d] /\ (Exact("keyed", d) => Exact("keyed", d)')
<1>1. /\ sold \in [Day -> SUBSET Chunk] /\ copy \in [Table -> [Day -> [Chunk -> 0..2]]]
      /\ "keyed" \in Table /\ "dated" \in Table /\ "keyed" # "dated"
  BY DEF TypeOK, Table
<1>2. (\A d \in Day \ {today} : sold'[d] = sold[d]) /\ (\A d \in Day : sold[d] \subseteq sold'[d])
  BY <1>1 DEF Next, Sell, NextDay, SetPaused, RunStep, StartRun, ChooseDay, SendChunk, CloseRun,
              ChunkFails, RunDies, CallStep, UpsertKeyed, DeleteDate, InsertChunk, CallDies
<1>3. CASE copy'["keyed"] = copy["keyed"]
  BY <1>2, <1>3 DEF Sound, Copied, Exact
<1>4. ASSUME NEW c \in Call, UpsertKeyed(c)
      PROVE  /\ Sound'
             /\ \A d \in Day, k \in Chunk : Copied(d, k) => Copied(d, k)'
             /\ \A d \in Day \ {today} : Exact("keyed", d) => Exact("keyed", d)'
  <2>1. call[c].day \in Day /\ call[c].rows \subseteq sold[call[c].day] /\ sold' = sold
    BY <1>4 DEF UpsertKeyed, CallInv, TypeOK
  <2>2. \A d \in Day, k \in Chunk :
          copy'["keyed"][d][k] = IF d = call[c].day /\ k \in call[c].rows THEN 1 ELSE copy["keyed"][d][k]
    BY <1>1, <1>4, <2>1 DEF UpsertKeyed, Upserted
  <2>3. Sound'
    BY <2>1, <2>2 DEF Sound, Copied
  <2>4. \A d \in Day, k \in Chunk : Copied(d, k) => Copied(d, k)'
    BY <2>2 DEF Copied
  <2>5. \A d \in Day : Exact("keyed", d) => Exact("keyed", d)'
    BY <2>1, <2>2 DEF Exact
  <2>6. QED
    BY <2>3, <2>4, <2>5
<1>5. copy'["keyed"] = copy["keyed"] \/ \E c \in Call : UpsertKeyed(c)
  BY <1>1 DEF Next, Sell, NextDay, SetPaused, RunStep, StartRun, ChooseDay, SendChunk, CloseRun,
              ChunkFails, RunDies, CallStep, DeleteDate, Emptied, InsertChunk, Inserted, CallDies
<1>6. QED
  BY <1>2, <1>3, <1>4, <1>5

\* A run that does not move loses nothing.
LEMMA KeyedKept ==
  ASSUME TypeOK, RunInv, CallInv, Sound, Next, NEW r \in Runner, KeyedRun(r), run'[r] = run[r],
         \A c \in Call : call[c].for = r => call'[c] = call[c]
  PROVE  KeyedRun(r)'
<1>1. /\ \A d \in Day, k \in Chunk : Copied(d, k) => Copied(d, k)'
      /\ \A d \in Day \ {today} : sold'[d] = sold[d] /\ (Exact("keyed", d) => Exact("keyed", d)')
  BY KeyedRowsNext
<1>2. SUFFICES ASSUME run[r].at # "idle"
               PROVE  KeyedRun(r)'
  BY DEF KeyedRun
<1>3. /\ run[r].day <= run[r].to + 1 /\ run[r].to < today
      /\ run[r].day \in Nat /\ run[r].to \in Nat /\ today \in Nat
  BY <1>2, RunFacts DEF RunInv
<1>4. \A d \in Day : d < run[r].day => d # today
  BY <1>3, MirrorConstantsOK DEF Day
<1>5. \A d \in Day : d < run'[r].day => Exact("keyed", d)'
  BY <1>1, <1>2, <1>4 DEF KeyedRun
<1>6. ASSUME run[r].at \in {"sending", "waiting"}
      PROVE  IF run[r].table = "dated" THEN run[r].ok => Exact("keyed", run[r].day)'
             ELSE \A k \in sold'[run[r].day] \ run[r].left : Copied(run[r].day, k)' \/ OnItsWay(r, k)'
  <2>1. run[r].day \in Day /\ run[r].day # today /\ sold[run[r].day] \subseteq Chunk
    BY <1>3, <1>6, RunFacts DEF TypeOK
  <2>2. \A k : OnItsWay(r, k) => OnItsWay(r, k)'
    BY DEF OnItsWay
  <2>3. QED
    BY <1>1, <1>2, <1>6, <2>1, <2>2 DEF KeyedRun
<1>7. QED
  BY <1>5, <1>6 DEF KeyedRun

\* Nor does one whose request failed: of the keyed table nothing is claimed any more.
LEMMA KeyedGivenUp ==
  ASSUME TypeOK, RunInv, CallInv, Sound, Next, NEW r \in Runner, KeyedRun(r),
         run[r].at \in {"sending", "waiting"}, After(run'[r], run[r], FALSE)
  PROVE  KeyedRun(r)'
<1>1. run[r].day \in Day /\ run[r].day < today /\ today \in Nat
  BY RunFacts
<1>2. \A d \in Day : d < run[r].day => d # today
  BY <1>1, MirrorConstantsOK DEF Day
<1>3. run'[r].day = run[r].day /\ run'[r].table = "dated" /\ run'[r].ok = FALSE
  BY DEF After
<1>4. QED
  BY <1>2, <1>3, KeyedRowsNext DEF KeyedRun

LEMMA KeyedInvNext ==
  ASSUME TypeOK, RunInv, CallInv, KeyedInv, Next
  PROVE  KeyedInv'
<1>1. Sound /\ KeyedComplete /\ \A r \in Runner : KeyedRun(r)
  BY KeyedParts
<1>2. run \in [Runner -> Runs] /\ call \in [Call -> Calls] /\ mark \in 0..LastDay /\ today \in Day
  BY DEF TypeOK, Runs, Calls
<1>3. /\ Sound'
      /\ \A d \in Day, k \in Chunk : Copied(d, k) => Copied(d, k)'
      /\ \A d \in Day \ {today} : sold'[d] = sold[d] /\ (Exact("keyed", d) => Exact("keyed", d)')
  BY <1>1, KeyedRowsNext
<1>4. KeyedComplete'
  <2>1. mark' = mark \/ \E r \in Runner : CloseRun(r) /\ mark' = run[r].day - 1
    BY DEF Next, Sell, NextDay, SetPaused, RunStep, StartRun, ChooseDay, SendChunk, CloseRun, LastGood,
           ChunkFails, RunDies, CallStep, UpsertKeyed, DeleteDate, InsertChunk, CallDies
  <2>2. CASE mark' = mark
    <3>1. \A d \in Day : d <= mark => d # today
      BY <1>2, MirrorConstantsOK DEF RunInv, Day
    <3>2. QED
      BY <1>1, <1>3, <2>2, <3>1 DEF KeyedComplete
  <2>3. ASSUME NEW r \in Runner, CloseRun(r), mark' = run[r].day - 1
        PROVE  KeyedComplete'
    <3>1. /\ run[r].at = "closing" /\ run[r].day <= run[r].to + 1 /\ run[r].to < today
          /\ run[r].day \in Nat /\ run[r].to \in Nat /\ today \in Nat
      BY <2>3, RunFacts DEF CloseRun, RunInv
    <3>2. \A d \in Day : d <= run[r].day - 1 => d # today /\ d < run[r].day
      BY <3>1, MirrorConstantsOK DEF Day
    <3>3. \A d \in Day : d <= run[r].day - 1 => Exact("keyed", d)'
      BY <1>1, <1>3, <3>1, <3>2 DEF KeyedRun
    <3>4. QED
      BY <2>3, <3>3 DEF KeyedComplete
  <2>4. QED
    BY <2>1, <2>2, <2>3
<1>5. ASSUME NEW r \in Runner, run'[r].at = "idle"
      PROVE  KeyedRun(r)'
  BY <1>5 DEF KeyedRun
<1>6. ASSUME NEW r \in Runner, StartRun(r)
      PROVE  KeyedRun(r)'
  <2>1. run'[r].at = "choosing" /\ run'[r].day = mark + 1
    BY <1>2, <1>6 DEF StartRun, Asleep
  <2>2. \A d \in Day : d < mark + 1 => d <= mark /\ d # today
    BY <1>2, MirrorConstantsOK DEF RunInv, Day
  <2>3. QED
    BY <1>1, <1>3, <2>1, <2>2 DEF KeyedRun, KeyedComplete
<1>7. ASSUME NEW r \in Runner, ChooseDay(r)
      PROVE  KeyedRun(r)'
  <2>1. /\ run[r].at = "choosing" /\ sold' = sold /\ copy' = copy
        /\ run'[r].day = run[r].day /\ run'[r].table = "keyed" /\ run'[r].at \in {"closing", "sending"}
        /\ run'[r].at = "sending" => run'[r].left = Rows(run[r].day)
    BY <1>2, <1>7 DEF ChooseDay, Runs
  <2>2. \A d : sold[d] \subseteq Rows(d)
    BY DEF Rows
  <2>3. \A d \in Day : d < run'[r].day => Exact("keyed", d)'
    BY <1>1, <2>1 DEF KeyedRun, Exact
  <2>4. QED
    BY <2>1, <2>2, <2>3 DEF KeyedRun
<1>8. ASSUME NEW r \in Runner, NEW c \in Call, SendChunk(r, c)
      PROVE  KeyedRun(r)'
  <2>1. PICK k \in run[r].left :
           /\ run' = [run EXCEPT ![r] = [run[r] EXCEPT !.at = "waiting", !.left = run[r].left \ {k}]]
           /\ call' = [call EXCEPT ![c] = [at |-> "received", table |-> run[r].table, day |-> run[r].day,
                                           rows |-> {k} \ {0}, for |-> r]]
           /\ {k} \ {0} \subseteq sold[run[r].day] /\ run[r].day \in Day /\ run[r].day < today
    BY <1>8, SentFacts
  <2>2. run[r].at = "sending" /\ sold' = sold /\ copy' = copy
    BY <1>8 DEF SendChunk
  <2>3. /\ run'[r].at = "waiting" /\ run'[r].day = run[r].day /\ run'[r].table = run[r].table
        /\ run'[r].ok = run[r].ok /\ run'[r].left = run[r].left \ {k}
    BY <1>2, <2>1 DEF Runs
  <2>4. call'[c].for = r /\ call'[c].rows = {k} \ {0}
    BY <1>2, <2>1
  <2>5. \A j : ~OnItsWay(r, j)
    BY <2>2 DEF CallInv, OnItsWay
  <2>6. \A j \in sold[run[r].day] : j # 0
    BY <2>1, MirrorConstantsOK DEF TypeOK
  <2>7. \A d : Exact("keyed", d) => Exact("keyed", d)'
    BY <2>2 DEF Exact
  <2>8. ASSUME run[r].table # "dated", NEW j \in sold[run[r].day] \ run'[r].left
        PROVE  Copied(run[r].day, j)' \/ OnItsWay(r, j)'
    <3>1. CASE j = k
      BY <2>4, <2>6, <2>8, <3>1 DEF OnItsWay
    <3>2. CASE j # k
      <4>1. Copied(run[r].day, j)
        BY <1>1, <2>2, <2>3, <2>5, <2>8, <3>2 DEF KeyedRun
      <4>2. QED
        BY <2>2, <2>3, <4>1 DEF Copied
    <3>3. QED
      BY <3>1, <3>2
  <2>9. QED
    BY <1>1, <2>2, <2>3, <2>7, <2>8 DEF KeyedRun
<1>9. ASSUME NEW c \in Call, NEW r \in Runner, call[c].for = r, UpsertKeyed(c)
      PROVE  KeyedRun(r)'
  <2>1. /\ run[r].at = "waiting" /\ run[r].day = call[c].day /\ run[r].table = "keyed" /\ sold' = sold
        /\ (run[r].left = {} /\ After(run'[r], run[r], run[r].ok)) \/ Resumed(run'[r], run[r])
    BY <1>9, AnswerFacts DEF UpsertKeyed
  <2>2. run[r].day \in Day /\ run[r].day < today /\ today \in Nat
    BY <2>1, RunFacts
  <2> PICK day \in Day : day = run[r].day
    BY <2>2
  <2>3. ASSUME NEW k \in sold[day] \ run[r].left
        PROVE  Copied(day, k)'
    <3>1. k \in Chunk
      BY <2>2 DEF TypeOK
    <3>2. CASE Copied(day, k)
      BY <1>3, <3>1, <3>2
    <3>3. CASE OnItsWay(r, k)
      <4>1. k \in call[c].rows
        BY <1>9, <3>3 DEF OnItsWay, CallInv
      <4>2. copy'["keyed"][day][k] = 1
        BY <1>9, <2>1, <2>2, <3>1, <4>1 DEF UpsertKeyed, Upserted, TypeOK, Table
      <4>3. QED
        BY <4>2 DEF Copied
    <3>4. QED
      BY <1>1, <2>1, <2>3, <3>2, <3>3 DEF KeyedRun
  <2>4. /\ run'[r].day = run[r].day
        /\ \/ run'[r].table = "dated" /\ run[r].left = {}
           \/ run'[r].table = "keyed" /\ run'[r].left = run[r].left
    BY <2>1 DEF After, Resumed
  <2>5. \A d \in Day : d < run[r].day => Exact("keyed", d)'
    <3>1. \A d \in Day : d < run[r].day => d # today
      BY <2>2, MirrorConstantsOK DEF Day
    <3>2. QED
      BY <1>1, <1>3, <2>1, <3>1 DEF KeyedRun
  <2>6. run[r].left = {} => Exact("keyed", day)'
    BY <1>3, <2>1, <2>3 DEF Sound, Copied, Exact
  <2>7. QED
    BY <2>1, <2>3, <2>4, <2>5, <2>6 DEF KeyedRun
<1>10. ASSUME NEW c \in Call, NEW r \in Runner, call[c].for = r, InsertChunk(c)
       PROVE  KeyedRun(r)'
  <2>1. /\ run[r].at = "waiting" /\ run[r].day = call[c].day /\ run[r].table = "dated"
        /\ (run[r].left = {} /\ After(run'[r], run[r], run[r].ok)) \/ Resumed(run'[r], run[r])
    <3>1. call[c].table = "dated" /\ Answer(c, TRUE)
      BY <1>10 DEF InsertChunk, CallInv
    <3>2. QED
      BY <1>10, <3>1, AnswerFacts
  <2>2. run[r].day \in Day /\ run[r].day < today /\ today \in Nat
    BY <2>1, RunFacts
  <2> PICK day \in Day : day = run[r].day
    BY <2>2
  <2>3. \A d \in Day : d < run[r].day + 1 => d # today /\ (d < run[r].day \/ d = run[r].day)
    BY <2>2, MirrorConstantsOK DEF Day
  <2>4. \A d \in Day : d < run[r].day => Exact("keyed", d)'
    BY <1>1, <1>3, <2>1, <2>3, <2>2, MirrorConstantsOK DEF KeyedRun, Day
  <2>5. run[r].ok => Exact("keyed", day)'
    BY <1>1, <1>3, <2>1, <2>2, MirrorConstantsOK DEF KeyedRun, Day
  <2>6. \/ run'[r].day = run[r].day /\ run'[r].table = "dated" /\ run'[r].ok = run[r].ok
        \/ run'[r].day = run[r].day + 1 /\ run'[r].at = "choosing" /\ run[r].ok
    BY <2>1 DEF After, Resumed
  <2>7. QED
    BY <2>3, <2>4, <2>5, <2>6 DEF KeyedRun
<1>11. ASSUME NEW c \in Call, NEW r \in Runner, call[c].for = r, CallDies(c)
       PROVE  KeyedRun(r)'
  <2>1. run[r].at = "waiting" /\ After(run'[r], run[r], FALSE)
    BY <1>11, AnswerFacts DEF CallDies
  <2>2. QED
    BY <1>1, <2>1, KeyedGivenUp
<1>12. ASSUME NEW r \in Runner, ChunkFails(r)
       PROVE  KeyedRun(r)'
  BY <1>1, <1>12, ChunkFailsFacts, KeyedGivenUp
<1>13. ASSUME NEW r \in Runner
       PROVE  KeyedRun(r)'
  <2>1. CASE StartRun(r) \/ ChooseDay(r) \/ (\E c \in Call : SendChunk(r, c)) \/ ChunkFails(r)
    BY <1>6, <1>7, <1>8, <1>12, <2>1
  <2>2. CASE CloseRun(r) \/ RunDies(r)
    <3>1. run'[r].at = "idle"
      BY <1>2, <2>2 DEF CloseRun, RunDies, Asleep
    <3>2. QED
      BY <1>5, <3>1
  <2>3. ASSUME NEW q \in Runner \ {r}, RunStep(q) \/ ChunkFails(q) \/ RunDies(q)
        PROVE  KeyedRun(r)'
    <3>1. run'[r] = run[r]
      BY <1>2, <2>3 DEF RunStep, StartRun, ChooseDay, SendChunk, CloseRun, ChunkFails, RunDies
    <3>2. \A c \in Call : call[c].for = r => call'[c] = call[c]
      <4>1. CASE \E c \in Call : SendChunk(q, c)
        BY <1>2, <4>1 DEF SendChunk, CallInv
      <4>2. CASE StartRun(q) \/ ChooseDay(q) \/ CloseRun(q)
        BY <4>2 DEF StartRun, ChooseDay, CloseRun
      <4>3. CASE ChunkFails(q) \/ RunDies(q)
        BY <2>3, <4>3 DEF ChunkFails, RunDies
      <4>4. QED
        BY <2>3, <4>1, <4>2, <4>3 DEF RunStep
    <3>3. QED
      BY <1>1, <3>1, <3>2, KeyedKept
  <2>4. ASSUME NEW c \in Call, CallStep(c) \/ CallDies(c)
        PROVE  KeyedRun(r)'
    <3>1. CASE DeleteDate(c)
      <4>1. UNCHANGED <<run, sold>> /\ copy'["keyed"] = copy["keyed"]
        BY <3>1 DEF DeleteDate, Emptied, TypeOK, Table
      <4>2. \A b \in Call : call'[b].for = call[b].for /\ call'[b].rows = call[b].rows
        BY <1>2, <3>1 DEF DeleteDate, Calls
      <4>3. QED
        BY <1>1, <4>1, <4>2 DEF KeyedRun, Exact, Copied, OnItsWay
    <3>2. CASE call[c].for = r /\ ~DeleteDate(c)
      BY <1>9, <1>10, <1>11, <2>4, <3>2 DEF CallStep
    <3>3. CASE call[c].for # r /\ ~DeleteDate(c)
      <4>1. call' = [call EXCEPT ![c] = FreeCall] /\ \E ok \in BOOLEAN : Answer(c, ok)
        BY <2>4, <3>3 DEF CallStep, UpsertKeyed, InsertChunk, CallDies
      <4>2. run'[r] = run[r]
        BY <3>3, <4>1, AnswerFacts
      <4>3. \A b \in Call : call[b].for = r => call'[b] = call[b]
        BY <1>2, <3>3, <4>1
      <4>4. QED
        BY <1>1, <4>2, <4>3, KeyedKept
    <3>4. QED
      BY <3>1, <3>2, <3>3
  <2>5. CASE (\E c \in Chunk : Sell(c)) \/ NextDay \/ \E b \in BOOLEAN : SetPaused(b)
    <3>1. UNCHANGED <<run, call>>
      BY <2>5 DEF Sell, NextDay, SetPaused
    <3>2. QED
      BY <1>1, <3>1, KeyedKept
  <2>6. QED
    BY <2>1, <2>2, <2>3, <2>4, <2>5 DEF Next, RunStep
<1>14. QED
  BY <1>3, <1>4, <1>13 DEF KeyedInv, Sound, KeyedRun

-----------------------------------------------------------------------------
(* The tables without one.                                                 *)

DatedDay(d) ==
  /\ Behind(d) => Exact("dated", d) /\ Uploading(d) = {}
  /\ \A b, c \in Uploading(d) : b = c
  /\ \A c \in Uploading(d) : /\ call[c].rows = sold[d]
                             /\ call[c].at = "deleted" => \A k \in Chunk : copy["dated"][d][k] = 0

DatedRun(r) ==
  run[r].table = "dated" /\ Small(run[r].day) =>
    /\ run[r].at = "sending" => run[r].left = Rows(run[r].day)
    /\ run[r].at = "waiting" => run[r].left = {}

LEMMA DatedParts ==
  DatedInv <=> /\ \A d \in Day \ exposed : d < today /\ Small(d) => DatedDay(d)
               /\ \A r \in Runner : DatedRun(r)
  BY DEF DatedInv, DatedDay, DatedRun

\* The days before today are settled.
LEMMA PastFacts ==
  ASSUME TypeOK, Next
  PROVE  /\ today' \in {today, today + 1}
         /\ \A d \in Day \ {today} : sold'[d] = sold[d] /\ Small(d)' = Small(d) /\ Rows(d)' = Rows(d)
<1>1. today' \in {today, today + 1} /\ \A d \in Day \ {today} : sold'[d] = sold[d]
  BY DEF TypeOK, Next, Sell, NextDay, SetPaused, RunStep, StartRun, ChooseDay, SendChunk, CloseRun,
         ChunkFails, RunDies, CallStep, UpsertKeyed, DeleteDate, InsertChunk, CallDies
<1>2. QED
  BY <1>1 DEF Small, Rows

\* A table of a small day is sent whole.
LEMMA DatedRunNext ==
  ASSUME TypeOK, RunInv, CallInv, DatedInv, Next, NEW r \in Runner
  PROVE  DatedRun(r)'
<1>1. DatedRun(r) /\ run \in [Runner -> Runs] /\ call \in [Call -> Calls]
  BY DatedParts DEF TypeOK, Runs, Calls
<1>2. \A d \in Day \ {today} : Small(d)' = Small(d) /\ Rows(d)' = Rows(d)
  BY PastFacts
<1>3. run[r].at \in {"sending", "waiting"} => run[r].day \in Day \ {today}
  BY RunFacts
<1>4. CASE run'[r] = run[r]
  <2>1. ASSUME run[r].at \in {"sending", "waiting"}, run[r].table = "dated", Small(run[r].day)'
        PROVE  /\ run[r].at = "sending" => run[r].left = Rows(run[r].day)'
               /\ run[r].at = "waiting" => run[r].left = {}
    <3>1. PICK d \in Day \ {today} : d = run[r].day
      BY <1>3, <2>1
    <3>2. Small(d)' /\ Rows(run[r].day)' = Rows(d)'
      BY <1>4, <2>1, <3>1 DEF Small, Rows
    <3>3. Small(d) /\ Rows(run[r].day)' = Rows(d)
      BY <1>2, <3>1, <3>2
    <3>4. QED
      BY <1>1, <2>1, <3>1, <3>3 DEF DatedRun
  <2>2. QED
    BY <1>4, <2>1 DEF DatedRun, Small, Rows
<1>5. CASE run'[r].at \notin {"sending", "waiting"} \/ run'[r].table # "dated"
  BY <1>5 DEF DatedRun
<1>6. ASSUME run[r].at \in {"sending", "waiting"}, NEW ok \in BOOLEAN, After(run'[r], run[r], ok)
      PROVE  DatedRun(r)'
  <2>1. PICK d \in Day \ {today} : d = run[r].day
    BY <1>3, <1>6
  <2>2. run'[r].at = "sending" => run'[r].day = d /\ run'[r].left = Rows(d)
    BY <1>6, <2>1 DEF After
  <2>3. run'[r].at = "sending" => run'[r].left = Rows(run[r].day)'
    BY <1>2, <2>1, <2>2 DEF Rows
  <2>4. run'[r].at # "waiting"
    BY <1>6 DEF After
  <2>5. QED
    BY <2>3, <2>4 DEF DatedRun, Rows
<1>7. ASSUME NEW c \in Call, SendChunk(r, c)
      PROVE  DatedRun(r)'
  <2>1. PICK k \in run[r].left :
           run' = [run EXCEPT ![r] = [run[r] EXCEPT !.at = "waiting", !.left = run[r].left \ {k}]]
    BY <1>7, SentFacts
  <2>2. /\ run'[r].at = "waiting" /\ run'[r].day = run[r].day /\ run'[r].table = run[r].table
        /\ run'[r].left = run[r].left \ {k} /\ run[r].at = "sending"
    BY <1>1, <1>7, <2>1 DEF Runs, SendChunk
  <2>3. PICK d \in Day \ {today} : d = run[r].day
    BY <1>3, <2>2
  <2>4. ASSUME run[r].table = "dated", Small(d)'
        PROVE  run[r].left \ {k} = {}
    <3>1. Small(d)
      BY <1>2, <2>3, <2>4
    <3>2. run[r].left = Rows(d)
      BY <1>1, <2>2, <2>3, <2>4, <3>1 DEF DatedRun
    <3>3. QED
      BY <2>3, <3>1, <3>2, RowsFacts
  <2>5. Small(run[r].day)' => Small(d)'
    BY <2>2, <2>3 DEF Small
  <2>6. QED
    BY <2>2, <2>4, <2>5 DEF DatedRun, Small
<1>8. ASSUME NEW c \in Call, NEW ok \in BOOLEAN, call[c].for = r, Answer(c, ok)
      PROVE  DatedRun(r)'
  <2>1. /\ run[r].at = "waiting"
        /\ (\E w \in BOOLEAN : After(run'[r], run[r], w)) \/ Resumed(run'[r], run[r])
    <3>1. run[r].ok \in BOOLEAN
      BY <1>1 DEF Runs
    <3>2. QED
      BY <1>8, <3>1, AnswerFacts
  <2>2. CASE Resumed(run'[r], run[r])
    <3>1. PICK d \in Day \ {today} : d = run[r].day
      BY <1>3, <2>1
    <3>2. run'[r].day = d /\ run'[r].table = run[r].table /\ run[r].left # {}
      BY <2>2, <3>1 DEF Resumed
    <3>3. run[r].table = "dated" => ~Small(d)
      BY <1>1, <2>1, <3>1, <3>2 DEF DatedRun
    <3>4. Small(run[r].day)' => Small(d)
      BY <1>2, <3>1, <3>2 DEF Small
    <3>5. QED
      BY <3>2, <3>3, <3>4 DEF DatedRun, Small
  <2>3. QED
    BY <1>6, <2>1, <2>2
<1>9. ASSUME NEW q \in Runner, RunStep(q) \/ ChunkFails(q) \/ RunDies(q)
      PROVE  DatedRun(r)'
  <2>1. CASE q # r
    <3>1. run'[r] = run[r]
      BY <1>1, <1>9, <2>1 DEF RunStep, StartRun, ChooseDay, SendChunk, CloseRun, ChunkFails, RunDies
    <3>2. QED
      BY <1>4, <3>1
  <2>2. CASE q = r
    <3>1. CASE \E c \in Call : SendChunk(r, c)
      BY <1>7, <3>1
    <3>2. CASE ChunkFails(r)
      BY <1>6, <3>2, ChunkFailsFacts
    <3>3. CASE StartRun(r) \/ CloseRun(r) \/ RunDies(r)
      <4>1. run'[r].at \in {"choosing", "idle"}
        <5>1. CASE StartRun(r)
          BY <1>1, <5>1 DEF StartRun, Asleep
        <5>2. CASE CloseRun(r) \/ RunDies(r)
          BY <1>1, <5>2 DEF CloseRun, RunDies, Asleep
        <5>3. QED
          BY <3>3, <5>1, <5>2
      <4>2. QED
        BY <1>5, <4>1
    <3>4. CASE ChooseDay(r)
      <4>1. run'[r].table = "keyed"
        BY <1>1, <3>4 DEF ChooseDay, Runs
      <4>2. QED
        BY <1>5, <4>1
    <3>5. QED
      BY <1>9, <2>2, <3>1, <3>2, <3>3, <3>4 DEF RunStep
  <2>3. QED
    BY <2>1, <2>2
<1>10. ASSUME NEW c \in Call, CallStep(c) \/ CallDies(c)
       PROVE  DatedRun(r)'
  <2>1. run' = run \/ \E ok \in BOOLEAN : Answer(c, ok)
    BY <1>10 DEF CallStep, UpsertKeyed, DeleteDate, InsertChunk, CallDies
  <2>2. CASE call[c].for = r
    BY <1>4, <1>8, <2>1, <2>2
  <2>3. CASE call[c].for # r
    BY <1>4, <2>1, <2>3, AnswerFacts
  <2>4. QED
    BY <2>2, <2>3
<1>11. QED
  BY <1>4, <1>9, <1>10 DEF Next, Sell, NextDay, SetPaused

\* A day comes to be behind a run when the last of its uploads is answered, and in no
\* other way: a run begins at the watermark, and leaves it where it got to.
LEMMA BehindNext ==
  ASSUME TypeOK, RunInv, CallInv, Next, NEW d \in Day, Behind(d)'
  PROVE  Behind(d) \/ \E c \in Call : InsertChunk(c) /\ call[c].day = d
<1>1. run \in [Runner -> Runs] /\ mark \in 0..LastDay
  BY DEF TypeOK, Runs
<1>2. CASE d <= mark'
  <2>1. mark' = mark \/ \E r \in Runner : CloseRun(r) /\ mark' = run[r].day - 1
    BY DEF Next, Sell, NextDay, SetPaused, RunStep, StartRun, ChooseDay, SendChunk, CloseRun, LastGood,
           ChunkFails, RunDies, CallStep, UpsertKeyed, DeleteDate, InsertChunk, CallDies
  <2>2. ASSUME NEW r \in Runner, CloseRun(r), mark' = run[r].day - 1
        PROVE  Behind(d)
    <3>1. run[r].at = "closing" /\ run[r].day \in Nat
      BY <2>2, RunFacts DEF CloseRun
    <3>2. d < run[r].day
      BY <1>2, <2>2, <3>1, MirrorConstantsOK DEF Day
    <3>3. QED
      BY <3>1, <3>2 DEF Behind
  <2>3. QED
    BY <1>2, <2>1, <2>2 DEF Behind
<1>3. ASSUME NEW r \in Runner, run'[r].at # "idle", d < run'[r].day
      PROVE  Behind(d) \/ \E c \in Call : InsertChunk(c) /\ call[c].day = d
  <2>1. CASE run[r].at # "idle" /\ run'[r].day = run[r].day
    BY <1>3, <2>1 DEF Behind
  <2>2. ASSUME StartRun(r)
        PROVE  Behind(d)
    <3>1. run'[r].day = mark + 1
      BY <1>1, <2>2 DEF StartRun, Asleep
    <3>2. d <= mark
      BY <1>1, <1>3, <3>1, MirrorConstantsOK DEF Day
    <3>3. QED
      BY <3>2 DEF Behind
  <2>3. ASSUME NEW c \in Call, NEW ok \in BOOLEAN, Answer(c, ok), call[c].for = r
        PROVE  (run[r].at # "idle" /\ run'[r].day = run[r].day)
               \/ (call[c].table = "dated" /\ ok /\ (Behind(d) \/ d = call[c].day))
    <3>1. /\ run[r].at = "waiting" /\ run[r].day = call[c].day /\ run[r].table = call[c].table
          /\ ok => After(run'[r], run[r], run[r].ok) \/ Resumed(run'[r], run[r])
          /\ ~ok => After(run'[r], run[r], FALSE)
      BY <2>3, AnswerFacts
    <3>2. \/ run'[r].day = run[r].day
          \/ ok /\ run[r].table = "dated" /\ run'[r].day = run[r].day + 1
      BY <3>1 DEF After, Resumed
    <3>3. run'[r].day = run[r].day + 1 => d < run[r].day \/ d = run[r].day
      BY <1>3, <3>1, RunFacts, MirrorConstantsOK DEF Day
    <3>4. QED
      BY <3>1, <3>2, <3>3 DEF Behind
  <2>4. ASSUME NEW c \in Call, call[c].for # r, CallStep(c) \/ CallDies(c)
        PROVE  run'[r] = run[r]
    <3>1. run' = run \/ \E ok \in BOOLEAN : Answer(c, ok)
      BY <2>4 DEF CallStep, UpsertKeyed, DeleteDate, InsertChunk, CallDies
    <3>2. QED
      BY <2>4, <3>1, AnswerFacts
  <2>5. ASSUME NEW c \in Call, call[c].for = r, CallStep(c) \/ CallDies(c)
        PROVE  Behind(d) \/ (InsertChunk(c) /\ call[c].day = d)
    <3>1. CASE DeleteDate(c)
      BY <1>3, <3>1 DEF DeleteDate, Behind
    <3>2. CASE UpsertKeyed(c)
      BY <1>3, <2>3, <2>5, <3>2 DEF UpsertKeyed, Behind
    <3>3. CASE CallDies(c)
      BY <1>3, <2>3, <2>5, <3>3 DEF CallDies, Behind
    <3>4. CASE InsertChunk(c)
      BY <1>3, <2>3, <2>5, <3>4 DEF InsertChunk, Behind
    <3>5. QED
      BY <2>5, <3>1, <3>2, <3>3, <3>4 DEF CallStep
  <2>6. ASSUME NEW q \in Runner, RunStep(q) \/ ChunkFails(q) \/ RunDies(q)
        PROVE  Behind(d)
    <3>1. CASE q # r
      <4>1. run'[r] = run[r]
        BY <1>1, <2>6, <3>1 DEF RunStep, StartRun, ChooseDay, SendChunk, CloseRun, ChunkFails, RunDies
      <4>2. QED
        BY <1>3, <4>1 DEF Behind
    <3>2. CASE q = r /\ (CloseRun(r) \/ RunDies(r))
      BY <1>1, <1>3, <3>2 DEF CloseRun, RunDies, Asleep
    <3>3. CASE q = r /\ ChunkFails(r)
      <4>1. After(run'[r], run[r], FALSE)
        BY <3>3, ChunkFailsFacts
      <4>2. run'[r].day = run[r].day
        BY <4>1 DEF After
      <4>3. QED
        BY <1>3, <3>3, <4>2 DEF ChunkFails, Behind
    <3>4. CASE q = r /\ (ChooseDay(r) \/ \E c \in Call : SendChunk(r, c))
      <4>1. run[r].at # "idle" /\ run'[r].day = run[r].day
        <5>1. CASE ChooseDay(r)
          BY <1>1, <5>1 DEF ChooseDay, Runs
        <5>2. ASSUME NEW c \in Call, SendChunk(r, c)
              PROVE  run[r].at # "idle" /\ run'[r].day = run[r].day
          <6>1. PICK k : run' = [run EXCEPT ![r] = [run[r] EXCEPT !.at = "waiting", !.left = run[r].left \ {k}]]
            BY <5>2, SentFacts
          <6>2. QED
            BY <1>1, <5>2, <6>1 DEF SendChunk, Runs
        <5>3. QED
          BY <3>4, <5>1, <5>2
      <4>2. QED
        BY <2>1, <4>1, <1>3 DEF Behind
    <3>5. QED
      BY <2>2, <2>6, <3>1, <3>2, <3>3, <3>4 DEF RunStep
  <2>7. CASE run' = run
    BY <1>3, <2>7 DEF Behind
  <2>8. QED
    BY <1>3, <2>4, <2>5, <2>6, <2>7 DEF Next, Sell, NextDay, SetPaused, Behind
<1>4. QED
  BY <1>2, <1>3 DEF Behind

\* Whatever leaves the table and its uploads of a day alone leaves what is claimed of them.
LEMMA DatedDayKept ==
  ASSUME NEW d, DatedDay(d), sold'[d] = sold[d], copy'["dated"][d] = copy["dated"][d],
         Behind(d)' => Behind(d),
         \A c \in Uploading(d)' : /\ c \in Uploading(d) /\ call'[c].rows = call[c].rows
                                  /\ call'[c].at = "deleted" => call[c].at = "deleted"
  PROVE  DatedDay(d)'
<1>1. Behind(d)' => Exact("dated", d)' /\ Uploading(d)' = {}
  BY DEF DatedDay, Exact
<1>2. \A b, c \in Uploading(d)' : b = c
  BY DEF DatedDay
<1>3. \A c \in Uploading(d)' : /\ call'[c].rows = sold'[d]
                               /\ call'[c].at = "deleted" => \A k \in Chunk : copy'["dated"][d][k] = 0
  BY DEF DatedDay
<1>4. QED
  BY <1>1, <1>2, <1>3 DEF DatedDay

\* An upload that nothing else can meet is of all there is, and alone.
LEMMA DatedDaySent ==
  ASSUME TypeOK, RunInv, CallInv, DatedInv, Next,
         NEW r \in Runner, NEW c \in Call, SendChunk(r, c), run[r].table = "dated",
         NEW d \in Day, run[r].day = d, d \notin exposed', Small(d)
  PROVE  DatedDay(d)'
<1>1. run \in [Runner -> Runs] /\ call \in [Call -> Calls] /\ DatedRun(r) /\ mark \in 0..LastDay
  BY DatedParts DEF TypeOK, Runs, Calls
<1>2. PICK k \in run[r].left :
        /\ run' = [run EXCEPT ![r] = [run[r] EXCEPT !.at = "waiting", !.left = run[r].left \ {k}]]
        /\ call' = [call EXCEPT ![c] = [at |-> "received", table |-> run[r].table, day |-> run[r].day,
                                        rows |-> {k} \ {0}, for |-> r]]
  BY SentFacts
<1>3. /\ run[r].at = "sending" /\ UNCHANGED <<sold, copy, mark>>
      /\ exposed' = IF run[r].table = "dated"
                       /\ (InHand(run[r].day) \/ Shared(r, run[r].day) \/ run[r].day <= mark)
                    THEN exposed \cup {run[r].day} ELSE exposed
  BY DEF SendChunk
<1>4. ~InHand(d) /\ ~Shared(r, d) /\ ~(d <= mark)
  BY <1>3
<1>5. /\ call'[c].at = "received" /\ call'[c].table = "dated" /\ call'[c].day = d
      /\ call'[c].rows = {k} \ {0} /\ \A b \in Call \ {c} : call'[b] = call[b]
  BY <1>1, <1>2
<1>6. Uploading(d)' = {c}
  <2>1. \A b \in Call : ~(call[b].at # "free" /\ call[b].table = "dated" /\ call[b].day = d)
    BY <1>4 DEF InHand
  <2>2. QED
    BY <1>5, <2>1 DEF Uploading
<1>7. ~Behind(d)'
  <2>1. run'[r].day = d /\ \A q \in Runner \ {r} : run'[q] = run[q]
    BY <1>1, <1>2 DEF Runs
  <2>2. ASSUME NEW q \in Runner \ {r}, run[q].at # "idle", d < run[q].day
        PROVE  FALSE
    <3>1. run[q].day <= run[q].to + 1 /\ run[q].day \in Nat /\ run[q].to \in Nat
      BY <2>2, RunFacts DEF RunInv
    <3>2. d <= run[q].to
      BY <2>2, <3>1, MirrorConstantsOK DEF Day
    <3>3. QED
      BY <1>4, <2>2, <3>2 DEF Shared
  <2>3. ~(d < d)
    BY MirrorConstantsOK DEF Day
  <2>4. QED
    BY <1>3, <1>4, <2>1, <2>2, <2>3 DEF Behind
<1>8. call'[c].rows = sold'[d]
  <2>1. PICK j \in Chunk \cup {0} : Rows(d) = {j} /\ {j} \ {0} = sold[d]
    BY RowsFacts
  <2>2. run[r].left = Rows(d)
    BY <1>1, <1>3 DEF DatedRun
  <2>3. QED
    BY <1>2, <1>3, <1>5, <2>1, <2>2
<1>9. QED
  BY <1>5, <1>6, <1>7, <1>8 DEF DatedDay

\* The date is emptied, and filled by the same upload.
LEMMA DatedDayUploaded ==
  ASSUME TypeOK, RunInv, CallInv, Next,
         NEW c \in Call, DeleteDate(c) \/ InsertChunk(c), NEW d \in Day, call[c].day = d, DatedDay(d)
  PROVE  DatedDay(d)'
<1>1. /\ call \in [Call -> Calls] /\ copy \in [Table -> [Day -> [Chunk -> 0..2]]]
      /\ sold' = sold /\ "dated" \in Table
  BY DEF TypeOK, Calls, DeleteDate, InsertChunk, Table
<1>2. c \in Uploading(d)
  BY DEF DeleteDate, InsertChunk, Uploading, CallInv
<1>3. \A b \in Uploading(d) : b = c
  BY <1>2 DEF DatedDay
<1>4. ~Behind(d) /\ call[c].rows = sold[d]
  BY <1>2 DEF DatedDay
<1>5. CASE DeleteDate(c)
  <2>1. call' = [call EXCEPT ![c] = [call[c] EXCEPT !.at = "deleted"]]
    BY <1>1, <1>5 DEF DeleteDate
  <2>2. Uploading(d)' \subseteq Uploading(d) /\ call'[c].rows = call[c].rows
    <3>1. /\ call'[c].rows = call[c].rows /\ call'[c].table = call[c].table
          /\ call'[c].day = call[c].day /\ call[c].at # "free"
      BY <1>1, <1>5, <2>1 DEF Calls, DeleteDate
    <3>2. \A b \in Call \ {c} : call'[b] = call[b]
      BY <1>1, <2>1
    <3>3. QED
      BY <3>1, <3>2 DEF Uploading
  <2>3. \A k \in Chunk : copy'["dated"][d][k] = 0
    BY <1>1, <1>5 DEF DeleteDate, Emptied
  <2>4. ~Behind(d)'
    BY <1>4, <1>5 DEF DeleteDate, Behind
  <2>5. \A b \in Uploading(d)' : b = c
    BY <1>3, <2>2
  <2>6. QED
    BY <1>1, <1>4, <2>2, <2>3, <2>4, <2>5 DEF DatedDay
<1>6. CASE InsertChunk(c)
  <2>1. call' = [call EXCEPT ![c] = FreeCall] /\ call[c].at = "deleted"
    BY <1>6 DEF InsertChunk
  <2>2. Uploading(d)' = {}
    <3>1. \A b \in Call : b # c => call'[b] = call[b]
      BY <1>1, <2>1
    <3>2. call'[c].at = "free"
      BY <1>1, <2>1 DEF FreeCall
    <3>3. QED
      BY <1>3, <3>1, <3>2 DEF Uploading
  <2>3. \A k \in Chunk : copy["dated"][d][k] = 0
    BY <1>2, <2>1 DEF DatedDay
  <2>4. \A k \in Chunk : copy'["dated"][d][k] = IF k \in call[c].rows THEN Least(2, 0 + 1) ELSE 0
    BY <1>1, <1>6, <2>3 DEF InsertChunk, Inserted
  <2>5. Least(2, 0 + 1) = 1
    BY DEF Least
  <2>6. Exact("dated", d)'
    BY <1>1, <1>4, <2>4, <2>5 DEF Exact
  <2>7. QED
    BY <2>2, <2>6 DEF DatedDay
<1>7. QED
  BY <1>5, <1>6

LEMMA DatedInvNext ==
  ASSUME TypeOK, RunInv, CallInv, DatedInv, Next
  PROVE  DatedInv'
<1>1. /\ run \in [Runner -> Runs] /\ call \in [Call -> Calls] /\ mark \in 0..LastDay /\ today \in Day
      /\ copy \in [Table -> [Day -> [Chunk -> 0..2]]] /\ "dated" \in Table /\ "keyed" \in Table
  BY DEF TypeOK, Runs, Calls, Table
<1>2. exposed \subseteq exposed'
  BY DEF Next, Sell, NextDay, SetPaused, RunStep, StartRun, ChooseDay, SendChunk, CloseRun,
         ChunkFails, RunDies, CallStep, UpsertKeyed, DeleteDate, InsertChunk, CallDies
<1>3. ASSUME NEW d \in Day \ exposed', d < today', Small(d)'
      PROVE  DatedDay(d)'
  <2>1. CASE d = today
    <3>1. CASE NextDay
      <4>1. ~Behind(d)'
        <5>1. ~(d <= mark) /\ today \in Nat
          BY <1>1, <2>1, MirrorConstantsOK DEF RunInv, Day
        <5>2. \A r \in Runner : run[r].at # "idle" => ~(d < run[r].day)
          BY <2>1, <5>1, RunFacts DEF RunInv
        <5>3. QED
          BY <3>1, <5>1, <5>2 DEF NextDay, Behind
      <4>2. Uploading(d)' = {}
        BY <2>1, <3>1, <1>1, MirrorConstantsOK DEF NextDay, Uploading, CallInv, Day
      <4>3. QED
        BY <4>1, <4>2 DEF DatedDay
    <3>2. CASE today' = today
      BY <1>1, <1>3, <2>1, <3>2, MirrorConstantsOK DEF Day
    <3>3. QED
      BY <3>1, <3>2
      DEF Next, Sell, SetPaused, RunStep, StartRun, ChooseDay, SendChunk, CloseRun,
          ChunkFails, RunDies, CallStep, UpsertKeyed, DeleteDate, InsertChunk, CallDies
  <2>2. CASE d # today
    <3>1. sold'[d] = sold[d] /\ Small(d) /\ d < today
      <4>1. sold'[d] = sold[d] /\ Small(d) /\ today' \in {today, today + 1}
        BY <1>3, <2>2, PastFacts
      <4>2. QED
        BY <1>1, <1>3, <2>2, <4>1, MirrorConstantsOK DEF Day
    <3>2. DatedDay(d)
      BY <1>2, <1>3, <3>1, DatedParts
    <3>3. ASSUME NEW c \in Call, DeleteDate(c) \/ InsertChunk(c), call[c].day = d
          PROVE  DatedDay(d)'
      BY <3>2, <3>3, DatedDayUploaded
    <3>4. ASSUME NEW r \in Runner, NEW c \in Call, SendChunk(r, c), run[r].table = "dated", run[r].day = d
          PROVE  DatedDay(d)'
      BY <1>3, <3>1, <3>4, DatedDaySent
    <3>5. ASSUME ~ \E c \in Call : (DeleteDate(c) \/ InsertChunk(c)) /\ call[c].day = d,
                 ~ \E r \in Runner, c \in Call :
                     SendChunk(r, c) /\ run[r].table = "dated" /\ run[r].day = d
          PROVE  DatedDay(d)'
      <4>1. Behind(d)' => Behind(d)
        BY <3>5, BehindNext
      <4>2. copy'["dated"][d] = copy["dated"][d]
        <5>1. ASSUME NEW c \in Call, DeleteDate(c) \/ InsertChunk(c)
              PROVE  copy'["dated"][d] = copy["dated"][d]
          <6>1. call[c].day \in Day /\ call[c].day # d
            BY <1>1, <3>5, <5>1 DEF Calls
          <6>2. QED
            <7>1. CASE DeleteDate(c)
              BY <1>1, <6>1, <7>1 DEF DeleteDate, Emptied
            <7>2. CASE InsertChunk(c)
              BY <1>1, <6>1, <7>2 DEF InsertChunk, Inserted
            <7>3. QED
              BY <5>1, <7>1, <7>2
        <5>2. ASSUME NEW c \in Call, UpsertKeyed(c)
              PROVE  copy'["dated"] = copy["dated"]
          BY <1>1, <5>2 DEF UpsertKeyed, Upserted
        <5>3. QED
          BY <5>1, <5>2 DEF Next, Sell, NextDay, SetPaused, RunStep, StartRun, ChooseDay, SendChunk,
                            CloseRun, ChunkFails, RunDies, CallStep, CallDies
      <4>3. ASSUME NEW b \in Uploading(d)'
            PROVE  /\ b \in Uploading(d) /\ call'[b].rows = call[b].rows
                   /\ call'[b].at = "deleted" => call[b].at = "deleted"
        <5>1. b \in Call /\ call'[b].at # "free" /\ call'[b].table = "dated" /\ call'[b].day = d
          BY DEF Uploading
        <5>2. CASE call'[b] = call[b]
          BY <5>1, <5>2 DEF Uploading
        <5>3. ASSUME NEW r \in Runner, NEW c \in Call, SendChunk(r, c)
              PROVE  call'[b] = call[b]
          <6>1. PICK k \in run[r].left :
                  call' = [call EXCEPT ![c] = [at |-> "received", table |-> run[r].table, day |-> run[r].day,
                                               rows |-> {k} \ {0}, for |-> r]]
            BY <5>3, SentFacts
          <6>2. CASE b = c
            <7>1. call'[b].table = run[r].table /\ call'[b].day = run[r].day
              BY <1>1, <5>1, <6>1, <6>2
            <7>2. QED
              BY <3>5, <5>1, <5>3, <7>1
          <6>3. CASE b # c
            BY <1>1, <5>1, <6>1, <6>3
          <6>4. QED
            BY <6>2, <6>3
        <5>4. ASSUME NEW r \in Runner, ChunkFails(r) \/ RunDies(r)
              PROVE  /\ call'[b].at = call[b].at /\ call'[b].table = call[b].table
                     /\ call'[b].day = call[b].day /\ call'[b].rows = call[b].rows
          <6>1. call'[b] = IF call[b].for = r THEN [call[b] EXCEPT !.for = Nobody] ELSE call[b]
            BY <5>1, <5>4 DEF ChunkFails, RunDies
          <6>2. call[b] \in Calls
            BY <1>1, <5>1
          <6>3. QED
            BY <6>1, <6>2 DEF Calls
        <5>5. ASSUME NEW c \in Call, UpsertKeyed(c) \/ InsertChunk(c) \/ CallDies(c)
              PROVE  call'[b] = call[b]
          <6>1. call' = [call EXCEPT ![c] = FreeCall]
            BY <5>5 DEF UpsertKeyed, InsertChunk, CallDies
          <6>2. QED
            BY <1>1, <5>1, <6>1 DEF FreeCall
        <5>6. ASSUME NEW c \in Call, DeleteDate(c)
              PROVE  call'[b] = call[b]
          <6>1. call' = [call EXCEPT ![c] = [call[c] EXCEPT !.at = "deleted"]] /\ call[c].day # d
            BY <1>1, <3>5, <5>6 DEF DeleteDate
          <6>2. QED
            BY <1>1, <5>1, <6>1 DEF Calls
        <5>7. ASSUME UNCHANGED call
              PROVE  call'[b] = call[b]
          BY <5>7
        <5>8. QED
          BY <5>1, <5>2, <5>3, <5>4, <5>5, <5>6, <5>7
          DEF Next, Sell, NextDay, SetPaused, RunStep, StartRun, ChooseDay, CloseRun, CallStep, Uploading
      <4>4. QED
        BY <3>1, <3>2, <4>1, <4>2, <4>3, DatedDayKept
    <3>6. QED
      BY <3>3, <3>4, <3>5
  <2>3. QED
    BY <2>1, <2>2
<1>4. \A r \in Runner : DatedRun(r)'
  BY DatedRunNext
<1>5. QED
  BY <1>3, <1>4 DEF DatedInv, DatedDay, DatedRun

-----------------------------------------------------------------------------
(* The theorems.                                                           *)

LEMMA MirrorInvInit == Init => MirrorInv
<1> SUFFICES ASSUME Init
             PROVE  MirrorInv
  OBVIOUS
<1>1. /\ Nobody \notin Runner /\ mark = 0 /\ today = 1
      /\ \A r \in Runner : run[r] = Asleep
      /\ \A c \in Call : call[c] = FreeCall
      /\ \A d \in Day : sold[d] = {}
      /\ \A d \in Day, k \in Chunk : copy["keyed"][d][k] = 0
  BY MirrorConstantsOK DEF Init, Table
<1>2. \A d \in Day : ~(d <= mark) /\ ~(d < today)
  BY <1>1, MirrorConstantsOK DEF Day
<1>3. RunInv
  BY <1>1 DEF RunInv, Asleep
<1>4. CallInv
  BY <1>1 DEF CallInv, FreeCall
<1>5. KeyedInv
  BY <1>1, <1>2 DEF KeyedInv, KeyedComplete, Copied, Asleep
<1>6. DatedInv
  BY <1>1, <1>2 DEF DatedInv, Asleep
<1>7. QED
  BY <1>3, <1>4, <1>5, <1>6 DEF MirrorInv

LEMMA MirrorInvNext ==
  ASSUME TypeOK, MirrorInv, [Next]_vars
  PROVE  TypeOK' /\ MirrorInv'
<1>1. CASE Next
  BY <1>1, TypeNext, RunInvNext, CallInvNext, KeyedInvNext, DatedInvNext DEF MirrorInv
<1>2. CASE UNCHANGED vars
  <2>1. TypeOK'
    BY <1>2 DEF TypeOK, vars
  <2>2. RunInv' /\ CallInv'
    BY <1>2 DEF MirrorInv, RunInv, CallInv, Rows, vars
  <2>3. KeyedInv'
    BY <1>2 DEF MirrorInv, KeyedInv, KeyedComplete, Exact, Copied, OnItsWay, vars
  <2>4. DatedInv'
    BY <1>2 DEF MirrorInv, DatedInv, Small, Uploading, Behind, Exact, Rows, vars
  <2>5. QED
    BY <2>1, <2>2, <2>3, <2>4 DEF MirrorInv
<1>3. QED
  BY <1>1, <1>2

LEMMA Inductive == Spec => [](TypeOK /\ MirrorInv)
<1>1. Init => TypeOK /\ MirrorInv
  BY TypeInit, MirrorInvInit
<1>2. TypeOK /\ MirrorInv /\ [Next]_vars => (TypeOK /\ MirrorInv)'
  BY MirrorInvNext
<1>3. QED
  BY <1>1, <1>2, PTL DEF Spec

\* Every runner, every request and every row of the mirror stays within its type: a
\* run never goes past the day after its plan, nor a row past the count of two.
THEOREM TypeCorrect == Spec => []TypeOK
  BY Inductive, PTL

\* A table with a key is complete below the watermark, whatever is lost, late, paused
\* or run twice over: no run moves the watermark past a day one of its uploads of
\* which was not answered, and none takes a row away again.
THEOREM CompleteBelowMark == Spec => []KeyedComplete
<1>1. MirrorInv => KeyedComplete
  BY DEF MirrorInv, KeyedInv
<1>2. QED
  BY <1>1, Inductive, PTL

\* A table without a key is exact below the watermark on every day that was never in
\* two hands and fits one upload: the delete and the insert of one upload are two
\* statements, but nothing comes between them unless the day was exposed.
THEOREM ExactUnlessExposed == Spec => []DatedExactUnlessExposed
<1>1. TypeOK /\ MirrorInv => DatedExactUnlessExposed
  <2> SUFFICES ASSUME TypeOK, MirrorInv, NEW d \in Day, d <= mark, d \notin exposed,
                      Cardinality(sold[d]) <= 1
               PROVE  Exact("dated", d)
    BY DEF DatedExactUnlessExposed
  <2>1. d < today
    BY MirrorConstantsOK DEF MirrorInv, RunInv, TypeOK, Day
  <2>2. QED
    BY <2>1 DEF MirrorInv, DatedInv, Small, Behind
<1>2. QED
  BY <1>1, Inductive, PTL
=============================================================================
