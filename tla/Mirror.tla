------------------------------- MODULE Mirror -------------------------------
(***************************************************************************)
(* The history mirror.  Day by day the shop's MySQL is copied into mirror  *)
(* tables in Postgres, and a watermark says how far.  Two programs do it:  *)
(* the agent when the dashboard asks (runDailyMirrorBatch in               *)
(* bridge/pusher.js) and a nightly task (bridge/daily-mirror.js).  They    *)
(* upload chunk by chunk to POST /sync/mirror/rows, which upserts the      *)
(* tables that have a key and, for those that have none, deletes the date  *)
(* and inserts the chunk, in two statements.                               *)
(* A table of a date is the set of chunks it is uploaded in.               *)
(***************************************************************************)
EXTENDS Naturals, FiniteSets

CONSTANTS
  Runner,      \* the programs that mirror
  Pausable,    \* those that look at the pause flag: the agent
  Call,        \* requests to /sync/mirror/rows in hand at once
  Nobody,
  Chunk,       \* the chunks a table of one day can come to: 1..n
  Busy,        \* the days that sell more than one chunk's worth of rows
  Span,        \* days per run (60 in the code)
  PauseEvery,  \* days between looks at the pause flag (3 in the code)
  LastDay,     \* bound: the last day of a behaviour
  MaxFault     \* bound: lost requests and answers, failed statements, crashes

Table == {"keyed", "dated"}
Day   == 1..LastDay

ASSUME MirrorConstantsOK ==
  /\ Pausable \subseteq Runner /\ Nobody \notin Runner
  /\ {Span, PauseEvery} \subseteq Nat \ {0}
  /\ Chunk \subseteq Nat \ {0} /\ IsFiniteSet(Chunk) /\ Busy \subseteq Nat
  /\ LastDay \in Nat \ {0} /\ MaxFault \in Nat

VARIABLES
  today,
  sold,      \* sold[d]: the chunks of rows MySQL has for day d
  copy,      \* copy[t][d]: how often each chunk is in the mirror table
  mark,      \* the watermark, 0 before the first run
  paused,
  run,       \* run[r]: where a runner stands
  call,      \* call[c]: where a POST /sync/mirror/rows handler stands
  exposed,   \* history: days uploaded by two at once, or again behind a watermark
  faults

vars == <<today, sold, copy, mark, paused, run, call, exposed, faults>>

Asleep   == [at |-> "idle", from |-> 0, to |-> 0, day |-> 0, table |-> "keyed",
             left |-> {}, ok |-> TRUE]
FreeCall == [at |-> "free", table |-> "keyed", day |-> 1, rows |-> {}, for |-> Nobody]

TypeOK ==
  /\ today \in Day
  /\ sold \in [Day -> SUBSET Chunk]
  /\ copy \in [Table -> [Day -> [Chunk -> 0..2]]]
  /\ mark \in 0..LastDay
  /\ paused \in BOOLEAN
  /\ run \in [Runner -> [at : {"idle", "choosing", "sending", "waiting", "closing"},
                         from : 0..LastDay, to : 0..LastDay, day : 0..LastDay + 1,
                         table : Table, left : SUBSET (Chunk \cup {0}), ok : BOOLEAN]]
  /\ call \in [Call -> [at : {"free", "received", "deleted"}, table : Table, day : Day,
                        rows : SUBSET Chunk, for : Runner \cup {Nobody}]]
  /\ exposed \subseteq Day
  /\ faults \in 0..MaxFault

Init ==
  /\ today = 1
  /\ sold = [d \in Day |-> {}]
  /\ copy = [t \in Table |-> [d \in Day |-> [c \in Chunk |-> 0]]]
  /\ mark = 0 /\ paused = FALSE
  /\ run = [r \in Runner |-> Asleep]
  /\ call = [c \in Call |-> FreeCall]
  /\ exposed = {} /\ faults = 0

Fault == faults < MaxFault /\ faults' = faults + 1

-----------------------------------------------------------------------------
\* Rows fill up one chunk after the other.  Bound: not on the last day, which no
\* run gets to.
Sell(c) ==
  /\ today < LastDay
  /\ c = Cardinality(sold[today]) + 1
  /\ c = 1 \/ today \in Busy
  /\ sold' = [sold EXCEPT ![today] = @ \cup {c}]
  /\ UNCHANGED <<today, copy, mark, paused, run, call, exposed, faults>>

NextDay ==
  /\ today < LastDay
  /\ today' = today + 1
  /\ UNCHANGED <<sold, copy, mark, paused, run, call, exposed, faults>>

\* The pause and resume buttons of the History page.
SetPaused(b) ==
  /\ paused # b
  /\ paused' = b
  /\ UNCHANGED <<today, sold, copy, mark, run, call, exposed, faults>>

-----------------------------------------------------------------------------
(* A runner.                                                               *)

Least(a, b) == IF a < b THEN a ELSE b

\* Slip: today is mirrored as well, while it is still changing.
mut_LastDue == today
LastDue == today - 1

\* Read the watermark and plan the days after it, up to yesterday.
StartRun(r) ==
  /\ run[r].at = "idle"
  /\ ~ (r \in Pausable /\ paused)
  /\ mark < LastDue
  /\ run' = [run EXCEPT ![r] = [Asleep EXCEPT !.at = "choosing", !.from = mark,
                                !.to = Least(LastDue, mark + Span), !.day = mark + 1]]
  /\ UNCHANGED <<today, sold, copy, mark, paused, call, exposed, faults>>

\* A table is uploaded in chunks; an empty one as a single empty chunk, 0.
Rows(d) == IF sold[d] = {} THEN {0} ELSE sold[d]

Finished(r) == run[r].day > run[r].to
LooksAtFlag(r) ==
  /\ r \in Pausable
  /\ run[r].day > run[r].from + 1
  /\ (run[r].day - run[r].from - 1) % PauseEvery = 0

ChooseDay(r) ==
  /\ run[r].at = "choosing"
  /\ run' = [run EXCEPT ![r].at =
                IF Finished(r) \/ (LooksAtFlag(r) /\ paused) THEN "closing" ELSE "sending",
              ![r].table = "keyed",
              ![r].left = IF Finished(r) THEN {} ELSE Rows(run[r].day)]
  /\ UNCHANGED <<today, sold, copy, mark, paused, call, exposed, faults>>

\* The next table of the day, the next day, or the end at a day that failed.
\* Slip: the days go on after one that failed.
mut_AfterTable(w) ==
  CASE w.table = "keyed" -> [w EXCEPT !.at = "sending", !.table = "dated", !.left = Rows(w.day)]
    [] OTHER -> [w EXCEPT !.at = "choosing", !.day = w.day + 1, !.left = {}]

AfterTable(w) ==
  CASE w.table = "keyed" -> [w EXCEPT !.at = "sending", !.table = "dated", !.left = Rows(w.day)]
    [] w.table = "dated" /\ w.ok -> [w EXCEPT !.at = "choosing", !.day = w.day + 1, !.left = {}]
    [] OTHER -> [w EXCEPT !.at = "closing", !.left = {}]

Answered(w) == IF w.left = {} THEN AfterTable(w) ELSE [w EXCEPT !.at = "sending"]
Refused(w)  == AfterTable([w EXCEPT !.ok = FALSE])

InHand(d) == \E c \in Call : call[c].at # "free" /\ call[c].table = "dated" /\ call[c].day = d

\* Another run under way has the day in its plan, or takes it for done.
Shared(r, d) == \E q \in Runner \ {r} : run[q].at # "idle" /\ d <= run[q].to

SendChunk(r, c) ==
  /\ run[r].at = "sending"
  /\ call[c].at = "free"
  /\ LET w == run[r]
         k == CHOOSE x \in w.left : \A y \in w.left : x <= y IN
       /\ run' = [run EXCEPT ![r] = [w EXCEPT !.at = "waiting", !.left = @ \ {k}]]
       /\ call' = [call EXCEPT ![c] = [at |-> "received", table |-> w.table, day |-> w.day,
                                       rows |-> {k} \ {0}, for |-> r]]
       /\ exposed' = IF w.table = "dated" /\ (InHand(w.day) \/ Shared(r, w.day) \/ w.day <= mark)
                     THEN exposed \cup {w.day} ELSE exposed
  /\ UNCHANGED <<today, sold, copy, mark, paused, faults>>

\* The request is lost, or not answered in time: the runner counts the day as
\* failed, and a request that did arrive is still being worked through.
ChunkFails(r) ==
  /\ run[r].at \in {"sending", "waiting"} /\ Fault
  /\ run' = [run EXCEPT ![r] = Refused(@)]
  /\ call' = [c \in Call |-> IF call[c].for = r THEN [call[c] EXCEPT !.for = Nobody] ELSE call[c]]
  /\ UNCHANGED <<today, sold, copy, mark, paused, exposed>>

\* Advance the watermark to the last day that went well.
LastGood(r) == run[r].day - 1

\* Slip: the watermark is set to the end of the plan.
mut_CloseRun(r) ==
  /\ run[r].at = "closing"
  /\ mark' = run[r].to
  /\ run' = [run EXCEPT ![r] = Asleep]
  /\ UNCHANGED <<today, sold, copy, paused, call, exposed, faults>>

CloseRun(r) ==
  /\ run[r].at = "closing"
  /\ mark' = IF LastGood(r) > run[r].from THEN LastGood(r) ELSE mark
  /\ run' = [run EXCEPT ![r] = Asleep]
  /\ UNCHANGED <<today, sold, copy, paused, call, exposed, faults>>

RunDies(r) ==
  /\ run[r].at # "idle" /\ Fault
  /\ run' = [run EXCEPT ![r] = Asleep]
  /\ call' = [c \in Call |-> IF call[c].for = r THEN [call[c] EXCEPT !.for = Nobody] ELSE call[c]]
  /\ UNCHANGED <<today, sold, copy, mark, paused, exposed>>

RunStep(r) == StartRun(r) \/ ChooseDay(r) \/ CloseRun(r) \/ \E c \in Call : SendChunk(r, c)

-----------------------------------------------------------------------------
(* POST /sync/mirror/rows.                                                 *)

Answer(c, ok) ==
  run' = [r \in Runner |-> IF call[c].for # r THEN run[r]
                           ELSE IF ok THEN Answered(run[r]) ELSE Refused(run[r])]

Emptied(day)     == [copy EXCEPT !["dated"][day] = [k \in Chunk |-> 0]]
Inserted(q)      == [copy EXCEPT !["dated"][q.day] =
                       [k \in Chunk |-> IF k \in q.rows THEN Least(2, @[k] + 1) ELSE @[k]]]

Upserted(q)      == [copy EXCEPT !["keyed"][q.day] =
                       [k \in Chunk |-> IF k \in q.rows THEN 1 ELSE @[k]]]

UpsertKeyed(c) ==
  /\ call[c].at = "received" /\ call[c].table = "keyed"
  /\ copy' = Upserted(call[c])
  /\ Answer(c, TRUE)
  /\ call' = [call EXCEPT ![c] = FreeCall]
  /\ UNCHANGED <<today, sold, mark, paused, exposed, faults>>

\* Slip: an empty table is answered without clearing the date, and a full one
\* is added to what is there.
mut_DeleteDate(c) ==
  /\ call[c].at = "received" /\ call[c].table = "dated"
  /\ call' = [call EXCEPT ![c].at = "deleted"]
  /\ UNCHANGED <<today, sold, copy, mark, paused, run, exposed, faults>>

DeleteDate(c) ==
  /\ call[c].at = "received" /\ call[c].table = "dated"
  /\ copy' = Emptied(call[c].day)
  /\ call' = [call EXCEPT ![c].at = "deleted"]
  /\ UNCHANGED <<today, sold, mark, paused, run, exposed, faults>>

InsertChunk(c) ==
  /\ call[c].at = "deleted"
  /\ copy' = Inserted(call[c])
  /\ Answer(c, TRUE)
  /\ call' = [call EXCEPT ![c] = FreeCall]
  /\ UNCHANGED <<today, sold, mark, paused, exposed, faults>>

\* A statement fails, which is answered 500; what was deleted stays deleted.
CallDies(c) ==
  /\ call[c].at # "free" /\ Fault
  /\ Answer(c, FALSE)
  /\ call' = [call EXCEPT ![c] = FreeCall]
  /\ UNCHANGED <<today, sold, copy, mark, paused, exposed>>

CallStep(c) == UpsertKeyed(c) \/ DeleteDate(c) \/ InsertChunk(c)

-----------------------------------------------------------------------------
Next ==
  \/ \E c \in Chunk : Sell(c)
  \/ NextDay
  \/ \E b \in BOOLEAN : SetPaused(b)
  \/ \E r \in Runner : RunStep(r) \/ ChunkFails(r) \/ RunDies(r)
  \/ \E c \in Call : CallStep(c) \/ CallDies(c)

Spec == Init /\ [][Next]_vars

\* The nightly task comes round every evening, the dashboard's button gets
\* pressed; handlers run to their end.
Fairness ==
  /\ \A r \in Runner : WF_vars(RunStep(r))
  /\ \A c \in Call : WF_vars(CallStep(c))

FairSpec == Spec /\ Fairness

-----------------------------------------------------------------------------
\* What is in a mirror table of a day is what the shop sold that day, each row
\* once.
Exact(t, d) == \A k \in Chunk : copy[t][d][k] = IF k \in sold[d] THEN 1 ELSE 0

\* A table with a key is complete below the watermark, whatever was lost, late,
\* repeated, paused or run twice over: upserts are safe to repeat.
KeyedComplete == \A d \in Day : d <= mark => Exact("keyed", d)

\* A table without a key is exact below the watermark on every day that two
\* uploads never had in hand at once, that was not uploaded again behind the
\* watermark or behind the one a run still under way began with, for that run may
\* put it back; and whose rows fit one upload (500 in the code), for every further
\* chunk deletes the one before.
DatedExactUnlessExposed ==
  \A d \in Day : d <= mark /\ d \notin exposed /\ Cardinality(sold[d]) <= 1 => Exact("dated", d)

\* Once the days stop and nothing more is lost, the watermark reaches yesterday
\* although it may have been set back, or the agent paused, meanwhile.
CatchesUp == <>[](mark = today - 1)

-----------------------------------------------------------------------------
\* The inductive strengthening of the two.  A run stays behind today, where nothing is
\* sold any more, and one request at most is the one a run waits for.
RunInv ==
  /\ mark < today
  /\ \A r \in Runner : run[r].at # "idle" =>
       /\ run[r].from < run[r].day /\ run[r].day <= run[r].to + 1 /\ run[r].to < today
       /\ run[r].at \in {"sending", "waiting"} => run[r].day <= run[r].to /\ run[r].left \subseteq Rows(run[r].day)
       /\ run[r].at = "sending" => run[r].left # {}
CallInv ==
  /\ \A c \in Call : call[c].at # "free" => call[c].day < today /\ call[c].rows \subseteq sold[call[c].day]
  /\ \A c \in Call, r \in Runner : call[c].for = r =>
       /\ call[c].at # "free" /\ run[r].at = "waiting"
       /\ run[r].day = call[c].day /\ run[r].table = call[c].table
  /\ \A b, c \in Call : call[b].for = call[c].for /\ call[c].for \in Runner => b = c
  /\ \A c \in Call : call[c].at = "deleted" => call[c].table = "dated"

\* A day that a run has behind it is complete, and a day it is at so far as it has come.
Copied(d, k)   == copy["keyed"][d][k] = 1
OnItsWay(r, k) == \E c \in Call : call[c].for = r /\ k \in call[c].rows
KeyedInv ==
  /\ \A d \in Day, k \in Chunk : copy["keyed"][d][k] \in {0, 1} /\ (Copied(d, k) => k \in sold[d])
  /\ KeyedComplete
  /\ \A r \in Runner : run[r].at # "idle" =>
       /\ \A d \in Day : d < run[r].day => Exact("keyed", d)
       /\ run[r].at \in {"sending", "waiting"} =>
            IF run[r].table = "dated" THEN run[r].ok => Exact("keyed", run[r].day)
            ELSE \A k \in sold[run[r].day] \ run[r].left : Copied(run[r].day, k) \/ OnItsWay(r, k)

\* One upload at most, and of all there is, has in hand a day that is not exposed; and
\* none, once the day is behind the watermark or a run.
Small(d)     == Cardinality(sold[d]) <= 1
Uploading(d) == {c \in Call : call[c].at # "free" /\ call[c].table = "dated" /\ call[c].day = d}
Behind(d)    == d <= mark \/ \E r \in Runner : run[r].at # "idle" /\ d < run[r].day
DatedInv ==
  /\ \A d \in Day \ exposed : d < today /\ Small(d) =>
       /\ Behind(d) => Exact("dated", d) /\ Uploading(d) = {}
       /\ \A b, c \in Uploading(d) : b = c
       /\ \A c \in Uploading(d) : /\ call[c].rows = sold[d]
                                  /\ call[c].at = "deleted" => \A k \in Chunk : copy["dated"][d][k] = 0
  /\ \A r \in Runner : run[r].table = "dated" /\ Small(run[r].day) =>
       /\ run[r].at = "sending" => run[r].left = Rows(run[r].day)
       /\ run[r].at = "waiting" => run[r].left = {}

MirrorInv == RunInv /\ CallInv /\ KeyedInv /\ DatedInv
=============================================================================
