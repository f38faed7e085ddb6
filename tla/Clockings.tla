------------------------------ MODULE Clockings ------------------------------
(***************************************************************************)
(* One member of staff clocking in and out.  The shop's tablet posts a name*)
(* and a PIN (dashboard/clock); POST /clockings claims a try, compares the *)
(* PIN and turns the shift over (routes/clockings.ts), awaiting between its*)
(* statements, so that presses overlap; the admin issues PINs (auth.ts);   *)
(* and runs of the sync agent copy the shifts into the shop's own database *)
(* (pullClockings in bridge/pusher.js), a window at a time.                *)
(***************************************************************************)
EXTENDS Integers, FiniteSets

CONSTANTS
  Press,      \* requests in hand at once
  Agent,      \* runs of the sync agent at once
  Nobody,
  MaxFails,   \* wrong PINs before the name is locked (5 in the code)
  MaxWant,    \* bound: how often the person means to clock in or out
  MaxGuess,   \* bound: presses with a wrong PIN
  MaxIssue,   \* bound: PINs issued
  MaxFault    \* bound: lost requests and answers, failed statements, crashes

ASSUME ClockingConstantsOK ==
  /\ Nobody \notin Press
  /\ MaxFails \in Nat \ {0}
  /\ {MaxWant, MaxGuess, MaxIssue, MaxFault} \subseteq Nat

Shift == 1..(MaxWant + MaxFault)
None  == 0

VARIABLES
  pins,     \* PINs issued so far; none, and nobody can press for this name
  fails,    \* clockPinFails
  lock,     \* clockPinLockedUntil, in quarters of an hour
  clock,    \* quarters of an hour gone by while the name was locked
  shifts,   \* how many Clocking rows there are
  open,     \* those without a timeOut
  press,    \* press[p]: where a request handler stands
  mine,     \* the request the tablet is waiting for
  want,     \* what the person is at the tablet for
  wants, guesses, faults,
  compared, \* history: PINs compared and found wrong
  resets,   \* history: how often a count of tries was cleared
  aged,     \* shifts older than the ordinary window
  copy,     \* staff_clockings in the shop
  pull      \* pull[a]: the export a run of the agent holds

pinVars   == <<pins, fails, lock, clock, compared, resets>>
shiftVars == <<shifts, open>>
tabletVars == <<mine, want, wants>>
shopVars  == <<aged, copy, pull>>
vars == <<pinVars, shiftVars, press, tabletVars, guesses, faults, shopVars>>

Row      == {"none", "in", "out"}
Rows     == [Shift -> Row]
IdlePress == [at |-> "idle", right |-> FALSE, now |-> 0, found |-> None]
IdlePull  == [at |-> "idle", rows |-> [s \in Shift |-> "none"], from |-> 0]

TypeOK ==
  /\ pins \in 0..MaxIssue
  /\ fails \in 0..MaxFails
  /\ {lock, clock, compared, resets} \subseteq Nat
  /\ shifts \in Shift \cup {0} /\ open \subseteq 1..shifts
  /\ press \in [Press -> [at : {"idle", "read", "spent", "right", "passed", "found"},
                          right : BOOLEAN, now : Nat, found : Shift \cup {None}]]
  /\ mine \in Press \cup {Nobody}
  /\ want \in {"nothing", "in", "out"}
  /\ wants \in 0..MaxWant /\ guesses \in 0..MaxGuess /\ faults \in 0..MaxFault
  /\ aged \in 0..shifts
  /\ copy \in Rows
  /\ pull \in [Agent -> [at : {"idle", "fetched", "upserted"}, rows : Rows, from : 0..shifts]]

Init ==
  /\ pins = 0 /\ fails = 0 /\ lock = 0 /\ clock = 0 /\ compared = 0 /\ resets = 0
  /\ shifts = 0 /\ open = {}
  /\ press = [p \in Press |-> IdlePress]
  /\ mine = Nobody /\ want = "nothing" /\ wants = 0
  /\ guesses = 0 /\ faults = 0
  /\ aged = 0 /\ copy = [s \in Shift |-> "none"]
  /\ pull = [a \in Agent |-> IdlePull]

Fault == faults < MaxFault /\ faults' = faults + 1

-----------------------------------------------------------------------------
(* The server.                                                             *)

Reset == fails' = 0 /\ resets' = IF fails = 0 THEN resets ELSE resets + 1

\* A request has read the person's row: there is a PIN and no lock.  What it read
\* it goes on with, the hash and the time included.
Read(p, right) ==
  /\ press[p].at = "idle"
  /\ pins > 0 /\ lock <= clock
  /\ press' = [press EXCEPT ![p] = [IdlePress EXCEPT !.at = "read", !.right = right, !.now = clock]]

\* A try is claimed in the database while there are tries left and no lock, and
\* only then is the PIN compared.
\* Slip: the claim does not look at the tries left.
mut_Claim(p) ==
  /\ press[p].at = "read"
  /\ IF lock <= press[p].now
     THEN /\ fails' = fails + 1
          /\ compared' = IF press[p].right THEN compared ELSE compared + 1
          /\ press' = [press EXCEPT ![p].at = IF press[p].right THEN "right" ELSE "spent"]
     ELSE /\ press' = [press EXCEPT ![p].at = "spent"]
          /\ UNCHANGED <<fails, compared>>
  /\ UNCHANGED <<pins, lock, clock, resets, shiftVars, tabletVars, guesses, faults, shopVars>>

Claim(p) ==
  /\ press[p].at = "read"
  /\ IF fails < MaxFails /\ lock <= press[p].now
     THEN /\ fails' = fails + 1
          /\ compared' = IF press[p].right THEN compared ELSE compared + 1
          /\ press' = [press EXCEPT ![p].at = IF press[p].right THEN "right" ELSE "spent"]
     ELSE /\ press' = [press EXCEPT ![p].at = "spent"]
          /\ UNCHANGED <<fails, compared>>
  /\ UNCHANGED <<pins, lock, clock, resets, shiftVars, tabletVars, guesses, faults, shopVars>>

\* The end of a request: its answer reaches the tablet, if that still waits.
Answered(p) ==
  /\ press' = [press EXCEPT ![p] = IdlePress]
  /\ mine' = IF mine = p THEN Nobody ELSE mine

\* lockIfSpent, and the refusal.
\* Slip: the name is locked the once, and the count left where it is.
mut_Refuse(p) ==
  /\ press[p].at = "spent"
  /\ IF fails >= MaxFails /\ lock = 0
     THEN lock' = press[p].now + 1
     ELSE UNCHANGED lock
  /\ Answered(p)
  /\ UNCHANGED <<pins, fails, clock, compared, resets, shiftVars, want, wants, guesses, faults, shopVars>>

Refuse(p) ==
  /\ press[p].at = "spent"
  /\ IF fails >= MaxFails
     THEN lock' = press[p].now + 1 /\ Reset
     ELSE UNCHANGED <<lock, fails, resets>>
  /\ Answered(p)
  /\ UNCHANGED <<pins, clock, compared, shiftVars, want, wants, guesses, faults, shopVars>>

\* The right PIN clears the count, and whatever lock was set meanwhile.
Clear(p) ==
  /\ press[p].at = "right"
  /\ Reset /\ lock' = 0
  /\ press' = [press EXCEPT ![p].at = "passed"]
  /\ UNCHANGED <<pins, clock, compared, shiftVars, tabletVars, guesses, faults, shopVars>>

Newest(S) == CHOOSE s \in S : \A u \in S : u <= s

FindOpen(p) ==
  /\ press[p].at = "passed"
  /\ press' = [press EXCEPT ![p].at = "found",
                            ![p].found = IF open = {} THEN None ELSE Newest(open)]
  /\ UNCHANGED <<pinVars, shiftVars, tabletVars, guesses, faults, shopVars>>

\* The shift found open is closed; with none a new one is opened.
TurnOver(p) ==
  /\ press[p].at = "found"
  /\ IF press[p].found = None
     THEN shifts' = shifts + 1 /\ open' = open \cup {shifts + 1}
     ELSE open' = open \ {press[p].found} /\ UNCHANGED shifts
  /\ Answered(p)
  /\ UNCHANGED <<pinVars, want, wants, guesses, faults, shopVars>>

\* A statement fails or the server goes down: nothing further of it is done.
PressDies(p) ==
  /\ press[p].at # "idle" /\ Fault
  /\ Answered(p)
  /\ UNCHANGED <<pinVars, shiftVars, want, wants, guesses, shopVars>>

\* A new PIN clears the count and the lock.
IssuePin ==
  /\ pins < MaxIssue
  /\ pins' = pins + 1
  /\ Reset /\ lock' = 0
  /\ UNCHANGED <<clock, compared, shiftVars, press, tabletVars, guesses, faults, shopVars>>

LockPasses ==
  /\ lock > clock
  /\ clock' = clock + 1
  /\ UNCHANGED <<pins, fails, lock, compared, resets, shiftVars, press, tabletVars, guesses, faults, shopVars>>

-----------------------------------------------------------------------------
(* The tablet, and whoever stands before it.                               *)

Board == IF open = {} THEN "out" ELSE "in"

ComeToClock ==
  /\ want = "nothing" /\ wants < MaxWant
  /\ want' = IF Board = "out" THEN "in" ELSE "out"
  /\ wants' = wants + 1
  /\ UNCHANGED <<pinVars, shiftVars, press, mine, guesses, faults, shopVars>>

\* The tablet sends one press at a time, and the person looks at the board before
\* pressing again.
\* Slip: the pad can be pressed again while an answer is awaited.
mut_Tap(p) ==
  /\ want # "nothing" /\ Board # want
  /\ Read(p, TRUE)
  /\ mine' = p
  /\ UNCHANGED <<pinVars, shiftVars, want, wants, guesses, faults, shopVars>>

Tap(p) ==
  /\ want # "nothing" /\ mine = Nobody /\ Board # want
  /\ Read(p, TRUE)
  /\ mine' = p
  /\ UNCHANGED <<pinVars, shiftVars, want, wants, guesses, faults, shopVars>>

\* No answer in fifteen seconds; the server may still be at it.
GiveUp ==
  /\ mine # Nobody /\ Fault
  /\ mine' = Nobody
  /\ UNCHANGED <<pinVars, shiftVars, press, want, wants, guesses, shopVars>>

Leave ==
  /\ want # "nothing" /\ mine = Nobody /\ Board = want
  /\ want' = "nothing"
  /\ UNCHANGED <<pinVars, shiftVars, press, mine, wants, guesses, faults, shopVars>>

\* Somebody else's finger on this name, or the wrong digit.
WrongPin(p) ==
  /\ guesses < MaxGuess
  /\ Read(p, FALSE)
  /\ guesses' = guesses + 1
  /\ UNCHANGED <<pinVars, shiftVars, tabletVars, faults, shopVars>>

-----------------------------------------------------------------------------
(* The copy in the shop.                                                   *)

RowOf(s) == IF s > shifts THEN "none" ELSE IF s \in open THEN "in" ELSE "out"

ShiftAges ==
  /\ aged < shifts
  /\ aged' = aged + 1
  /\ UNCHANGED <<pinVars, shiftVars, press, tabletVars, guesses, faults, copy, pull>>

\* GET /clockings/export: the shifts of the window, three days or sixty.  That
\* two runs of the agent are at it takes a crash of the loop.
Export(a, from) ==
  /\ pull[a].at = "idle"
  /\ pull' = [pull EXCEPT ![a] =
       [at |-> "fetched", rows |-> [s \in Shift |-> IF s > from THEN RowOf(s) ELSE "none"], from |-> from]]
  /\ IF \A b \in Agent : pull[b].at = "idle" THEN UNCHANGED faults ELSE Fault
  /\ UNCHANGED <<pinVars, shiftVars, press, tabletVars, guesses, aged, copy>>

Upsert(a) ==
  /\ pull[a].at = "fetched"
  /\ copy' = [s \in Shift |-> IF pull[a].rows[s] = "none" THEN copy[s] ELSE pull[a].rows[s]]
  /\ pull' = [pull EXCEPT ![a].at = "upserted"]
  /\ UNCHANGED <<pinVars, shiftVars, press, tabletVars, guesses, faults, aged>>

\* What the window has in the shop and not in the export is deleted.
\* Slip: what the shop has outside the window is taken for deleted.
mut_DeleteGone(a) ==
  /\ pull[a].at = "upserted"
  /\ copy' = [s \in Shift |-> IF pull[a].rows[s] = "none" THEN "none" ELSE copy[s]]
  /\ pull' = [pull EXCEPT ![a] = IdlePull]
  /\ UNCHANGED <<pinVars, shiftVars, press, tabletVars, guesses, faults, aged>>

DeleteGone(a) ==
  /\ pull[a].at = "upserted"
  /\ copy' = [s \in Shift |->
       IF s > pull[a].from /\ pull[a].rows[s] = "none" THEN "none" ELSE copy[s]]
  /\ pull' = [pull EXCEPT ![a] = IdlePull]
  /\ UNCHANGED <<pinVars, shiftVars, press, tabletVars, guesses, faults, aged>>

PullFails(a) ==
  /\ pull[a].at # "idle" /\ Fault
  /\ pull' = [pull EXCEPT ![a] = IdlePull]
  /\ UNCHANGED <<pinVars, shiftVars, press, tabletVars, guesses, aged, copy>>

-----------------------------------------------------------------------------
Serve(p) == Claim(p) \/ Refuse(p) \/ Clear(p) \/ FindOpen(p) \/ TurnOver(p)
Pull(a)  == Upsert(a) \/ DeleteGone(a)

Next ==
  \/ IssuePin \/ LockPasses \/ ComeToClock \/ GiveUp \/ Leave \/ ShiftAges
  \/ \E p \in Press : Tap(p) \/ WrongPin(p) \/ Serve(p) \/ PressDies(p)
  \/ \E a \in Agent : Export(a, aged) \/ Export(a, 0) \/ Pull(a) \/ PullFails(a)

Spec == Init /\ [][Next]_vars

\* Requests are served, the person at the tablet goes on trying, an admin issues a
\* missing PIN, and the agent pulls: the long window once in a while.
FairSpec ==
  /\ Spec
  /\ WF_vars(pins = 0 /\ IssuePin) /\ WF_vars(LockPasses) /\ WF_vars(Leave)
  /\ SF_vars(\E p \in Press : Tap(p))
  /\ \A p \in Press : WF_vars(Serve(p))
  /\ \A a \in Agent : WF_vars(Pull(a)) /\ SF_vars(Export(a, 0))

-----------------------------------------------------------------------------
\* However many presses arrive at once, no more than MaxFails wrong PINs are
\* compared before the name is locked or the count starts again (clockings.ts).
ComparesPerLock == compared <= MaxFails * (resets + 1)

\* A person has two shifts open only if the tablet gave up on a press that was
\* still being served.
OpenShiftsCostFaults == Cardinality(open) <= 1 + faults

\* The inductive strengthening of the two, and of the bound on the shifts.  A right
\* press the tablet no longer waits for is a stray: each has cost a fault, and may
\* open one shift, or close the one that is open and have the person open another.
Live(p)   == press[p].right /\ press[p].at \in {"read", "right", "passed", "found"}
Strays    == {p \in Press : Live(p) /\ p # mine}
MineOpens == /\ mine # Nobody /\ Live(mine)
             /\ IF press[mine].at = "found" THEN press[mine].found = None ELSE open = {}
OpensNext == IF MineOpens THEN 1 ELSE 0
WantsNext == IF want = "in" /\ (open = {} \/ mine # Nobody) THEN 1
             ELSE IF want = "out" THEN OpensNext ELSE 0

TriesInv == compared <= MaxFails * resets + fails
PressInv ==
  /\ want = "nothing" => mine = Nobody
  /\ \A p \in Press : press[p].at \in {"right", "passed", "found"} => press[p].right
OpenInv ==
  /\ IsFiniteSet(Strays) /\ Cardinality(Strays) <= faults
  /\ IsFiniteSet(open) /\ Cardinality(open) + Cardinality(Strays) + OpensNext <= 1 + faults
  /\ shifts + Cardinality(Strays) + WantsNext <= wants + faults

ClockInv == TriesInv /\ PressInv /\ OpenInv

\* Whoever comes to clock in or out gets to, whatever wrong PINs, locks, crashed
\* tries and lost answers come in between.
ClocksInTheEnd == want # "nothing" ~> want = "nothing"

\* Once people stop clocking the shop's copy comes to be the server's record.
CopyCatchesUp == <>[](copy = [s \in Shift |-> RowOf(s)])
=============================================================================
