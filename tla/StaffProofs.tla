----------------------------- MODULE StaffProofs -----------------------------
(***************************************************************************)
(* Proofs about Clockings, for any requests and agents at once, and any    *)
(* number of tries, wishes, wrong PINs, PINs issued and faults; and about  *)
(* Accounts, for every set of people, visitors, PINs and requests, and any *)
(* number of requests, links and faults.  The two share no variable.       *)
(***************************************************************************)
EXTENDS Clockings, Accounts, FiniteSetTheorems, WellFoundedInduction, TLAPS

-----------------------------------------------------------------------------
(* The shift a press finds open.                                           *)

\* A set of numbers with a bound has a largest: the least distance from the bound.
LEMMA NewestIsOpen ==
  ASSUME NEW n \in Nat, NEW S, S \subseteq 1..n, S # {}
  PROVE  Newest(S) \in S
<1> DEFINE R == {ss \in Nat \X Nat : ss[1] < ss[2]}
           D == {n - s : s \in S}
<1>1. IsWellFoundedOn(R, Nat)
  BY NatLessThanWellFounded DEF OpToRel
<1>2. D \subseteq Nat /\ D # {}
  <2>1. \A s \in S : n - s \in Nat
    OBVIOUS
  <2>2. QED
    BY <2>1
<1>3. PICK d \in D : \A e \in D : <<e, d>> \notin R
  <2> HIDE DEF R, D
  <2>1. QED
    BY <1>1, <1>2, WFMin
<1>4. PICK s \in S : d = n - s
  OBVIOUS
<1>5. ASSUME NEW u \in S
      PROVE  u <= s
  <2>1. n - u \in D /\ n - u \in Nat /\ d \in Nat
    BY <1>2
  <2>2. <<n - u, d>> \in Nat \X Nat /\ <<n - u, d>>[1] = n - u /\ <<n - u, d>>[2] = d
    BY <2>1
  <2>3. ~(n - u < d)
    BY <1>3, <2>1, <2>2
  <2>4. u \in Nat /\ s \in Nat
    OBVIOUS
  <2>5. QED
    BY <1>4, <2>3, <2>4
<1>6. QED
  BY <1>4, <1>5 DEF Newest

-----------------------------------------------------------------------------
(* The tries.                                                              *)

\* A reset adds MaxFails to what may be compared, and takes no more of it away.
LEMMA ResetKeeps ==
  ASSUME TypeOK, TriesInv, Reset, compared' = compared
  PROVE  TriesInv' /\ fails' \in 0..MaxFails /\ resets' \in Nat
<1>1. MaxFails \in Nat /\ fails \in 0..MaxFails /\ resets \in Nat /\ compared \in Nat
  BY ClockingConstantsOK DEF TypeOK
<1>2. PICK f \in 0..MaxFails : f = fails
  BY <1>1
<1>3. DEFINE P == MaxFails * resets
<1>4. P \in Nat /\ MaxFails * (resets + 1) = P + MaxFails
  BY <1>1
<1> HIDE DEF P
<1>5. compared <= P + f
  BY <1>2 DEF TriesInv, P
<1>6. CASE fails = 0
  BY <1>1, <1>6 DEF Reset, TriesInv
<1>7. CASE fails # 0
  <2>1. resets' = resets + 1 /\ fails' = 0
    BY <1>7 DEF Reset
  <2>2. compared <= P + MaxFails
    BY <1>1, <1>2, <1>4, <1>5
  <2>3. QED
    BY <1>1, <1>4, <2>1, <2>2 DEF TriesInv
<1>8. QED
  BY <1>6, <1>7

LEMMA TriesNext ==
  ASSUME TypeOK, TriesInv, Next
  PROVE  TriesInv' /\ fails' \in 0..MaxFails /\ resets' \in Nat /\ compared' \in Nat
<1>1. MaxFails \in Nat \ {0} /\ fails \in 0..MaxFails /\ resets \in Nat /\ compared \in Nat
  BY ClockingConstantsOK DEF TypeOK
<1>2. ASSUME NEW p \in Press, Claim(p)
      PROVE  TriesInv' /\ fails' \in 0..MaxFails /\ resets' \in Nat /\ compared' \in Nat
  <2>1. /\ resets' = resets
        /\ \/ fails' = fails /\ compared' = compared
           \/ /\ fails' = fails + 1 /\ fails < MaxFails
              /\ compared' = compared \/ compared' = compared + 1
    BY <1>2 DEF Claim
  <2>2. MaxFails * resets \in Nat
    BY <1>1
  <2>3. QED
    BY <1>1, <2>1, <2>2 DEF TriesInv
<1>3. ASSUME Reset, compared' = compared
      PROVE  TriesInv' /\ fails' \in 0..MaxFails /\ resets' \in Nat /\ compared' \in Nat
  BY <1>1, <1>3, ResetKeeps
<1>4. ASSUME UNCHANGED <<fails, resets, compared>>
      PROVE  TriesInv' /\ fails' \in 0..MaxFails /\ resets' \in Nat /\ compared' \in Nat
  BY <1>1, <1>4 DEF TriesInv
<1>5. ASSUME NEW p \in Press, Refuse(p)
      PROVE  (Reset /\ compared' = compared) \/ UNCHANGED <<fails, resets, compared>>
  BY <1>5 DEF Refuse
<1>6. ASSUME NEW p \in Press, Clear(p)
      PROVE  Reset /\ compared' = compared
  BY <1>6 DEF Clear
<1>7. CASE IssuePin
  BY <1>3, <1>7 DEF IssuePin
<1>8. CASE LockPasses \/ ComeToClock \/ GiveUp \/ Leave \/ ShiftAges
  BY <1>4, <1>8 DEF LockPasses, ComeToClock, GiveUp, Leave, ShiftAges, pinVars
<1>9. ASSUME NEW p \in Press, Tap(p) \/ WrongPin(p) \/ FindOpen(p) \/ TurnOver(p) \/ PressDies(p)
      PROVE  UNCHANGED <<fails, resets, compared>>
  BY <1>9 DEF Tap, WrongPin, FindOpen, TurnOver, PressDies, pinVars
<1>10. ASSUME NEW a \in Agent, Export(a, aged) \/ Export(a, 0) \/ Pull(a) \/ PullFails(a)
       PROVE  UNCHANGED <<fails, resets, compared>>
  BY <1>10 DEF Export, Pull, Upsert, DeleteGone, PullFails, pinVars
<1>11. QED
  BY <1>2, <1>3, <1>4, <1>5, <1>6, <1>7, <1>8, <1>9, <1>10 DEF Next, Serve

-----------------------------------------------------------------------------
(* The open shifts.  Of a step only what it does to the presses, the open  *)
(* shifts and the person's wish counts.                                    *)

PressAt  == {"idle", "read", "spent", "right", "passed", "found"}
PressRec == [at : PressAt, right : BOOLEAN, now : Nat, found : Shift \cup {None}]

LEMMA CountTypes ==
  ASSUME TypeOK, OpenInv
  PROVE  /\ shifts \in Nat /\ wants \in Nat /\ faults \in Nat
         /\ Cardinality(open) \in Nat /\ Cardinality(Strays) \in Nat
         /\ OpensNext \in {0, 1} /\ WantsNext \in {0, 1}
<1>1. {MaxWant, MaxFault} \subseteq Nat
  BY ClockingConstantsOK
<1>2. shifts \in Nat /\ wants \in Nat /\ faults \in Nat
  BY <1>1 DEF TypeOK, Shift
<1>3. Cardinality(open) \in Nat /\ Cardinality(Strays) \in Nat
  BY FS_CardinalityType DEF OpenInv
<1>4. OpensNext \in {0, 1} /\ WantsNext \in {0, 1}
  BY DEF OpensNext, WantsNext
<1>5. QED
  BY <1>2, <1>3, <1>4

\* Nothing is opened or closed, and no press becomes one that will open a shift.
LEMMA OpenHolds ==
  ASSUME TypeOK, OpenInv, shifts' = shifts, open' = open, wants' = wants,
         faults' = faults \/ faults' = faults + 1,
         Strays' \subseteq Strays, MineOpens' => MineOpens, WantsNext' <= WantsNext
  PROVE  OpenInv'
<1>1. /\ IsFiniteSet(Strays') /\ Cardinality(Strays') <= Cardinality(Strays)
      /\ Cardinality(Strays') \in Nat
  BY FS_Subset, FS_CardinalityType DEF OpenInv
<1>2. OpensNext' <= OpensNext /\ OpensNext' \in Nat /\ WantsNext' \in Nat
  BY DEF OpensNext, WantsNext
<1>3. QED
  BY <1>1, <1>2, CountTypes DEF OpenInv

\* The same when the presses, and which of them the tablet waits for, stay as they are.
LEMMA OpenSame ==
  ASSUME TypeOK, OpenInv, UNCHANGED <<shifts, open, press, mine, want, wants>>,
         faults' = faults \/ faults' = faults + 1
  PROVE  OpenInv'
<1>1. Strays' = Strays /\ MineOpens' = MineOpens /\ WantsNext' = WantsNext
  BY DEF Strays, Live, MineOpens, WantsNext, OpensNext
<1>2. WantsNext' <= WantsNext
  BY <1>1, CountTypes
<1>3. QED
  BY <1>1, <1>2, OpenHolds

\* A press goes on towards the turn of the shift, or turns out not to be a right one.
LEMMA OpenPressMoves ==
  ASSUME TypeOK, OpenInv, UNCHANGED <<shifts, open, mine, want, wants, faults>>,
         NEW p \in Press, \A q \in Press : q # p => press'[q] = press[q],
         Live(p)' => Live(p),
         p = mine /\ MineOpens' => MineOpens
  PROVE  OpenInv'
<1>1. \A q \in Press : q # p => (Live(q)' <=> Live(q))
  BY DEF Live
<1>2. Strays' \subseteq Strays
  BY <1>1 DEF Strays
<1>3. MineOpens' => MineOpens
  <2>1. mine \in Press \cup {Nobody}
    BY DEF TypeOK
  <2>2. CASE mine = p
    BY <2>2
  <2>3. CASE mine # p
    BY <1>1, <2>1, <2>3 DEF MineOpens, Live
  <2>4. QED
    BY <2>2, <2>3
<1>4. WantsNext' <= WantsNext
  BY <1>3 DEF WantsNext, OpensNext
<1>5. QED
  BY <1>2, <1>3, <1>4, OpenHolds

\* What an answer, or the end of a request without one, makes of the strays.
LEMMA AnsweredStrays ==
  ASSUME TypeOK, NEW p \in Press, Answered(p)
  PROVE  /\ Strays' = Strays \ {p}
         /\ mine' = Nobody \/ (mine' = mine /\ mine # p)
         /\ \A q \in Press : q # p => press'[q] = press[q]
<1>1. press'[p] = IdlePress /\ \A q \in Press : q # p => press'[q] = press[q]
  BY DEF TypeOK, Answered
<1>2. ~Live(p)' /\ \A q \in Press : q # p => (Live(q)' <=> Live(q))
  BY <1>1 DEF Live, IdlePress
<1>3. mine' = Nobody \/ (mine' = mine /\ mine # p)
  BY DEF Answered
<1>4. mine' = IF mine = p THEN Nobody ELSE mine
  BY DEF Answered
<1>5. Nobody \notin Press
  BY ClockingConstantsOK
<1>6. Strays' = Strays \ {p}
  BY <1>2, <1>4, <1>5 DEF Strays
<1>7. QED
  BY <1>1, <1>3, <1>6

\* A request that ends without having turned the shift over.
LEMMA OpenAnswered ==
  ASSUME TypeOK, OpenInv, UNCHANGED <<shifts, open, want, wants>>,
         faults' = faults \/ faults' = faults + 1, NEW p \in Press, Answered(p)
  PROVE  OpenInv'
<1>1. Strays' \subseteq Strays
  BY AnsweredStrays
<1>2. MineOpens' => MineOpens
  <2>1. mine \in Press \cup {Nobody}
    BY DEF TypeOK
  <2>2. CASE mine' = Nobody
    BY <2>2 DEF MineOpens
  <2>3. CASE mine' # Nobody
    <3>1. mine' = mine /\ mine \in Press /\ press'[mine] = press[mine]
      BY <2>1, <2>3, AnsweredStrays
    <3>2. QED
      BY <3>1 DEF MineOpens, Live
  <2>4. QED
    BY <2>2, <2>3
<1>3. mine' # Nobody => mine # Nobody
  BY AnsweredStrays
<1>4. WantsNext' <= WantsNext
  BY <1>2, <1>3 DEF WantsNext, OpensNext
<1>5. QED
  BY <1>1, <1>2, <1>4, OpenHolds

\* The tablet's own press opens a shift, or closes one; a stray does.
LEMMA OpenTurnOver ==
  ASSUME TypeOK, PressInv, OpenInv, NEW p \in Press, TurnOver(p)
  PROVE  OpenInv'
<1> DEFINE S == Strays \ {p}
           T == Cardinality(Strays)
           C == Cardinality(open)
<1>1. /\ Answered(p) /\ UNCHANGED <<want, wants, faults>> /\ press[p].at = "found" /\ Live(p)
      /\ \/ press[p].found = None /\ shifts' = shifts + 1 /\ open' = open \cup {shifts + 1}
         \/ press[p].found # None /\ shifts' = shifts /\ open' = open \ {press[p].found}
  BY DEF TurnOver, PressInv, Live
<1>2. /\ Strays' = S /\ (mine' = Nobody \/ (mine' = mine /\ mine # p))
      /\ \A q \in Press : q # p => press'[q] = press[q]
  BY <1>1, AnsweredStrays
<1>3. /\ IsFiniteSet(S) /\ Cardinality(S) \in Nat
      /\ p \in Strays => Cardinality(S) = T - 1
      /\ p \notin Strays => Cardinality(S) = T
  BY FS_RemoveElement, FS_CardinalityType DEF OpenInv
<1>4. p \in Strays \/ p = mine
  BY <1>1 DEF Strays
<1>5. /\ T \in Nat /\ C \in Nat /\ shifts \in Nat /\ wants \in Nat /\ faults \in Nat
      /\ T <= faults /\ C + T + OpensNext <= 1 + faults /\ shifts + T + WantsNext <= wants + faults
      /\ OpensNext \in {0, 1} /\ WantsNext \in {0, 1}
  BY CountTypes DEF OpenInv
<1>6. p = mine => p \notin Strays /\ mine # Nobody /\ mine' = Nobody
  <2>1. Nobody \notin Press
    BY ClockingConstantsOK
  <2>2. QED
    BY <1>1, <2>1 DEF Strays, Answered
<1>7. MineOpens' => mine' = mine /\ mine # p /\ mine \in Press /\ Live(mine)
                    /\ press'[mine] = press[mine]
  <2>1. mine \in Press \cup {Nobody}
    BY DEF TypeOK
  <2>2. QED
    BY <1>2, <2>1 DEF MineOpens, Live
<1>8. OpensNext' \in {0, 1} /\ WantsNext' \in {0, 1}
  BY DEF OpensNext, WantsNext
<1>9. CASE press[p].found = None
  <2>1. shifts' = shifts + 1 /\ open' = open \cup {shifts + 1}
    BY <1>1, <1>9
  <2>2. IsFiniteSet(open') /\ Cardinality(open') \in Nat /\ Cardinality(open') <= C + 1
    <3>1. IsFiniteSet(open) /\ IsFiniteSet(open')
      BY <2>1, FS_AddElement DEF OpenInv
    <3>2. Cardinality(open') = C \/ Cardinality(open') = C + 1
      BY <2>1, <3>1, FS_AddElement
    <3>3. QED
      BY <1>5, <3>1, <3>2
  <2>3. open' # {}
    BY <2>1
  <2>4. MineOpens' => MineOpens
    BY <1>7, <2>3 DEF MineOpens
  <2>5. CASE p \in Strays
    <3>1. OpensNext' <= OpensNext
      BY <1>5, <2>4 DEF OpensNext
    <3>2. WantsNext' <= WantsNext
      <4>1. mine' # Nobody => mine # Nobody
        BY <1>2
      <4>2. want' = want
        BY <1>1
      <4>3. QED
        BY <1>5, <1>8, <2>3, <2>4, <3>1, <4>1, <4>2 DEF WantsNext
    <3>3. Cardinality(Strays') = T - 1
      BY <1>2, <1>3, <2>5
    <3>4. QED
      BY <1>1, <1>2, <1>3, <1>5, <1>8, <2>1, <2>2, <3>1, <3>2, <3>3 DEF OpenInv
  <2>6. CASE p \notin Strays
    <3>1. p = mine /\ mine # Nobody /\ mine' = Nobody
      BY <1>4, <1>6, <2>6
    <3>2. OpensNext = 1 /\ OpensNext' = 0
      BY <1>1, <1>9, <3>1 DEF OpensNext, MineOpens
    <3>3. WantsNext' = 0
      BY <2>3, <3>1, <3>2 DEF WantsNext
    <3>4. WantsNext = 1
      <4>1. want \in {"in", "out"}
        BY <3>1 DEF PressInv, TypeOK
      <4>2. QED
        BY <3>1, <3>2, <4>1 DEF WantsNext
    <3>5. Cardinality(Strays') = T
      BY <1>2, <1>3, <2>6
    <3>6. QED
      BY <1>1, <1>2, <1>3, <1>5, <2>1, <2>2, <3>2, <3>3, <3>4, <3>5 DEF OpenInv
  <2>7. QED
    BY <2>5, <2>6
<1>10. CASE press[p].found # None
  <2>1. shifts' = shifts /\ open' = open \ {press[p].found}
    BY <1>1, <1>10
  <2>2. /\ IsFiniteSet(open') /\ Cardinality(open') \in Nat
        /\ open' = open \/ Cardinality(open') = C - 1
    BY <2>1, FS_RemoveElement, FS_CardinalityType DEF OpenInv
  <2>3. CASE p \in Strays
    <3>1. Cardinality(Strays') = T - 1
      BY <1>2, <1>3, <2>3
    <3>2. Cardinality(open') + OpensNext' <= C + 1 + OpensNext
      BY <1>5, <1>8, <2>2
    <3>3. QED
      BY <1>1, <1>2, <1>3, <1>5, <1>8, <2>1, <2>2, <3>1, <3>2 DEF OpenInv
  <2>4. CASE p \notin Strays
    <3>1. p = mine /\ mine # Nobody /\ mine' = Nobody
      BY <1>4, <1>6, <2>4
    <3>2. OpensNext' = 0
      BY <3>1 DEF OpensNext, MineOpens
    <3>3. WantsNext' <= WantsNext
      BY <1>1, <1>5, <1>8, <3>1, <3>2 DEF WantsNext
    <3>4. Cardinality(Strays') = T
      BY <1>2, <1>3, <2>4
    <3>5. Cardinality(open') <= C
      BY <1>5, <2>2
    <3>6. QED
      BY <1>1, <1>2, <1>3, <1>5, <1>8, <2>1, <2>2, <3>2, <3>3, <3>4, <3>5 DEF OpenInv
  <2>5. QED
    BY <2>3, <2>4
<1>11. QED
  BY <1>9, <1>10

\* The person presses: only while the tablet waits for nothing, and to open a shift
\* only while none is open.
LEMMA OpenTap ==
  ASSUME TypeOK, PressInv, OpenInv, NEW p \in Press, Tap(p)
  PROVE  OpenInv'
<1>1. /\ want # "nothing" /\ mine = Nobody /\ mine' = p /\ press[p].at = "idle"
      /\ open = {} => want = "in"
      /\ open # {} => want = "out"
      /\ UNCHANGED <<shifts, open, want, wants, faults>>
  BY DEF Tap, Read, Board, TypeOK, shiftVars
<1>2. press'[p].at = "read" /\ \A q \in Press : q # p => press'[q] = press[q]
  BY DEF Tap, Read, TypeOK, IdlePress
<1>3. Strays' \subseteq Strays
  <2>1. \A q \in Press : q # p => (Live(q)' <=> Live(q))
    BY <1>2 DEF Live
  <2>2. Nobody \notin Press
    BY ClockingConstantsOK
  <2>3. QED
    BY <1>1, <2>1, <2>2 DEF Strays
<1>4. /\ IsFiniteSet(Strays') /\ Cardinality(Strays') <= Cardinality(Strays)
      /\ Cardinality(Strays') \in Nat
  BY <1>3, FS_Subset, FS_CardinalityType DEF OpenInv
<1>5. OpensNext = 0
  BY <1>1 DEF OpensNext, MineOpens
<1>6. CASE open = {}
  <2>1. Cardinality(open') = 0
    BY <1>1, <1>6, FS_EmptySet
  <2>2. WantsNext = 1 /\ WantsNext' = 1
    BY <1>1, <1>6 DEF WantsNext
  <2>3. OpensNext' \in {0, 1}
    BY DEF OpensNext
  <2>4. QED
    BY <1>1, <1>4, <2>1, <2>2, <2>3, CountTypes DEF OpenInv
<1>7. CASE open # {}
  <2>1. ~MineOpens'
    BY <1>1, <1>2, <1>7 DEF MineOpens
  <2>2. OpensNext' = 0 /\ WantsNext' = 0
    BY <1>1, <1>7, <2>1 DEF OpensNext, WantsNext
  <2>3. QED
    BY <1>1, <1>4, <1>5, <2>2, CountTypes DEF OpenInv
<1>8. QED
  BY <1>6, <1>7

LEMMA OpenPerson ==
  ASSUME TypeOK, PressInv, OpenInv, ComeToClock \/ Leave
  PROVE  OpenInv'
<1>1. mine = Nobody /\ UNCHANGED <<shifts, open, press, mine, faults>>
  BY DEF ComeToClock, Leave, PressInv, shiftVars
<1>2. Strays' = Strays /\ OpensNext = 0 /\ OpensNext' = 0
  BY <1>1 DEF Strays, Live, OpensNext, MineOpens
<1>3. WantsNext' + wants <= wants' + WantsNext /\ WantsNext' \in Nat /\ wants' \in Nat
  <2>1. CASE ComeToClock
    BY <1>2, <2>1, CountTypes DEF ComeToClock, WantsNext
  <2>2. CASE Leave
    BY <1>2, <2>2, CountTypes DEF Leave, WantsNext
  <2>3. QED
    BY <2>1, <2>2
<1>4. QED
  BY <1>1, <1>2, <1>3, CountTypes DEF OpenInv

LEMMA OpenGiveUp ==
  ASSUME TypeOK, OpenInv, GiveUp
  PROVE  OpenInv'
<1> DEFINE S == Strays \cup {mine}
<1>1. mine # Nobody /\ mine' = Nobody /\ faults' = faults + 1
      /\ UNCHANGED <<shifts, open, press, want, wants>>
  BY DEF GiveUp, Fault, shiftVars
<1>2. Strays' \subseteq S
  BY <1>1 DEF Strays, Live
<1>3. IsFiniteSet(S) /\ Cardinality(S) <= Cardinality(Strays) + 1 /\ Cardinality(S) \in Nat
  <2>1. IsFiniteSet(Strays) /\ IsFiniteSet(S)
    BY FS_AddElement DEF OpenInv
  <2>2. Cardinality(S) = Cardinality(Strays) \/ Cardinality(S) = Cardinality(Strays) + 1
    BY <2>1, FS_AddElement
  <2>3. QED
    BY <2>1, <2>2, CountTypes
<1> HIDE DEF S
<1>4. /\ IsFiniteSet(Strays') /\ Cardinality(Strays') <= Cardinality(S)
      /\ Cardinality(Strays') \in Nat
  BY <1>2, <1>3, FS_Subset, FS_CardinalityType
<1>5. OpensNext' = 0
  BY <1>1 DEF OpensNext, MineOpens
<1>6. WantsNext' <= WantsNext /\ WantsNext' \in Nat
  BY <1>1, <1>5 DEF WantsNext, OpensNext
<1>7. QED
  BY <1>1, <1>3, <1>4, <1>5, <1>6, CountTypes DEF OpenInv

LEMMA OpenNextInv ==
  ASSUME TypeOK, PressInv, OpenInv, Next
  PROVE  OpenInv'
<1>1. ASSUME NEW p \in Press, Claim(p) \/ Clear(p) \/ FindOpen(p) \/ WrongPin(p)
      PROVE  OpenInv'
  <2>1. /\ UNCHANGED <<shifts, open, mine, want, wants, faults>>
        /\ \A q \in Press : q # p => press'[q] = press[q]
    BY <1>1 DEF Claim, Clear, FindOpen, WrongPin, Read, TypeOK, shiftVars, tabletVars
  <2>2. CASE WrongPin(p)
    <3>1. ~Live(p)'
      BY <2>2 DEF WrongPin, Read, TypeOK, IdlePress, Live
    <3>2. QED
      BY <2>1, <3>1, OpenPressMoves DEF MineOpens, Live
  <2>3. CASE Claim(p)
    <3>1. /\ press[p].at = "read" /\ press'[p].right = press[p].right
          /\ press'[p].at = "spent" \/ (press'[p].at = "right" /\ press[p].right)
      BY <2>3 DEF Claim, TypeOK
    <3>2. (Live(p)' => Live(p)) /\ press'[p].at # "found"
      BY <3>1 DEF Live
    <3>3. p = mine /\ MineOpens' => MineOpens
      BY <2>1, <3>1, <3>2 DEF MineOpens
    <3>4. QED
      BY <2>1, <3>2, <3>3, OpenPressMoves
  <2>4. CASE Clear(p)
    <3>1. press[p].at = "right" /\ press'[p].right = press[p].right /\ press'[p].at = "passed"
      BY <2>4 DEF Clear, TypeOK
    <3>2. Live(p)' => Live(p)
      BY <3>1 DEF Live
    <3>3. p = mine /\ MineOpens' => MineOpens
      BY <2>1, <3>1, <3>2 DEF MineOpens
    <3>4. QED
      BY <2>1, <3>2, <3>3, OpenPressMoves
  <2>5. CASE FindOpen(p)
    <3>1. /\ press[p].at = "passed" /\ press'[p].right = press[p].right /\ press'[p].at = "found"
          /\ press'[p].found = IF open = {} THEN None ELSE Newest(open)
      BY <2>5 DEF FindOpen, TypeOK
    <3>2. Live(p)' => Live(p)
      BY <3>1 DEF Live
    <3>3. open # {} => Newest(open) # None
      <4>1. open \subseteq 1..shifts /\ shifts \in Nat
        BY CountTypes DEF TypeOK
      <4>2. open # {} => Newest(open) \in 1..shifts
        BY <4>1, NewestIsOpen
      <4>3. QED
        BY <4>1, <4>2 DEF None
    <3>4. p = mine /\ MineOpens' => MineOpens
      BY <2>1, <3>1, <3>2, <3>3 DEF MineOpens
    <3>5. QED
      BY <2>1, <3>2, <3>4, OpenPressMoves
  <2>6. QED
    BY <1>1, <2>2, <2>3, <2>4, <2>5
<1>2. ASSUME NEW p \in Press, Refuse(p) \/ PressDies(p)
      PROVE  OpenInv'
  BY <1>2, OpenAnswered DEF Refuse, PressDies, Fault, shiftVars
<1>3. CASE IssuePin \/ LockPasses \/ ShiftAges
  BY <1>3, OpenSame DEF IssuePin, LockPasses, ShiftAges, shiftVars, tabletVars
<1>4. ASSUME NEW a \in Agent, Export(a, aged) \/ Export(a, 0) \/ Pull(a) \/ PullFails(a)
      PROVE  OpenInv'
  BY <1>4, OpenSame DEF Export, Pull, Upsert, DeleteGone, PullFails, Fault, shiftVars, tabletVars
<1>5. QED
  BY <1>1, <1>2, <1>3, <1>4, OpenTurnOver, OpenTap, OpenPerson, OpenGiveUp DEF Next, Serve

-----------------------------------------------------------------------------
(* The presses and the types.                                              *)

LEMMA PressType ==
  ASSUME TypeOK, PressInv, Next
  PROVE  /\ press' \in [Press -> PressRec]
         /\ \A p \in Press : press'[p].at \in {"right", "passed", "found"} => press'[p].right
<1> USE DEF PressAt
<1>1. press \in [Press -> PressRec] /\ clock \in Nat
  BY DEF TypeOK, PressRec
<1>2. IdlePress \in PressRec /\ IdlePress.at = "idle"
  BY DEF IdlePress, PressRec
<1>3. \A p \in Press : press[p].at \in {"right", "passed", "found"} => press[p].right
  BY DEF PressInv
<1>4. ASSUME NEW p \in Press, NEW r \in PressRec, press' = [press EXCEPT ![p] = r],
             r.at \in {"right", "passed", "found"} => r.right
      PROVE  /\ press' \in [Press -> PressRec]
             /\ \A q \in Press : press'[q].at \in {"right", "passed", "found"} => press'[q].right
  BY <1>1, <1>3, <1>4
<1>5. ASSUME UNCHANGED press
      PROVE  /\ press' \in [Press -> PressRec]
             /\ \A q \in Press : press'[q].at \in {"right", "passed", "found"} => press'[q].right
  BY <1>1, <1>3, <1>5
<1>6. ASSUME NEW p \in Press, NEW right \in BOOLEAN, Read(p, right)
      PROVE  \E r \in PressRec : /\ press' = [press EXCEPT ![p] = r]
                                 /\ r.at = "read"
  <2> DEFINE r == [IdlePress EXCEPT !.at = "read", !.right = right, !.now = clock]
  <2>1. r \in PressRec /\ r.at = "read"
    BY <1>1, <1>2 DEF PressRec
  <2>2. press' = [press EXCEPT ![p] = r]
    BY <1>6 DEF Read
  <2>3. QED
    BY <2>1, <2>2
<1>7. ASSUME NEW p \in Press, Claim(p) \/ Clear(p)
      PROVE  \E r \in PressRec : /\ press' = [press EXCEPT ![p] = r]
                                 /\ r.at \in {"right", "passed"} => r.right
                                 /\ r.at # "found"
  <2>1. PICK at \in {"spent", "right", "passed"} :
               press' = [press EXCEPT ![p].at = at] /\ (at \in {"right", "passed"} => press[p].right)
    BY <1>3, <1>7 DEF Claim, Clear
  <2> DEFINE r == [press[p] EXCEPT !.at = at]
  <2>2. press[p] \in PressRec
    BY <1>1
  <2>3. r \in PressRec /\ r.at = at /\ r.right = press[p].right
    BY <2>2 DEF PressRec
  <2>4. press' = [press EXCEPT ![p] = r]
    BY <2>1
  <2>5. QED
    BY <2>1, <2>3, <2>4
<1>8. ASSUME NEW p \in Press, FindOpen(p)
      PROVE  \E r \in PressRec : press' = [press EXCEPT ![p] = r] /\ r.right
  <2> DEFINE f == IF open = {} THEN None ELSE Newest(open)
             r == [press[p] EXCEPT !.at = "found", !.found = f]
  <2>1. f \in Shift \cup {None}
    <3>1. open \subseteq 1..shifts /\ shifts \in Shift \cup {0} /\ {MaxWant, MaxFault} \subseteq Nat
      BY ClockingConstantsOK DEF TypeOK
    <3>2. open # {} => Newest(open) \in 1..shifts
      <4>1. shifts \in Nat
        BY <3>1 DEF Shift
      <4>2. QED
        BY <3>1, <4>1, NewestIsOpen
    <3>3. 1..shifts \subseteq Shift
      BY <3>1 DEF Shift
    <3>4. QED
      BY <3>2, <3>3
  <2>2. press[p] \in PressRec /\ press[p].right
    BY <1>1, <1>3, <1>8 DEF FindOpen
  <2> HIDE DEF f
  <2>3. r \in PressRec /\ r.right
    BY <2>1, <2>2 DEF PressRec
  <2>4. press' = [press EXCEPT ![p] = r]
    BY <1>8 DEF FindOpen, f
  <2>5. QED
    BY <2>3, <2>4
<1>9. ASSUME NEW p \in Press, Refuse(p) \/ TurnOver(p) \/ PressDies(p)
      PROVE  press' = [press EXCEPT ![p] = IdlePress]
  BY <1>9 DEF Refuse, TurnOver, PressDies, Answered
<1>10. ASSUME NEW p \in Press, Tap(p) \/ WrongPin(p)
       PROVE  Read(p, TRUE) \/ Read(p, FALSE)
  BY <1>10 DEF Tap, WrongPin
<1>11. CASE IssuePin \/ LockPasses \/ ComeToClock \/ GiveUp \/ Leave \/ ShiftAges
  BY <1>5, <1>11 DEF IssuePin, LockPasses, ComeToClock, GiveUp, Leave, ShiftAges
<1>12. ASSUME NEW a \in Agent, Export(a, aged) \/ Export(a, 0) \/ Pull(a) \/ PullFails(a)
       PROVE  UNCHANGED press
  BY <1>12 DEF Export, Pull, Upsert, DeleteGone, PullFails
<1>13. ASSUME NEW p \in Press, Tap(p) \/ WrongPin(p) \/ Serve(p) \/ PressDies(p)
       PROVE  \E r \in PressRec : /\ press' = [press EXCEPT ![p] = r]
                                  /\ r.at \in {"right", "passed", "found"} => r.right
  <2>1. CASE Tap(p) \/ WrongPin(p)
    BY <1>6, <1>10, <2>1
  <2>2. CASE Claim(p) \/ Clear(p)
    BY <1>7, <2>2
  <2>3. CASE FindOpen(p)
    BY <1>8, <2>3
  <2>4. CASE Refuse(p) \/ TurnOver(p) \/ PressDies(p)
    BY <1>2, <1>9, <2>4
  <2>5. QED
    BY <1>13, <2>1, <2>2, <2>3, <2>4 DEF Serve
<1>14. QED
  BY <1>4, <1>5, <1>11, <1>12, <1>13 DEF Next

LEMMA PressNextInv ==
  ASSUME TypeOK, PressInv, Next
  PROVE  PressInv'
<1>1. want' = "nothing" => mine' = Nobody
  <2>1. ASSUME NEW p \in Press, Serve(p) \/ PressDies(p)
        PROVE  want' = want /\ (mine' = mine \/ mine' = Nobody)
    BY <2>1 DEF Serve, Claim, Refuse, Clear, FindOpen, TurnOver, PressDies, Answered, tabletVars
  <2>2. ASSUME NEW p \in Press, Tap(p)
        PROVE  want' # "nothing"
    BY <2>2 DEF Tap
  <2>3. ASSUME NEW p \in Press, WrongPin(p)
        PROVE  want' = want /\ mine' = mine
    BY <2>3 DEF WrongPin, tabletVars
  <2>4. ASSUME NEW a \in Agent, Export(a, aged) \/ Export(a, 0) \/ Pull(a) \/ PullFails(a)
        PROVE  want' = want /\ mine' = mine
    BY <2>4 DEF Export, Pull, Upsert, DeleteGone, PullFails, tabletVars
  <2>5. CASE IssuePin \/ LockPasses \/ ShiftAges
    BY <2>5 DEF IssuePin, LockPasses, ShiftAges, tabletVars, PressInv
  <2>6. CASE ComeToClock \/ GiveUp \/ Leave
    BY <2>6 DEF ComeToClock, GiveUp, Leave, PressInv
  <2>7. QED
    BY <2>1, <2>2, <2>3, <2>4, <2>5, <2>6 DEF Next, PressInv
<1>2. QED
  BY <1>1, PressType DEF PressInv

LEMMA ShiftTypes ==
  ASSUME TypeOK, Next
  PROVE  shifts' \in Nat /\ open' \subseteq 1..shifts' /\ shifts <= shifts'
<1>1. shifts \in Nat /\ open \subseteq 1..shifts
  <2>1. {MaxWant, MaxFault} \subseteq Nat
    BY ClockingConstantsOK
  <2>2. QED
    BY <2>1 DEF TypeOK, Shift
<1>2. ASSUME NEW p \in Press, TurnOver(p)
      PROVE  \/ shifts' = shifts + 1 /\ open' = open \cup {shifts + 1}
             \/ shifts' = shifts /\ open' \subseteq open
  BY <1>2 DEF TurnOver
<1>3. ASSUME NEW p \in Press, Tap(p) \/ WrongPin(p) \/ Claim(p) \/ Refuse(p) \/ Clear(p)
             \/ FindOpen(p) \/ PressDies(p)
      PROVE  shifts' = shifts /\ open' = open
  BY <1>3 DEF Tap, WrongPin, Claim, Refuse, Clear, FindOpen, PressDies, shiftVars
<1>4. ASSUME NEW a \in Agent, Export(a, aged) \/ Export(a, 0) \/ Pull(a) \/ PullFails(a)
      PROVE  shifts' = shifts /\ open' = open
  BY <1>4 DEF Export, Pull, Upsert, DeleteGone, PullFails, shiftVars
<1>5. \/ shifts' = shifts + 1 /\ open' = open \cup {shifts + 1}
      \/ shifts' = shifts /\ open' \subseteq open
  BY <1>2, <1>3, <1>4 DEF Next, Serve, IssuePin, LockPasses, ComeToClock, GiveUp, Leave,
     ShiftAges, shiftVars
<1>6. \A s \in 1..shifts : s \in 1..(shifts + 1)
  BY <1>1
<1>7. CASE shifts' = shifts + 1 /\ open' = open \cup {shifts + 1}
  <2>1. shifts + 1 \in 1..(shifts + 1)
    BY <1>1
  <2>2. open' \subseteq 1..(shifts + 1)
    BY <1>1, <1>6, <1>7, <2>1
  <2>3. QED
    BY <1>1, <1>7, <2>2
<1>8. CASE shifts' = shifts /\ open' \subseteq open
  BY <1>1, <1>8
<1>9. QED
  BY <1>5, <1>7, <1>8

\* The copy in the shop, and what the runs of the agent hold of it.
LEMMA ShopType ==
  ASSUME TypeOK, Next
  PROVE  /\ aged' \in 0..shifts' /\ copy' \in Rows
         /\ pull' \in [Agent -> [at : {"idle", "fetched", "upserted"}, rows : Rows, from : 0..shifts']]
<1> DEFINE Pulls == [at : {"idle", "fetched", "upserted"}, rows : Rows, from : 0..shifts']
<1>1. shifts \in Nat /\ shifts' \in Nat /\ shifts <= shifts'
  <2>1. {MaxWant, MaxFault} \subseteq Nat
    BY ClockingConstantsOK
  <2>2. shifts \in Nat
    BY <2>1 DEF TypeOK, Shift
  <2>3. QED
    BY <2>2, ShiftTypes
<1>2. aged \in 0..shifts /\ aged \in 0..shifts' /\ copy \in Rows
  BY <1>1 DEF TypeOK
<1>3. \A a \in Agent : /\ pull[a].at \in {"idle", "fetched", "upserted"} /\ pull[a].rows \in Rows
                       /\ pull[a].from \in 0..shifts' /\ pull[a] \in Pulls
  <2>1. ASSUME NEW a \in Agent
        PROVE  /\ pull[a] = [at |-> pull[a].at, rows |-> pull[a].rows, from |-> pull[a].from]
               /\ pull[a].at \in {"idle", "fetched", "upserted"} /\ pull[a].rows \in Rows
               /\ pull[a].from \in 0..shifts
    BY DEF TypeOK
  <2>2. \A n \in 0..shifts : n \in 0..shifts'
    BY <1>1
  <2>3. ASSUME NEW a \in Agent
        PROVE  pull[a].from \in 0..shifts' /\ pull[a] \in Pulls
    <3>1. pull[a].from \in 0..shifts'
      BY <2>1, <2>2
    <3>2. [at |-> pull[a].at, rows |-> pull[a].rows, from |-> pull[a].from] \in Pulls
      BY <2>1, <3>1
    <3>3. QED
      BY <2>1, <3>1, <3>2
  <2>4. QED
    BY <2>1, <2>3
<1>4. pull \in [Agent -> Pulls]
  <2>1. pull = [a \in Agent |-> pull[a]]
    BY DEF TypeOK
  <2>2. QED
    BY <1>3, <2>1
<1>5. \A s \in Shift : RowOf(s) \in Row
  BY DEF RowOf, Row
<1>6. "none" \in Row
  BY DEF Row
<1>7. IdlePull \in Pulls
  BY <1>1, <1>6 DEF IdlePull, Rows
<1>8. ASSUME NEW a \in Agent, NEW from \in {0, aged}, Export(a, from)
      PROVE  pull' \in [Agent -> Pulls]
  <2> DEFINE r == [s \in Shift |-> IF s > from THEN RowOf(s) ELSE "none"]
  <2>1. r \in Rows
    BY <1>5, <1>6 DEF Rows
  <2>2. from \in 0..shifts'
    BY <1>1, <1>2
  <2>3. pull' = [pull EXCEPT ![a] = [at |-> "fetched", rows |-> r, from |-> from]]
    BY <1>8 DEF Export
  <2> HIDE DEF r
  <2>4. QED
    BY <1>4, <2>1, <2>2, <2>3
<1>9. ASSUME NEW a \in Agent, Upsert(a)
      PROVE  copy' \in Rows /\ pull' \in [Agent -> Pulls]
  <2>1. copy' \in Rows
    BY <1>2, <1>3, <1>9 DEF Upsert, Rows
  <2>2. [pull[a] EXCEPT !.at = "upserted"] \in Pulls
    BY <1>3
  <2>3. pull' = [pull EXCEPT ![a] = [pull[a] EXCEPT !.at = "upserted"]]
    BY <1>9 DEF Upsert
  <2>4. QED
    BY <1>4, <2>1, <2>2, <2>3
<1>10. ASSUME NEW a \in Agent, DeleteGone(a)
       PROVE  copy' \in Rows /\ pull' \in [Agent -> Pulls]
  <2>1. copy' \in Rows
    BY <1>2, <1>6, <1>10 DEF DeleteGone, Rows
  <2>2. QED
    BY <1>4, <1>7, <1>10, <2>1 DEF DeleteGone
<1>11. ASSUME NEW a \in Agent, PullFails(a)
       PROVE  pull' \in [Agent -> Pulls]
  BY <1>4, <1>7, <1>11 DEF PullFails
<1>12. ASSUME NEW p \in Press, Tap(p) \/ WrongPin(p) \/ Serve(p) \/ PressDies(p)
       PROVE  UNCHANGED <<aged, copy, pull>>
  BY <1>12 DEF Tap, WrongPin, Serve, Claim, Refuse, Clear, FindOpen, TurnOver, PressDies, shopVars
<1>13. ASSUME IssuePin \/ LockPasses \/ ComeToClock \/ GiveUp \/ Leave
       PROVE  UNCHANGED <<aged, copy, pull>>
  BY <1>13 DEF IssuePin, LockPasses, ComeToClock, GiveUp, Leave, shopVars
<1>14. ASSUME ShiftAges
       PROVE  aged' \in 0..shifts' /\ UNCHANGED <<copy, pull>>
  BY <1>1, <1>2, <1>14 DEF ShiftAges, shiftVars
<1>15. ASSUME NEW a \in Agent, Export(a, aged) \/ Export(a, 0) \/ Upsert(a) \/ DeleteGone(a) \/ PullFails(a)
       PROVE  aged' = aged
  BY <1>15 DEF Export, Upsert, DeleteGone, PullFails
<1>16. ASSUME NEW a \in Agent, Export(a, aged) \/ Export(a, 0) \/ PullFails(a)
       PROVE  copy' = copy
  BY <1>16 DEF Export, PullFails
<1> HIDE DEF Pulls
<1>17. aged' \in 0..shifts'
  BY <1>2, <1>12, <1>13, <1>14, <1>15 DEF Next, Pull
<1>18. copy' \in Rows
  BY <1>2, <1>9, <1>10, <1>12, <1>13, <1>14, <1>16 DEF Next, Pull
<1>19. pull' \in [Agent -> Pulls]
  BY <1>4, <1>8, <1>9, <1>10, <1>11, <1>12, <1>13, <1>14 DEF Next, Pull
<1>20. QED
  BY <1>17, <1>18, <1>19 DEF Pulls

LEMMA CountsType ==
  ASSUME TypeOK, Next
  PROVE  /\ pins' \in 0..MaxIssue /\ {lock', clock'} \subseteq Nat
         /\ mine' \in Press \cup {Nobody} /\ want' \in {"nothing", "in", "out"}
         /\ wants' \in 0..MaxWant /\ guesses' \in 0..MaxGuess /\ faults' \in 0..MaxFault
<1> USE ClockingConstantsOK
<1>1. /\ pins \in 0..MaxIssue /\ {lock, clock} \subseteq Nat
      /\ mine \in Press \cup {Nobody} /\ want \in {"nothing", "in", "out"}
      /\ wants \in 0..MaxWant /\ guesses \in 0..MaxGuess /\ faults \in 0..MaxFault
      /\ \A p \in Press : press[p].now \in Nat
      /\ {MaxWant, MaxGuess, MaxIssue, MaxFault} \subseteq Nat
  BY DEF TypeOK
<1>2. CASE IssuePin \/ LockPasses \/ ComeToClock \/ GiveUp \/ Leave \/ ShiftAges
  BY <1>1, <1>2 DEF IssuePin, LockPasses, ComeToClock, GiveUp, Leave, ShiftAges, Fault,
     tabletVars, pinVars
<1>3. ASSUME NEW p \in Press, Tap(p) \/ WrongPin(p)
      PROVE  /\ UNCHANGED <<pins, lock, clock, want, wants, faults>>
             /\ mine' \in Press \cup {Nobody} /\ guesses' \in 0..MaxGuess
  BY <1>1, <1>3 DEF Tap, WrongPin, Read, tabletVars, pinVars
<1>4. ASSUME NEW p \in Press, Serve(p)
      PROVE  /\ UNCHANGED <<pins, clock, want, wants, guesses, faults>>
             /\ mine' \in Press \cup {Nobody} /\ lock' \in Nat
  BY <1>1, <1>4 DEF Serve, Claim, Refuse, Clear, FindOpen, TurnOver, Answered, tabletVars, pinVars
<1>5. ASSUME NEW p \in Press, PressDies(p)
      PROVE  /\ UNCHANGED <<pins, lock, clock, want, wants, guesses>>
             /\ mine' \in Press \cup {Nobody} /\ faults' \in 0..MaxFault
  BY <1>1, <1>5 DEF PressDies, Answered, Fault, pinVars
<1>6. ASSUME NEW a \in Agent, Export(a, aged) \/ Export(a, 0) \/ Pull(a) \/ PullFails(a)
      PROVE  UNCHANGED <<pins, lock, clock, mine, want, wants, guesses>> /\ faults' \in 0..MaxFault
  BY <1>1, <1>6 DEF Export, Pull, Upsert, DeleteGone, PullFails, Fault, tabletVars, pinVars
<1>7. CASE \E p \in Press : Tap(p) \/ WrongPin(p) \/ Serve(p) \/ PressDies(p)
  BY <1>1, <1>3, <1>4, <1>5, <1>7
<1>8. CASE \E a \in Agent : Export(a, aged) \/ Export(a, 0) \/ Pull(a) \/ PullFails(a)
  BY <1>1, <1>6, <1>8
<1>9. QED
  BY <1>2, <1>7, <1>8 DEF Next

LEMMA TypeNext ==
  ASSUME TypeOK, ClockInv, Next
  PROVE  TypeOK'
<1>1. shifts' \in Shift \cup {0} /\ open' \subseteq 1..shifts'
  <2>1. OpenInv'
    BY OpenNextInv DEF ClockInv
  <2>2. /\ shifts' + Cardinality(Strays') + WantsNext' <= wants' + faults'
        /\ Cardinality(Strays') \in Nat /\ WantsNext' \in {0, 1}
    BY <2>1, FS_CardinalityType DEF OpenInv, WantsNext, OpensNext
  <2>3. wants' \in 0..MaxWant /\ faults' \in 0..MaxFault /\ {MaxWant, MaxFault} \subseteq Nat
    BY CountsType, ClockingConstantsOK
  <2>4. shifts' \in Nat /\ open' \subseteq 1..shifts'
    BY ShiftTypes
  <2>5. shifts' <= MaxWant + MaxFault
    BY <2>2, <2>3, <2>4
  <2>6. QED
    BY <2>3, <2>4, <2>5 DEF Shift
<1>2. fails' \in 0..MaxFails /\ {resets', compared'} \subseteq Nat
  BY TriesNext DEF ClockInv
<1>3. press' \in [Press -> [at : {"idle", "read", "spent", "right", "passed", "found"},
                            right : BOOLEAN, now : Nat, found : Shift \cup {None}]]
  BY PressType DEF ClockInv, PressRec, PressAt
<1>4. QED
  BY <1>1, <1>2, <1>3, CountsType, ShopType DEF TypeOK

-----------------------------------------------------------------------------
(* The theorems.                                                           *)

LEMMA TypeInit == Init => TypeOK
<1> SUFFICES ASSUME Init
             PROVE  TypeOK
  OBVIOUS
<1>1. {MaxWant, MaxGuess, MaxIssue, MaxFault} \subseteq Nat /\ MaxFails \in Nat
  BY ClockingConstantsOK
<1>2. press \in [Press -> [at : {"idle", "read", "spent", "right", "passed", "found"},
                           right : BOOLEAN, now : Nat, found : Shift \cup {None}]]
  BY DEF Init, IdlePress, None
<1>3. [s \in Shift |-> "none"] \in Rows
  BY DEF Rows, Row
<1>4. pull \in [Agent -> [at : {"idle", "fetched", "upserted"}, rows : Rows, from : 0..shifts]]
  BY <1>3 DEF Init, IdlePull
<1>5. QED
  BY <1>1, <1>2, <1>3, <1>4 DEF Init, TypeOK

LEMMA InvInit == Init => ClockInv
<1> SUFFICES ASSUME Init
             PROVE  ClockInv
  OBVIOUS
<1>1. TriesInv
  <2>1. MaxFails \in Nat
    BY ClockingConstantsOK
  <2>2. QED
    BY <2>1 DEF Init, TriesInv
<1>2. PressInv
  BY DEF Init, PressInv, IdlePress
<1>3. Strays = {} /\ open = {} /\ OpensNext = 0 /\ WantsNext = 0
  BY DEF Init, Strays, Live, IdlePress, OpensNext, MineOpens, WantsNext
<1>4. OpenInv
  BY <1>3, FS_EmptySet DEF Init, OpenInv
<1>5. QED
  BY <1>1, <1>2, <1>4 DEF ClockInv

LEMMA InvNext ==
  ASSUME TypeOK, ClockInv, [Next]_vars
  PROVE  TypeOK' /\ ClockInv'
<1>1. CASE Next
  BY <1>1, TypeNext, TriesNext, PressNextInv, OpenNextInv DEF ClockInv
<1>2. CASE UNCHANGED vars
  BY <1>2 DEF vars, pinVars, shiftVars, tabletVars, shopVars, TypeOK, ClockInv, TriesInv, PressInv,
     OpenInv, Strays, Live, OpensNext, MineOpens, WantsNext
<1>3. QED
  BY <1>1, <1>2

LEMMA Inductive == Spec => [](TypeOK /\ ClockInv)
BY TypeInit, InvInit, InvNext, PTL DEF Spec

\* Every reachable state is well typed; in particular no more shifts are ever opened
\* than people meant to clock and faults struck.
THEOREM TypeCorrect == Spec => []TypeOK
BY Inductive, PTL

\* However presses overlap, the PINs compared and found wrong between two resets of
\* the count are no more than the tries a name has.
THEOREM TriesBounded == Spec => []ComparesPerLock
<1>1. TypeOK /\ ClockInv => ComparesPerLock
  <2> SUFFICES ASSUME TypeOK, ClockInv
               PROVE  ComparesPerLock
    OBVIOUS
  <2>1. MaxFails \in Nat /\ fails \in 0..MaxFails /\ resets \in Nat /\ compared \in Nat
    BY ClockingConstantsOK DEF TypeOK
  <2>2. MaxFails * resets \in Nat /\ MaxFails * (resets + 1) = MaxFails * resets + MaxFails
    BY <2>1
  <2>3. compared <= MaxFails * resets + fails
    BY DEF ClockInv, TriesInv
  <2>4. QED
    BY <2>1, <2>2, <2>3 DEF ComparesPerLock
<1>2. QED
  BY <1>1, Inductive, PTL

\* Each shift open beside a first has cost a fault.
THEOREM OpenShiftsBounded == Spec => []OpenShiftsCostFaults
<1>1. TypeOK /\ ClockInv => OpenShiftsCostFaults
  <2> SUFFICES ASSUME TypeOK, ClockInv
               PROVE  OpenShiftsCostFaults
    OBVIOUS
  <2>1. Cardinality(open) + Cardinality(Strays) + OpensNext <= 1 + faults
    BY DEF ClockInv, OpenInv
  <2>2. QED
    BY <2>1, CountTypes DEF ClockInv, OpenShiftsCostFaults
<1>2. QED
  BY <1>1, Inductive, PTL

-----------------------------------------------------------------------------
(* Accounts: type correctness.                                             *)

LEMMA IdleCall == Idle \in Calls /\ NoSlips \in [Person -> Pin \cup {NoPin}] /\ FreshPage \in Pages
BY DEF Idle, Calls, NoSlips, FreshPage, Pages

LEMMA AccountsTypeInit == AccountsInit => AccountsTypeOK
<1> SUFFICES ASSUME AccountsInit
             PROVE  AccountsTypeOK
  OBVIOUS
<1>1. 0 \in 0..MaxMishap /\ 0 \in 0..MaxRequest /\ MaxMishap \in Nat /\ 0 + 0 <= MaxMishap
  BY AccountConstantsOK
<1>2. account \in [Person -> [role : {"none", "ADMIN", "STAFF"}, off : BOOLEAN, board : BOOLEAN]]
  BY DEF AccountsInit, NoLogin
<1>3. session \in [Person -> {"none", "ADMIN", "STAFF"}]
  BY <1>2 DEF AccountsInit
<1>4. /\ link \in [1..MaxLink -> [who : Person \cup {NoOne}, at : {"unborn", "open", "expired", "used", "gone"}]]
      /\ visitor \in [Visitor -> [user : BOOLEAN, rows : Nat]]
      /\ \A l \in 1..MaxLink : link[l].at = "unborn" \/ link[l].who \in Person
  BY DEF AccountsInit
<1>5. call \in [Call -> Calls] /\ page \in [Person -> Pages] /\ pin \in [Person -> Pin \cup {NoPin}]
  BY IdleCall DEF AccountsInit
<1>6. overlap \subseteq Person \cup Visitor /\ stale \in BOOLEAN /\ requests \in 0..MaxRequest
      /\ failed \in Nat /\ cut \in Nat /\ failed + cut <= MaxMishap
      /\ halfway \subseteq Person /\ unheard \subseteq Person
  BY <1>1, AccountConstantsOK DEF AccountsInit
<1>7. QED
  BY <1>2, <1>3, <1>4, <1>5, <1>6 DEF AccountsTypeOK

LEMMA DoneTyped ==
  ASSUME AccountsTypeOK, NEW c \in Call, Done(c)
  PROVE  call' \in [Call -> Calls]
BY IdleCall DEF Done, AccountsTypeOK

LEMMA MoveTyped ==
  ASSUME AccountsTypeOK, NEW c \in Call, NEW at \in {"tidy", "deleted", "user"}, Move(c, at)
  PROVE  call' \in [Call -> Calls]
<1>1. call[c] \in Calls
  BY DEF AccountsTypeOK
<1>2. [call[c] EXCEPT !.at = at] \in Calls
  BY <1>1 DEF Calls
<1>3. QED
  BY <1>2 DEF Move, AccountsTypeOK

LEMMA BeginTyped ==
  ASSUME AccountsTypeOK, NEW c \in Call, NEW record \in Calls, NEW group, Begin(c, record, group)
  PROVE  /\ call' \in [Call -> Calls] /\ overlap' \subseteq Person \cup Visitor
         /\ requests' \in 0..MaxRequest
<1>1. call' \in [Call -> Calls]
  BY DEF Begin, AccountsTypeOK
<1>2. record.covers \subseteq Person \cup Visitor
  BY DEF Calls
<1>3. overlap' \subseteq Person \cup Visitor
  BY <1>2 DEF Begin, AccountsTypeOK
<1>4. requests' \in 0..MaxRequest
  BY AccountConstantsOK DEF Begin, AccountsTypeOK
<1>5. QED
  BY <1>1, <1>3, <1>4

LEMMA DeletedTyped ==
  ASSUME AccountsTypeOK, NEW q
  PROVE  Deleted(q) \in [1..MaxLink -> [who : Person \cup {NoOne},
                               at : {"unborn", "open", "expired", "used", "gone"}]]
<1>1. \A l \in 1..MaxLink : [link[l] EXCEPT !.at = "gone"] \in
        [who : Person \cup {NoOne}, at : {"unborn", "open", "expired", "used", "gone"}]
  BY DEF AccountsTypeOK
<1>2. QED
  BY <1>1 DEF Deleted, AccountsTypeOK

LEMMA FaultTyped ==
  ASSUME AccountsTypeOK, Mishap
  PROVE  (failed' = failed + 1 /\ cut' = cut) \/ (cut' = cut + 1 /\ failed' = failed) =>
           failed' \in Nat /\ cut' \in Nat /\ failed' + cut' <= MaxMishap
BY AccountConstantsOK DEF AccountsTypeOK, Mishap

LEMMA ReleasedTyped ==
  ASSUME AccountsTypeOK, NEW c \in Call, NEW p \in Person \cup {NoOne}, Released(p, c)
  PROVE  page' \in [Person -> Pages]
<1>1. CASE p = NoOne
  BY <1>1 DEF Released, AccountsTypeOK
<1>2. CASE p # NoOne
  <2>1. p \in Person /\ page[p] \in Pages
    BY <1>2 DEF AccountsTypeOK
  <2>2. \E b \in {page[p].busy, NoOne}, i \in {page[p].issuing, FALSE} :
          page' = [page EXCEPT ![p] = [page[p] EXCEPT !.busy = b, !.issuing = i]]
    BY <1>2, <2>1 DEF Released, AccountsTypeOK, Pages
  <2>3. PICK b \in {page[p].busy, NoOne}, i \in {page[p].issuing, FALSE} :
          page' = [page EXCEPT ![p] = [page[p] EXCEPT !.busy = b, !.issuing = i]]
    BY <2>2
  <2>4. [page[p] EXCEPT !.busy = b, !.issuing = i] \in Pages
    BY <2>1 DEF Pages
  <2>5. QED
    BY <2>3, <2>4 DEF AccountsTypeOK
<1>3. QED
  BY <1>1, <1>2

\* Requests that begin.
LEMMA RequestTyped ==
  ASSUME AccountsTypeOK,
         \/ \E c \in Call, p \in Person :
              \/ Login(c, p) \/ Forgot(c, p) \/ IssueMissing(c, p)
              \/ \E q \in Person : Issue(c, p, q) \/ \E what \in Change : Patch(c, p, q, what)
         \/ \E c \in Call, l \in 1..MaxLink : FollowLink(c, l)
         \/ \E c \in Call, v \in Visitor, register \in BOOLEAN : Join(c, v, register)
  PROVE  AccountsTypeOK'
<1> USE DEF historyVars, faultVars, staffVars
<1>1. ASSUME NEW c \in Call, NEW p \in Person, Login(c, p)
      PROVE  AccountsTypeOK'
  <2>1. account[p].role \in Change
    BY <1>1 DEF Login, IsStaff, AccountsTypeOK, Change
  <2>2. [Idle EXCEPT !.op = "login", !.at = "read", !.who = p, !.what = account[p].role] \in Calls
    BY <2>1, IdleCall DEF Calls
  <2>3. call' \in [Call -> Calls]
    BY <1>1, <2>2 DEF Login, AccountsTypeOK
  <2>4. QED
    BY <1>1, <2>3 DEF Login, AccountsTypeOK
<1>2. ASSUME NEW c \in Call, NEW q \in Person, Forgot(c, q)
      PROVE  AccountsTypeOK'
  <2>1. [Idle EXCEPT !.op = "forgot", !.at = "read", !.who = q, !.covers = {q}] \in Calls
    BY IdleCall DEF Calls
  <2>2. /\ call' \in [Call -> Calls] /\ overlap' \subseteq Person \cup Visitor
        /\ requests' \in 0..MaxRequest
    BY <1>2, <2>1, BeginTyped DEF Forgot
  <2>3. QED
    BY <1>2, <2>2 DEF Forgot, AccountsTypeOK
<1>3. ASSUME NEW c \in Call, NEW p \in Person, IssueMissing(c, p)
      PROVE  AccountsTypeOK'
  <2>1. Missing \in SUBSET Person
    BY DEF Missing
  <2>2. [Idle EXCEPT !.op = "sheet", !.at = "read", !.by = p, !.covers = Missing, !.todo = Missing] \in Calls
    BY <2>1, IdleCall DEF Calls
  <2>3. /\ call' \in [Call -> Calls] /\ overlap' \subseteq Person \cup Visitor
        /\ requests' \in 0..MaxRequest
    BY <1>3, <2>2, BeginTyped DEF IssueMissing
  <2>4. page' \in [Person -> Pages]
    <3>1. page[p] \in Pages
      BY DEF AccountsTypeOK
    <3>2. [page[p] EXCEPT !.issuing = TRUE] \in Pages
      BY <3>1 DEF Pages
    <3>3. QED
      BY <1>3, <3>2 DEF IssueMissing, AccountsTypeOK
  <2>5. QED
    BY <1>3, <2>3, <2>4 DEF IssueMissing, AccountsTypeOK
<1>4. ASSUME NEW c \in Call, NEW p \in Person, NEW q \in Person, Issue(c, p, q)
      PROVE  AccountsTypeOK'
  <2>1. [Idle EXCEPT !.op = "issue", !.at = "read", !.by = p, !.who = q, !.covers = {q}] \in Calls
    BY IdleCall DEF Calls
  <2>2. /\ call' \in [Call -> Calls] /\ overlap' \subseteq Person \cup Visitor
        /\ requests' \in 0..MaxRequest
    BY <1>4, <2>1, BeginTyped DEF Issue
  <2>3. page' \in [Person -> Pages]
    <3>1. page[p] \in Pages
      BY DEF AccountsTypeOK
    <3>2. [page[p] EXCEPT !.busy = q] \in Pages
      BY <3>1 DEF Pages
    <3>3. QED
      BY <1>4, <3>2 DEF Issue, AccountsTypeOK
  <2>4. QED
    BY <1>4, <2>2, <2>3 DEF Issue, AccountsTypeOK
<1>5. ASSUME NEW c \in Call, NEW p \in Person, NEW q \in Person, NEW what \in Change, Patch(c, p, q, what)
      PROVE  AccountsTypeOK'
  <2>1. ASSUME NEW n \in {0, 1}, NEW cov \in SUBSET Person
        PROVE  [Idle EXCEPT !.op = "patch", !.at = "read", !.by = p, !.who = q, !.what = what,
                       !.got = n, !.covers = cov] \in Calls
    <3>1. n \in Nat /\ cov \in SUBSET (Person \cup Visitor)
      OBVIOUS
    <3>2. QED
      BY <3>1, IdleCall DEF Calls
  <2>2. [Idle EXCEPT !.op = "patch", !.at = "read", !.by = p, !.who = q, !.what = what,
                           !.got = IF LocksOut(q, what) THEN 1 ELSE 0,
                           !.covers = IF what = "off" THEN {q} ELSE {}] \in Calls
    BY <2>1
  <2>3. /\ call' \in [Call -> Calls] /\ overlap' \subseteq Person \cup Visitor
        /\ requests' \in 0..MaxRequest
    BY <1>5, <2>2, BeginTyped DEF Patch
  <2>4. QED
    BY <1>5, <2>3 DEF Patch, AccountsTypeOK
<1>6. ASSUME NEW c \in Call, NEW l \in 1..MaxLink, FollowLink(c, l)
      PROVE  AccountsTypeOK'
  <2>1. link[l].who \in Person \cup {NoOne}
    BY DEF AccountsTypeOK
  <2>2. link[l].who \in Person
    BY <1>6, <2>1 DEF FollowLink, AccountsTypeOK
  <2>3. [Idle EXCEPT !.op = "reset", !.at = "read", !.who = link[l].who,
                           !.covers = {link[l].who}, !.got = l] \in Calls
    <3>1. l \in Nat
      BY AccountConstantsOK
    <3>2. QED
      BY <2>2, <3>1, IdleCall DEF Calls
  <2>4. /\ call' \in [Call -> Calls] /\ overlap' \subseteq Person \cup Visitor
        /\ requests' \in 0..MaxRequest
    BY <1>6, <2>3, BeginTyped DEF FollowLink
  <2>5. QED
    BY <1>6, <2>4 DEF FollowLink, AccountsTypeOK
<1>7. ASSUME NEW c \in Call, NEW v \in Visitor, NEW register \in BOOLEAN, Join(c, v, register)
      PROVE  AccountsTypeOK'
  <2>1. ASSUME NEW n \in {0, 1}, NEW w \in {"register", "oauth"}
        PROVE  [Idle EXCEPT !.op = "join", !.at = "read", !.who = v, !.covers = {v},
                           !.what = w, !.got = n] \in Calls
    <3>1. n \in Nat /\ {v} \in SUBSET (Person \cup Visitor) /\ w \in Change \cup {"none", "register", "oauth"}
      OBVIOUS
    <3>2. QED
      BY <3>1, IdleCall DEF Calls
  <2>2. [Idle EXCEPT !.op = "join", !.at = "read", !.who = v, !.covers = {v},
                           !.what = IF register THEN "register" ELSE "oauth",
                           !.got = IF visitor[v].user THEN 1 ELSE 0] \in Calls
    BY <2>1
  <2>3. /\ call' \in [Call -> Calls] /\ overlap' \subseteq Person \cup Visitor
        /\ requests' \in 0..MaxRequest
    BY <1>7, <2>2, BeginTyped DEF Join
  <2>4. QED
    BY <1>7, <2>3 DEF Join, AccountsTypeOK
<1>8. QED
  BY <1>1, <1>2, <1>3, <1>4, <1>5, <1>6, <1>7

\* The steps of a request.
LEMMA StepTyped ==
  ASSUME AccountsTypeOK, CallInv, NEW c \in Call, Step(c)
  PROVE  AccountsTypeOK'
<1> USE DEF historyVars, faultVars, staffVars, At
<1>a. call[c] \in Calls
  BY DEF AccountsTypeOK
<1>1. CASE SignedIn(c)
  <2>1. call' \in [Call -> Calls]
    BY <1>1, DoneTyped DEF SignedIn
  <2>2. call[c].who \in Person /\ call[c].what \in {"ADMIN", "STAFF"}
    BY <1>1 DEF SignedIn, CallInv, CallOK
  <2>3. session' \in [Person -> {"none", "ADMIN", "STAFF"}]
    BY <1>1, <2>2 DEF SignedIn, AccountsTypeOK
  <2>4. QED
    BY <1>1, <2>1, <2>3 DEF SignedIn, AccountsTypeOK
<1>2. CASE PatchWrite(c)
  <2>1. call' \in [Call -> Calls]
    BY <1>2, DoneTyped, MoveTyped DEF PatchWrite
  <2>2. call[c].who \in Person /\ call[c].what \in Change
    BY <1>2 DEF PatchWrite, CallInv, CallOK
  <2>3. account[call[c].who] \in [role : {"none", "ADMIN", "STAFF"}, off : BOOLEAN, board : BOOLEAN]
    BY <2>2 DEF AccountsTypeOK
  <2>4. Changed(account[call[c].who], call[c].what) \in
          [role : {"none", "ADMIN", "STAFF"}, off : BOOLEAN, board : BOOLEAN]
    <3>1. CASE call[c].what = "on"
      BY <2>3, <3>1 DEF Changed
    <3>2. CASE call[c].what = "off"
      BY <2>3, <3>2 DEF Changed
    <3>3. CASE call[c].what = "board"
      BY <2>3, <3>3 DEF Changed
    <3>4. CASE call[c].what \in {"ADMIN", "STAFF"}
      BY <2>3, <3>4 DEF Changed
    <3>5. QED
      BY <2>2, <3>1, <3>2, <3>3, <3>4 DEF Change
  <2>5. account' \in [Person -> [role : {"none", "ADMIN", "STAFF"}, off : BOOLEAN, board : BOOLEAN]]
    BY <1>2, <2>2, <2>4 DEF PatchWrite, AccountsTypeOK
  <2>6. stale' \in BOOLEAN
    BY <1>2 DEF PatchWrite, AccountsTypeOK
  <2>7. QED
    BY <1>2, <2>1, <2>5, <2>6 DEF PatchWrite, AccountsTypeOK
<1>3. CASE PatchTidy(c)
  <2>1. call' \in [Call -> Calls]
    BY <1>3, DoneTyped DEF PatchTidy
  <2>2. \A l \in 1..MaxLink : link'[l].at = "unborn" \/ link'[l].who \in Person
    BY <1>3 DEF PatchTidy, Deleted, AccountsTypeOK
  <2>3. halfway' \subseteq Person
    BY <1>3 DEF PatchTidy, AccountsTypeOK
  <2>4. QED
    BY <1>3, <2>1, <2>2, <2>3, DeletedTyped DEF PatchTidy, AccountsTypeOK
<1>4. CASE ForgotDelete(c)
  <2>1. call' \in [Call -> Calls]
    BY <1>4, MoveTyped DEF ForgotDelete
  <2>2. \A l \in 1..MaxLink : link'[l].at = "unborn" \/ link'[l].who \in Person
    BY <1>4 DEF ForgotDelete, Deleted, AccountsTypeOK
  <2>3. QED
    BY <1>4, <2>1, <2>2, DeletedTyped DEF ForgotDelete, AccountsTypeOK
<1>5. CASE ForgotCreate(c)
  <2>1. call' \in [Call -> Calls]
    BY <1>5, DoneTyped DEF ForgotCreate
  <2>2. call[c].who \in Person
    BY <1>5 DEF ForgotCreate, CallInv, CallOK
  <2>3. /\ link' \in [1..MaxLink -> [who : Person \cup {NoOne}, at : {"unborn", "open", "expired", "used", "gone"}]]
        /\ \A l \in 1..MaxLink : link'[l].at = "unborn" \/ link'[l].who \in Person
    BY <1>5, <2>2 DEF ForgotCreate, AccountsTypeOK
  <2>4. QED
    BY <1>5, <2>1, <2>3 DEF ForgotCreate, AccountsTypeOK
<1>6. CASE ResetSpend(c)
  <2>1. call' \in [Call -> Calls]
    BY <1>6, DoneTyped DEF ResetSpend
  <2>2. call[c].got \in 1..MaxLink /\ call[c].who \in Person
    BY <1>6 DEF ResetSpend, CallInv, CallOK
  <2>3. /\ link' \in [1..MaxLink -> [who : Person \cup {NoOne}, at : {"unborn", "open", "expired", "used", "gone"}]]
        /\ \A l \in 1..MaxLink : link'[l].at = "unborn" \/ link'[l].who \in Person
    <3>1. CASE link' = link
      BY <3>1 DEF AccountsTypeOK
    <3>2. CASE link' = [Deleted(call[c].who) EXCEPT ![call[c].got].at = "used"]
                 /\ link[call[c].got].at # "gone"
      <4> DEFINE D == Deleted(call[c].who)
      <4>1. D \in [1..MaxLink -> [who : Person \cup {NoOne}, at : {"unborn", "open", "expired", "used", "gone"}]]
        BY DeletedTyped
      <4>2. \A l \in 1..MaxLink : D[l].who = link[l].who /\ (D[l].at = "unborn" <=> link[l].at = "unborn")
        BY DEF Deleted, AccountsTypeOK
      <4>3. D[call[c].got] \in [who : Person \cup {NoOne}, at : {"unborn", "open", "expired", "used", "gone"}]
        BY <4>1, <2>2
      <4>4. [D[call[c].got] EXCEPT !.at = "used"] \in
               [who : Person \cup {NoOne}, at : {"unborn", "open", "expired", "used", "gone"}]
        BY <4>3
      <4>5. link[call[c].got].who \in Person
        BY <2>2, <1>6 DEF ResetSpend, CallInv, CallOK
      <4> HIDE DEF D
      <4>6. QED
        BY <3>2, <4>1, <4>2, <4>3, <4>4, <4>5, <2>2 DEF AccountsTypeOK, D
    <3>3. QED
      BY <1>6, <3>1, <3>2 DEF ResetSpend
  <2>4. QED
    BY <1>6, <2>1, <2>3 DEF ResetSpend, AccountsTypeOK
<1>7. CASE IssueWrite(c)
  <2>1. call[c].who \in Person /\ call[c].by \in Person
    BY <1>7 DEF IssueWrite, CallInv, CallOK
  <2>2. PICK d \in Fresh :
          /\ pin' = [pin EXCEPT ![call[c].who] = d]
          /\ call' = [call EXCEPT ![c].at = "answer", ![c].slips = [NoSlips EXCEPT ![call[c].who] = d]]
    BY <1>7 DEF IssueWrite
  <2>3. d \in Pin
    BY DEF Fresh
  <2>4. [NoSlips EXCEPT ![call[c].who] = d] \in [Person -> Pin \cup {NoPin}]
    BY <2>3, IdleCall
  <2>5. [call[c] EXCEPT !.at = "answer", !.slips = [NoSlips EXCEPT ![call[c].who] = d]] \in Calls
    BY <1>a, <2>4 DEF Calls
  <2>6. call' = [call EXCEPT ![c] = [call[c] EXCEPT !.at = "answer", !.slips = [NoSlips EXCEPT ![call[c].who] = d]]]
    BY <2>2, <1>a DEF AccountsTypeOK, Calls
  <2>7. call' \in [Call -> Calls]
    BY <2>5, <2>6 DEF AccountsTypeOK
  <2>8. pin' \in [Person -> Pin \cup {NoPin}]
    BY <2>2, <2>3 DEF AccountsTypeOK
  <2>9. overlap' \subseteq Person \cup Visitor
    BY <1>7, <2>1 DEF IssueWrite, AccountsTypeOK
  <2>10. QED
    BY <1>7, <2>7, <2>8, <2>9 DEF IssueWrite, AccountsTypeOK
<1>8. CASE IssueShown(c)
  <2>1. call[c].who \in Person /\ call[c].by \in Person
    BY <1>8 DEF IssueShown, CallInv, CallOK
  <2>2. call' \in [Call -> Calls]
    BY <1>8, DoneTyped DEF IssueShown
  <2> DEFINE p == call[c].by
             q == call[c].who
             d == call[c].slips[q]
  <2>3. page[p] \in Pages /\ d \in Pin \cup {NoPin}
    BY <2>1, <1>a DEF AccountsTypeOK, Calls
  <2>4. \E v \in {NoPin, d} : page' = [page EXCEPT ![p] =
          [page[p] EXCEPT !.shown = [@ EXCEPT ![q] = d], !.busy = NoOne, !.sheet = [@ EXCEPT ![q] = v]]]
    BY <1>8, <2>1, <2>3 DEF IssueShown, AccountsTypeOK, Pages
  <2>5. PICK v \in {NoPin, d} : page' = [page EXCEPT ![p] =
          [page[p] EXCEPT !.shown = [@ EXCEPT ![q] = d], !.busy = NoOne, !.sheet = [@ EXCEPT ![q] = v]]]
    BY <2>4
  <2>6. /\ [page[p].shown EXCEPT ![q] = d] \in [Person -> Pin \cup {NoPin}]
        /\ [page[p].sheet EXCEPT ![q] = v] \in [Person -> Pin \cup {NoPin}]
    BY <2>3, <2>1 DEF Pages
  <2>7. [page[p] EXCEPT !.shown = [@ EXCEPT ![q] = d], !.busy = NoOne, !.sheet = [@ EXCEPT ![q] = v]] \in Pages
    BY <2>3, <2>6 DEF Pages
  <2>8. page' \in [Person -> Pages]
    BY <2>5, <2>7, <2>1 DEF AccountsTypeOK
  <2>9. QED
    BY <1>8, <2>2, <2>8 DEF IssueShown, AccountsTypeOK
<1>9. CASE SheetWrite(c)
  <2>1. PICK q \in call[c].todo, d \in Fresh :
          IF pin[q] = NoPin
          THEN /\ pin' = [pin EXCEPT ![q] = d]
               /\ call' = [call EXCEPT ![c].todo = @ \ {q}, ![c].slips[q] = d]
          ELSE /\ call' = [call EXCEPT ![c].todo = @ \ {q}]
               /\ UNCHANGED pin
    BY <1>9 DEF SheetWrite
  <2>2. q \in Person /\ d \in Pin
    BY <1>a DEF Calls, Fresh
  <2>3. \E v \in {d, call[c].slips[q]} :
          call' = [call EXCEPT ![c] = [call[c] EXCEPT !.todo = @ \ {q}, !.slips = [@ EXCEPT ![q] = v]]]
    <3>1. CASE pin[q] = NoPin
      <4>1. call' = [call EXCEPT ![c] = [call[c] EXCEPT !.todo = @ \ {q}, !.slips = [@ EXCEPT ![q] = d]]]
        BY <2>1, <2>2, <1>a, <3>1 DEF AccountsTypeOK, Calls
      <4>2. QED
        BY <4>1
    <3>2. CASE pin[q] # NoPin
      <4>1. [call[c] EXCEPT !.todo = @ \ {q}, !.slips = [@ EXCEPT ![q] = call[c].slips[q]]] =
               [call[c] EXCEPT !.todo = @ \ {q}]
        BY <2>2, <1>a DEF Calls
      <4>2. call' = [call EXCEPT ![c] = [call[c] EXCEPT !.todo = @ \ {q}]]
        BY <2>1, <1>a, <3>2 DEF AccountsTypeOK, Calls
      <4>3. QED
        BY <4>1, <4>2
    <3>3. QED
      BY <3>1, <3>2
  <2>4. PICK v \in {d, call[c].slips[q]} :
          call' = [call EXCEPT ![c] = [call[c] EXCEPT !.todo = @ \ {q}, !.slips = [@ EXCEPT ![q] = v]]]
    BY <2>3
  <2>5. v \in Pin \cup {NoPin}
    BY <2>2, <1>a DEF Calls
  <2>6. [call[c].slips EXCEPT ![q] = v] \in [Person -> Pin \cup {NoPin}] /\ call[c].todo \ {q} \in SUBSET Person
    BY <2>5, <2>2, <1>a DEF Calls
  <2>7. [call[c] EXCEPT !.todo = @ \ {q}, !.slips = [@ EXCEPT ![q] = v]] \in Calls
    BY <2>6, <1>a DEF Calls
  <2>8. call' \in [Call -> Calls]
    BY <2>4, <2>7 DEF AccountsTypeOK
  <2>9. pin' \in [Person -> Pin \cup {NoPin}]
    BY <2>1, <2>2 DEF AccountsTypeOK
  <2>10. QED
    BY <1>9, <2>8, <2>9 DEF SheetWrite, AccountsTypeOK
<1>10. CASE SheetSkips(c)
  <2>1. PICK q \in call[c].todo : call' = [call EXCEPT ![c].todo = @ \ {q}]
    BY <1>10 DEF SheetSkips
  <2>2. [call[c] EXCEPT !.todo = @ \ {q}] \in Calls
    BY <1>a DEF Calls
  <2>3. call' \in [Call -> Calls]
    BY <2>1, <2>2 DEF AccountsTypeOK
  <2>4. failed' \in Nat /\ cut' \in Nat /\ failed' + cut' <= MaxMishap
    BY <1>10, FaultTyped DEF SheetSkips
  <2>5. QED
    BY <1>10, <2>3, <2>4 DEF SheetSkips, AccountsTypeOK
<1>11. CASE SheetShown(c)
  <2>1. call[c].by \in Person
    BY <1>11 DEF SheetShown, CallInv, CallOK
  <2>2. call' \in [Call -> Calls]
    BY <1>11, DoneTyped DEF SheetShown
  <2> DEFINE p == call[c].by
             slips == call[c].slips
  <2>3. page[p] \in Pages /\ slips \in [Person -> Pin \cup {NoPin}]
    BY <2>1, <1>a DEF AccountsTypeOK, Calls
  <2>4. \E sh \in {page[p].sheet, slips} : page' = [page EXCEPT ![p] =
          [page[p] EXCEPT !.issuing = FALSE, !.sheet = sh, !.open = (slips # NoSlips)]]
    BY <1>11, <2>1, <2>3 DEF SheetShown, AccountsTypeOK, Pages
  <2>5. PICK sh \in {page[p].sheet, slips} : page' = [page EXCEPT ![p] =
          [page[p] EXCEPT !.issuing = FALSE, !.sheet = sh, !.open = (slips # NoSlips)]]
    BY <2>4
  <2>6. [page[p] EXCEPT !.issuing = FALSE, !.sheet = sh, !.open = (slips # NoSlips)] \in Pages
    BY <2>3 DEF Pages
  <2>7. page' \in [Person -> Pages]
    BY <2>5, <2>6, <2>1 DEF AccountsTypeOK
  <2>8. QED
    BY <1>11, <2>2, <2>7 DEF SheetShown, AccountsTypeOK
<1>12. CASE JoinUser(c)
  <2>1. call[c].who \in Visitor
    BY <1>12 DEF JoinUser, CallInv, CallOK
  <2>2. call' \in [Call -> Calls]
    BY <1>12, DoneTyped, MoveTyped DEF JoinUser
  <2>3. visitor' \in [Visitor -> [user : BOOLEAN, rows : Nat]]
    <3>1. visitor[call[c].who] \in [user : BOOLEAN, rows : Nat]
      BY <2>1 DEF AccountsTypeOK
    <3>2. [visitor[call[c].who] EXCEPT !.user = TRUE] \in [user : BOOLEAN, rows : Nat]
      BY <3>1
    <3>3. QED
      BY <1>12, <2>1, <3>2 DEF JoinUser, AccountsTypeOK
  <2>4. QED
    BY <1>12, <2>2, <2>3 DEF JoinUser, AccountsTypeOK
<1>13. CASE EnsureFind(c)
  <2>1. call[c].who \in Visitor
    BY <1>13 DEF EnsureFind, CallInv, CallOK
  <2>2. visitor[call[c].who].rows \in Nat
    BY <2>1 DEF AccountsTypeOK
  <2>3. [call[c] EXCEPT !.at = "found", !.got = visitor[call[c].who].rows] \in Calls
    BY <2>2, <1>a DEF Calls
  <2>4. call' = [call EXCEPT ![c] = [call[c] EXCEPT !.at = "found", !.got = visitor[call[c].who].rows]]
    BY <1>13, <1>a DEF EnsureFind, AccountsTypeOK, Calls
  <2>5. call' \in [Call -> Calls]
    BY <2>3, <2>4 DEF AccountsTypeOK
  <2>6. QED
    BY <1>13, <2>5 DEF EnsureFind, AccountsTypeOK
<1>14. CASE EnsureWrite(c)
  <2>1. call[c].who \in Visitor
    BY <1>14 DEF EnsureWrite, CallInv, CallOK
  <2>2. call' \in [Call -> Calls]
    BY <1>14, DoneTyped DEF EnsureWrite
  <2>3. visitor[call[c].who] \in [user : BOOLEAN, rows : Nat]
    BY <2>1 DEF AccountsTypeOK
  <2>4. [visitor[call[c].who] EXCEPT !.rows = @ + 1] \in [user : BOOLEAN, rows : Nat]
    BY <2>3
  <2>5. visitor' \in [Visitor -> [user : BOOLEAN, rows : Nat]]
    BY <1>14, <2>1, <2>4 DEF EnsureWrite, AccountsTypeOK
  <2>6. QED
    BY <1>14, <2>2, <2>5 DEF EnsureWrite, AccountsTypeOK
<1>15. CASE StatementFails(c) \/ LostAnswer(c)
  <2>1. call[c].by \in Person \cup {NoOne}
    BY <1>a DEF Calls
  <2>2. call' \in [Call -> Calls]
    BY <1>15, DoneTyped DEF StatementFails, LostAnswer
  <2>3. page' \in [Person -> Pages]
    BY <1>15, <2>1, ReleasedTyped DEF StatementFails, LostAnswer
  <2>4. failed' \in Nat /\ cut' \in Nat /\ failed' + cut' <= MaxMishap
    BY <1>15, FaultTyped DEF StatementFails, LostAnswer
  <2>5. halfway' \subseteq Person /\ unheard' \subseteq Person
    BY <1>15 DEF StatementFails, LostAnswer, ToTidy, ToShow, AccountsTypeOK
  <2>6. QED
    BY <1>15, <2>2, <2>3, <2>4, <2>5 DEF StatementFails, LostAnswer, AccountsTypeOK
<1>16. QED
  BY <1>1, <1>2, <1>3, <1>4, <1>5, <1>6, <1>7, <1>8, <1>9, <1>10, <1>11, <1>12, <1>13, <1>14, <1>15 DEF Step

\* What happens at once: to a link, to a page, to a row.
LEMMA PlainTyped ==
  ASSUME AccountsTypeOK,
         \/ \E l \in 1..MaxLink : LinkExpires(l)
         \/ \E p \in Person :
              \/ SignOut(p) \/ HandedOut(p) \/ Enrol(p)
              \/ \E q \in Person : HidePin(p, q) \/ \E role \in {"ADMIN", "STAFF"} : AddLogin(p, q, role)
  PROVE  AccountsTypeOK'
<1> USE DEF historyVars, faultVars, staffVars
<1>1. ASSUME NEW l \in 1..MaxLink, LinkExpires(l)
      PROVE  AccountsTypeOK'
  BY <1>1 DEF LinkExpires, AccountsTypeOK
<1>2. ASSUME NEW p \in Person, SignOut(p)
      PROVE  AccountsTypeOK'
  BY <1>2, IdleCall DEF SignOut, AccountsTypeOK
<1>3. ASSUME NEW p \in Person, HandedOut(p)
      PROVE  AccountsTypeOK'
  <2>1. page[p] \in Pages
    BY DEF AccountsTypeOK
  <2>2. [page[p] EXCEPT !.sheet = NoSlips, !.open = FALSE] \in Pages
    BY <2>1, IdleCall DEF Pages
  <2>3. page' = [page EXCEPT ![p] = [page[p] EXCEPT !.sheet = NoSlips, !.open = FALSE]]
    BY <1>3, <2>1 DEF HandedOut, AccountsTypeOK, Pages
  <2>4. QED
    BY <1>3, <2>2, <2>3 DEF HandedOut, AccountsTypeOK
<1>4. ASSUME NEW q \in Person, Enrol(q)
      PROVE  AccountsTypeOK'
  <2>1. pin' \in [Person -> Pin \cup {NoPin}]
    BY <1>4 DEF Enrol, Fresh, AccountsTypeOK
  <2>2. QED
    BY <1>4, <2>1 DEF Enrol, AccountsTypeOK, NoLogin
<1>5. ASSUME NEW p \in Person, NEW q \in Person, HidePin(p, q)
      PROVE  AccountsTypeOK'
  <2>1. page[p] \in Pages
    BY DEF AccountsTypeOK
  <2>2. [page[p].shown EXCEPT ![q] = NoPin] \in [Person -> Pin \cup {NoPin}]
    BY <2>1 DEF Pages
  <2>3. [page[p] EXCEPT !.shown = [@ EXCEPT ![q] = NoPin]] \in Pages
    BY <2>1, <2>2 DEF Pages
  <2>4. page' = [page EXCEPT ![p] = [page[p] EXCEPT !.shown = [@ EXCEPT ![q] = NoPin]]]
    BY <1>5, <2>1 DEF HidePin, AccountsTypeOK, Pages
  <2>5. QED
    BY <1>5, <2>3, <2>4 DEF HidePin, AccountsTypeOK
<1>6. ASSUME NEW p \in Person, NEW q \in Person, NEW role \in {"ADMIN", "STAFF"}, AddLogin(p, q, role)
      PROVE  AccountsTypeOK'
  BY <1>6 DEF AddLogin, AccountsTypeOK, NoLogin
<1>7. QED
  BY <1>1, <1>2, <1>3, <1>4, <1>5, <1>6

LEMMA AccountsTypeNext == AccountsTypeOK /\ CallInv /\ [AccountsNext]_accountsVars => AccountsTypeOK'
<1> SUFFICES ASSUME AccountsTypeOK, CallInv, [AccountsNext]_accountsVars
             PROVE  AccountsTypeOK'
  OBVIOUS
<1>1. CASE UNCHANGED accountsVars
  BY <1>1 DEF accountsVars, staffVars, historyVars, faultVars, AccountsTypeOK
<1>2. CASE AccountsNext
  BY <1>2, StepTyped, RequestTyped, PlainTyped DEF AccountsNext
<1>3. QED
  BY <1>1, <1>2

\* Rows of staff and of links stay what they are, once they are there.
LEMMA RowsGrow ==
  ASSUME AccountsTypeOK, CallInv, [AccountsNext]_accountsVars
  PROVE  /\ \A p \in Person : IsStaff(p) => IsStaff(p)'
         /\ \A l \in 1..MaxLink : link[l].at # "unborn" =>
              link'[l].at # "unborn" /\ link'[l].who = link[l].who
<1>1. ASSUME NEW c \in Call, PatchWrite(c)
      PROVE  \A p \in Person : IsStaff(p) => IsStaff(p)'
  <2>1. call[c].who \in Person /\ call[c].what \in Change
    BY <1>1 DEF PatchWrite, At, CallInv, CallOK
  <2>2. account[call[c].who] \in [role : {"none", "ADMIN", "STAFF"}, off : BOOLEAN, board : BOOLEAN]
    BY <2>1 DEF AccountsTypeOK
  <2>3. account[call[c].who].role # "none" => Changed(account[call[c].who], call[c].what).role # "none"
    <3>1. CASE call[c].what \in {"on", "off", "board"}
      BY <2>2, <3>1 DEF Changed
    <3>2. CASE call[c].what \in {"ADMIN", "STAFF"}
      BY <2>2, <3>2 DEF Changed
    <3>3. QED
      BY <2>1, <3>1, <3>2 DEF Change
  <2>4. QED
    BY <1>1, <2>1, <2>3 DEF PatchWrite, IsStaff, AccountsTypeOK
<1>2. ASSUME NEW q \in Person, \/ Enrol(q)
                               \/ \E p \in Person, role \in {"ADMIN", "STAFF"} : AddLogin(p, q, role)
      PROVE  \A p \in Person : IsStaff(p) => IsStaff(p)'
  BY <1>2 DEF Enrol, AddLogin, IsStaff, AccountsTypeOK, NoLogin
<1>3. ASSUME account' = account
      PROVE  \A p \in Person : IsStaff(p) => IsStaff(p)'
  BY <1>3 DEF IsStaff
<1>4. ASSUME NEW c \in Call, PatchTidy(c) \/ ForgotDelete(c)
      PROVE  \A l \in 1..MaxLink : link[l].at # "unborn" =>
               link'[l].at # "unborn" /\ link'[l].who = link[l].who
  <2>1. \A l \in 1..MaxLink : Deleted(call[c].who)[l].who = link[l].who
                            /\ (Deleted(call[c].who)[l].at = "unborn" <=> link[l].at = "unborn")
    BY DEF Deleted, AccountsTypeOK
  <2>2. link' = Deleted(call[c].who)
    BY <1>4 DEF PatchTidy, ForgotDelete
  <2>3. QED
    BY <2>1, <2>2
<1>5. ASSUME NEW c \in Call, ForgotCreate(c)
      PROVE  \A l \in 1..MaxLink : link[l].at # "unborn" =>
               link'[l].at # "unborn" /\ link'[l].who = link[l].who
  BY <1>5 DEF ForgotCreate, AccountsTypeOK
<1>6. ASSUME NEW c \in Call, ResetSpend(c)
      PROVE  \A l \in 1..MaxLink : link[l].at # "unborn" =>
               link'[l].at # "unborn" /\ link'[l].who = link[l].who
  <2> DEFINE D == Deleted(call[c].who)
  <2>1. D \in [1..MaxLink -> [who : Person \cup {NoOne}, at : {"unborn", "open", "expired", "used", "gone"}]]
    BY DeletedTyped
  <2>2. \A l \in 1..MaxLink : D[l].who = link[l].who /\ (D[l].at = "unborn" <=> link[l].at = "unborn")
    BY DEF Deleted, AccountsTypeOK
  <2> HIDE DEF D
  <2>3. link' = link \/ link' = [D EXCEPT ![call[c].got].at = "used"]
    BY <1>6 DEF ResetSpend, D
  <2>4. CASE link' = link
    BY <2>4
  <2>5. CASE link' = [D EXCEPT ![call[c].got].at = "used"]
    <3>1. call[c].got \in 1..MaxLink
      BY <1>6 DEF ResetSpend, At, CallInv, CallOK
    <3>2. D[call[c].got] \in [who : Person \cup {NoOne}, at : {"unborn", "open", "expired", "used", "gone"}]
      BY <2>1, <3>1
    <3>3. \A l \in 1..MaxLink : link'[l] = IF l = call[c].got THEN [D[l] EXCEPT !.at = "used"] ELSE D[l]
      BY <2>5, <2>1
    <3>4. link'[call[c].got].who = D[call[c].got].who /\ link'[call[c].got].at = "used"
      BY <3>1, <3>2, <3>3
    <3>5. QED
      BY <2>1, <2>2, <3>3, <3>4
  <2>6. QED
    BY <2>3, <2>4, <2>5
<1>7. ASSUME NEW l \in 1..MaxLink, LinkExpires(l)
      PROVE  \A k \in 1..MaxLink : link[k].at # "unborn" =>
               link'[k].at # "unborn" /\ link'[k].who = link[k].who
  BY <1>7 DEF LinkExpires, AccountsTypeOK
<1>8. ASSUME link' = link
      PROVE  \A l \in 1..MaxLink : link[l].at # "unborn" =>
               link'[l].at # "unborn" /\ link'[l].who = link[l].who
  BY <1>8
<1>9. \/ account' = account
      \/ \E c \in Call : PatchWrite(c)
      \/ \E q \in Person : \/ Enrol(q)
                           \/ \E p \in Person, role \in {"ADMIN", "STAFF"} : AddLogin(p, q, role)
  <2>1. ASSUME NEW c \in Call, Step(c)
        PROVE  account' = account \/ PatchWrite(c)
    BY <2>1 DEF Step, staffVars, SignedIn, PatchTidy, ForgotDelete, ForgotCreate, ResetSpend,
       IssueWrite, IssueShown, SheetWrite, SheetSkips, SheetShown, JoinUser, EnsureFind, EnsureWrite,
       StatementFails, LostAnswer
  <2>2. ASSUME NEW c \in Call, NEW p \in Person,
               \/ Login(c, p) \/ Forgot(c, p) \/ IssueMissing(c, p)
               \/ \E q \in Person : Issue(c, p, q) \/ \E what \in Change : Patch(c, p, q, what)
        PROVE  account' = account
    BY <2>2 DEF Login, Forgot, IssueMissing, Issue, Patch, staffVars
  <2>3. ASSUME NEW c \in Call,
               \/ \E l \in 1..MaxLink : FollowLink(c, l)
               \/ \E v \in Visitor, register \in BOOLEAN : Join(c, v, register)
        PROVE  account' = account
    BY <2>3 DEF FollowLink, Join, staffVars
  <2>4. ASSUME \E l \in 1..MaxLink : LinkExpires(l)
        PROVE  account' = account
    BY <2>4 DEF LinkExpires, staffVars
  <2>5. ASSUME NEW p \in Person, SignOut(p) \/ HandedOut(p) \/ \E q \in Person : HidePin(p, q)
        PROVE  account' = account
    BY <2>5 DEF SignOut, HandedOut, HidePin, staffVars
  <2>6. CASE UNCHANGED accountsVars
    BY <2>6 DEF accountsVars, staffVars
  <2>7. QED
    BY <2>1, <2>2, <2>3, <2>4, <2>5, <2>6 DEF AccountsNext
<1>10. \/ link' = link
       \/ \E c \in Call : PatchTidy(c) \/ ForgotDelete(c) \/ ForgotCreate(c) \/ ResetSpend(c)
       \/ \E l \in 1..MaxLink : LinkExpires(l)
  <2>1. ASSUME NEW c \in Call, Step(c)
        PROVE  link' = link \/ PatchTidy(c) \/ ForgotDelete(c) \/ ForgotCreate(c) \/ ResetSpend(c)
    BY <2>1 DEF Step, SignedIn, PatchWrite,
       IssueWrite, IssueShown, SheetWrite, SheetSkips, SheetShown, JoinUser, EnsureFind, EnsureWrite,
       StatementFails, LostAnswer
  <2>2. ASSUME NEW c \in Call, NEW p \in Person,
               \/ Login(c, p) \/ Forgot(c, p) \/ IssueMissing(c, p)
               \/ \E q \in Person : Issue(c, p, q) \/ \E what \in Change : Patch(c, p, q, what)
        PROVE  link' = link
    BY <2>2 DEF Login, Forgot, IssueMissing, Issue, Patch
  <2>3. ASSUME NEW c \in Call,
               \/ \E l \in 1..MaxLink : FollowLink(c, l)
               \/ \E v \in Visitor, register \in BOOLEAN : Join(c, v, register)
        PROVE  link' = link
    BY <2>3 DEF FollowLink, Join
  <2>4. ASSUME NEW p \in Person,
               \/ SignOut(p) \/ HandedOut(p) \/ Enrol(p)
               \/ \E q \in Person : HidePin(p, q) \/ \E role \in {"ADMIN", "STAFF"} : AddLogin(p, q, role)
        PROVE  link' = link
    BY <2>4 DEF SignOut, HandedOut, HidePin, Enrol, AddLogin
  <2>5. CASE UNCHANGED accountsVars
    BY <2>5 DEF accountsVars
  <2>6. QED
    BY <2>1, <2>2, <2>3, <2>4, <2>5 DEF AccountsNext
<1>11. QED
  BY <1>1, <1>2, <1>3, <1>4, <1>5, <1>6, <1>7, <1>8, <1>9, <1>10

LEMMA CallStays ==
  ASSUME AccountsTypeOK, CallInv, [AccountsNext]_accountsVars, NEW d \in Call, call'[d] = call[d]
  PROVE  CallOK(call[d])'
<1>1. CallOK(call[d]) /\ call[d] \in Calls
  BY DEF CallInv, AccountsTypeOK
<1>2. call[d].op = "issue" => IsStaff(call[d].who)'
  BY <1>1, RowsGrow DEF CallOK
<1>3. call[d].op = "reset" => link'[call[d].got].who = call[d].who /\ link'[call[d].got].at # "unborn"
  BY <1>1, RowsGrow DEF CallOK
<1>4. call[d].op = "sheet" => \A p \in call[d].covers : IsStaff(p)'
  BY <1>1, RowsGrow DEF CallOK
<1>5. QED
  BY <1>1, <1>2, <1>3, <1>4 DEF CallOK

LEMMA CallEnds ==
  ASSUME NEW d \in Call, call'[d] = Idle
  PROVE  CallOK(call[d])'
BY DEF CallOK, Idle

LEMMA CallDone ==
  ASSUME AccountsTypeOK, CallInv, [AccountsNext]_accountsVars, NEW c \in Call, Done(c)
  PROVE  CallInv'
<1>1. \A d \in Call : call'[d] = IF d = c THEN Idle ELSE call[d]
  BY DEF Done, AccountsTypeOK
<1>2. QED
  BY <1>1, CallStays, CallEnds DEF CallInv

LEMMA CallLeft ==
  ASSUME AccountsTypeOK, CallInv, [AccountsNext]_accountsVars, call' = call
  PROVE  CallInv'
BY CallStays DEF CallInv

LEMMA CallMoves ==
  ASSUME AccountsTypeOK, CallInv, [AccountsNext]_accountsVars, NEW c \in Call, NEW x,
         call' = [call EXCEPT ![c] = x], CallOK(x)'
  PROVE  CallInv'
<1>1. \A d \in Call : call'[d] = IF d = c THEN x ELSE call[d]
  BY DEF AccountsTypeOK
<1>2. \A d \in Call \ {c} : CallOK(call[d])'
  BY <1>1, CallStays
<1>3. CallOK(call[c])'
  BY <1>1
<1>4. QED
  BY <1>2, <1>3 DEF CallInv

LEMMA CallStep ==
  ASSUME AccountsTypeOK, CallInv, NEW c \in Call, Step(c)
  PROVE  CallInv'
<1> USE DEF At
<1>a. call[c] \in Calls /\ CallOK(call[c]) /\ [AccountsNext]_accountsVars
  BY DEF AccountsTypeOK, CallInv, AccountsNext
<1>1. CASE Done(c)
  BY <1>1, <1>a, CallDone
<1>2. ASSUME NEW at \in {"tidy", "deleted", "user"}, Move(c, at),
             \/ at = "tidy" /\ call[c].op = "patch" /\ call[c].what = "off"
             \/ at = "deleted" /\ call[c].op = "forgot"
             \/ at = "user" /\ call[c].op = "join"
      PROVE  CallInv'
  <2>0. PICK x : x = [call[c] EXCEPT !.at = at]
    OBVIOUS
  <2>1. call' = [call EXCEPT ![c] = x]
    BY <2>0, <1>2, <1>a DEF Move, AccountsTypeOK, Calls
  <2>2. /\ x.op = call[c].op /\ x.by = call[c].by /\ x.who = call[c].who /\ x.what = call[c].what
        /\ x.covers = call[c].covers /\ x.todo = call[c].todo /\ x.got = call[c].got /\ x.at = at
    BY <2>0, <1>a DEF Calls
  <2>3. CallOK(x)'
    BY <1>2, <1>a, <2>2 DEF CallOK
  <2>4. QED
    BY <2>1, <2>3, <1>a, CallMoves
<1>3. CASE PatchWrite(c) \/ ForgotDelete(c) \/ JoinUser(c)
  BY <1>3, <1>1, <1>2 DEF PatchWrite, ForgotDelete, JoinUser
<1>4. CASE IssueWrite(c)
  <2>1. PICK d \in Fresh :
          call' = [call EXCEPT ![c].at = "answer", ![c].slips = [NoSlips EXCEPT ![call[c].who] = d]]
    BY <1>4 DEF IssueWrite
  <2>0. PICK x : x = [call[c] EXCEPT !.at = "answer", !.slips = [NoSlips EXCEPT ![call[c].who] = d]]
    OBVIOUS
  <2>2. call' = [call EXCEPT ![c] = x]
    BY <2>0, <2>1, <1>a DEF AccountsTypeOK, Calls
  <2>3. /\ x.op = "issue" /\ x.by = call[c].by /\ x.who = call[c].who
        /\ x.covers = call[c].covers /\ x.at = "answer"
    BY <2>0, <1>a, <1>4 DEF Calls, IssueWrite
  <2>4. IsStaff(x.who)'
    BY <1>4, <1>a, <2>3, RowsGrow DEF IssueWrite, CallOK
  <2>5. CallOK(x)'
    BY <1>4, <1>a, <2>3, <2>4 DEF CallOK, IssueWrite
  <2>6. QED
    BY <2>2, <2>5, <1>a, CallMoves
<1>5. CASE SheetWrite(c) \/ SheetSkips(c)
  <2>1. \E q \in call[c].todo, v \in [Person -> Pin \cup {NoPin}] :
          call' = [call EXCEPT ![c] = [call[c] EXCEPT !.todo = @ \ {q}, !.slips = v]]
    <3>1. call[c].slips \in [Person -> Pin \cup {NoPin}] /\ call[c].todo \subseteq Person
      BY <1>a DEF Calls
    <3>2. CASE SheetSkips(c)
      <4>1. PICK q \in call[c].todo : call' = [call EXCEPT ![c].todo = @ \ {q}]
        BY <3>2 DEF SheetSkips
      <4>2. [call[c] EXCEPT !.todo = @ \ {q}, !.slips = call[c].slips] = [call[c] EXCEPT !.todo = @ \ {q}]
        BY <1>a DEF Calls
      <4>3. call' = [call EXCEPT ![c] = [call[c] EXCEPT !.todo = @ \ {q}]]
        BY <4>1, <1>a DEF AccountsTypeOK, Calls
      <4>4. QED
        BY <3>1, <4>2, <4>3
    <3>3. CASE SheetWrite(c)
      <4>1. PICK q \in call[c].todo, d \in Fresh :
              IF pin[q] = NoPin
              THEN call' = [call EXCEPT ![c].todo = @ \ {q}, ![c].slips[q] = d]
              ELSE call' = [call EXCEPT ![c].todo = @ \ {q}]
        BY <3>3 DEF SheetWrite
      <4>2. CASE pin[q] = NoPin
        <5>1. [call[c].slips EXCEPT ![q] = d] \in [Person -> Pin \cup {NoPin}]
          BY <3>1 DEF Fresh
        <5>2. call' = [call EXCEPT ![c] =
                 [call[c] EXCEPT !.todo = @ \ {q}, !.slips = [call[c].slips EXCEPT ![q] = d]]]
          BY <4>1, <4>2, <1>a, <3>1 DEF AccountsTypeOK, Calls
        <5>3. QED
          BY <5>1, <5>2
      <4>3. CASE pin[q] # NoPin
        <5>1. [call[c] EXCEPT !.todo = @ \ {q}, !.slips = call[c].slips] = [call[c] EXCEPT !.todo = @ \ {q}]
          BY <1>a DEF Calls
        <5>2. call' = [call EXCEPT ![c] = [call[c] EXCEPT !.todo = @ \ {q}]]
          BY <4>1, <4>3, <1>a DEF AccountsTypeOK, Calls
        <5>3. QED
          BY <3>1, <5>1, <5>2
      <4>4. QED
        BY <4>2, <4>3
    <3>4. QED
      BY <1>5, <3>2, <3>3
  <2>2. PICK q \in call[c].todo, v \in [Person -> Pin \cup {NoPin}] :
          call' = [call EXCEPT ![c] = [call[c] EXCEPT !.todo = @ \ {q}, !.slips = v]]
    BY <2>1
  <2>0. PICK x : x = [call[c] EXCEPT !.todo = @ \ {q}, !.slips = v]
    OBVIOUS
  <2>3. /\ x.op = "sheet" /\ x.by = call[c].by /\ x.who = call[c].who /\ x.at = call[c].at
        /\ x.covers = call[c].covers /\ x.todo = call[c].todo \ {q}
    BY <2>0, <1>a, <1>5 DEF Calls, SheetWrite, SheetSkips
  <2>4. call' = [call EXCEPT ![c] = x]
    BY <2>0, <2>2
  <2>5. \A p \in Person : IsStaff(p)' <=> IsStaff(p)
    BY <1>5 DEF SheetWrite, SheetSkips, IsStaff, staffVars
  <2>6. CallOK(x)'
    BY <1>5, <1>a, <2>3, <2>5 DEF CallOK, SheetWrite, SheetSkips
  <2>7. QED
    BY <2>4, <2>6, <1>a, CallMoves
<1>6. CASE EnsureFind(c)
  <2>0. PICK x : x = [call[c] EXCEPT !.at = "found", !.got = visitor[call[c].who].rows]
    OBVIOUS
  <2>1. call' = [call EXCEPT ![c] = x]
    BY <2>0, <1>6, <1>a DEF EnsureFind, AccountsTypeOK, Calls
  <2>2. x.op = "join" /\ x.who = call[c].who /\ x.at = "found"
    BY <2>0, <1>6, <1>a DEF EnsureFind, Calls
  <2>3. CallOK(x)'
    BY <1>6, <1>a, <2>2 DEF CallOK, EnsureFind
  <2>4. QED
    BY <2>1, <2>3, <1>a, CallMoves
<1>7. QED
  BY <1>1, <1>3, <1>4, <1>5, <1>6 DEF Step, SignedIn, PatchTidy, ForgotCreate, ResetSpend, IssueShown, SheetShown,
     EnsureWrite, StatementFails, LostAnswer

LEMMA CallBegins ==
  ASSUME AccountsTypeOK, CallInv, [AccountsNext]_accountsVars,
         NEW c \in Call, NEW x, NEW group, Begin(c, x, group), CallOK(x)'
  PROVE  CallInv'
BY CallMoves DEF Begin

LEMMA CallRequest ==
  ASSUME AccountsTypeOK, CallInv,
         \/ \E c \in Call, p \in Person :
              \/ Login(c, p) \/ Forgot(c, p) \/ IssueMissing(c, p)
              \/ \E q \in Person : Issue(c, p, q) \/ \E what \in Change : Patch(c, p, q, what)
         \/ \E c \in Call, l \in 1..MaxLink : FollowLink(c, l)
         \/ \E c \in Call, v \in Visitor, register \in BOOLEAN : Join(c, v, register)
  PROVE  CallInv'
<1>a. [AccountsNext]_accountsVars
  BY DEF AccountsNext
<1>1. ASSUME NEW c \in Call, NEW p \in Person, Login(c, p)
      PROVE  CallInv'
  <2>0. PICK x : x = [Idle EXCEPT !.op = "login", !.at = "read", !.who = p, !.what = account[p].role]
    OBVIOUS
  <2>1. x.op = "login" /\ x.at = "read" /\ x.who = p /\ x.what = account[p].role
    BY <2>0 DEF Idle
  <2>2. account[p].role \in {"ADMIN", "STAFF"}
    BY <2>0, <1>1 DEF Login, IsStaff, AccountsTypeOK
  <2>3. call' = [call EXCEPT ![c] = x]
    BY <2>0, <1>1 DEF Login
  <2>4. CallOK(x)'
    BY <2>1, <2>2 DEF CallOK
  <2>5. QED
    BY <1>a, <2>3, <2>4, CallMoves
<1>2. ASSUME NEW c \in Call, NEW q \in Person, Forgot(c, q)
      PROVE  CallInv'
  <2>0. PICK x : x = [Idle EXCEPT !.op = "forgot", !.at = "read", !.who = q, !.covers = {q}]
    OBVIOUS
  <2>1. x.op = "forgot" /\ x.at = "read" /\ x.who = q /\ x.covers = {q}
    BY <2>0 DEF Idle
  <2>2. Begin(c, x, {"forgot", "reset", "patch"})
    BY <2>0, <1>2 DEF Forgot
  <2>3. CallOK(x)'
    BY <2>1 DEF CallOK
  <2>4. QED
    BY <1>a, <2>2, <2>3, CallBegins
<1>3. ASSUME NEW c \in Call, NEW p \in Person, IssueMissing(c, p)
      PROVE  CallInv'
  <2>0. PICK x : x = [Idle EXCEPT !.op = "sheet", !.at = "read", !.by = p, !.covers = Missing, !.todo = Missing]
    OBVIOUS
  <2>1. x.op = "sheet" /\ x.at = "read" /\ x.by = p /\ x.covers = Missing /\ x.todo = Missing
    BY <2>0 DEF Idle
  <2>2. Begin(c, x, {"issue", "sheet"})
    BY <2>0, <1>3 DEF IssueMissing
  <2>3. \A q \in Missing : q \in Person /\ IsStaff(q)'
    BY <2>0, <1>3 DEF Missing, IssueMissing, IsStaff, staffVars
  <2>4. CallOK(x)'
    BY <2>1, <2>3 DEF CallOK
  <2>5. QED
    BY <1>a, <2>2, <2>4, CallBegins
<1>4. ASSUME NEW c \in Call, NEW p \in Person, NEW q \in Person, Issue(c, p, q)
      PROVE  CallInv'
  <2>0. PICK x : x = [Idle EXCEPT !.op = "issue", !.at = "read", !.by = p, !.who = q, !.covers = {q}]
    OBVIOUS
  <2>1. x.op = "issue" /\ x.at = "read" /\ x.by = p /\ x.who = q /\ x.covers = {q}
    BY <2>0 DEF Idle
  <2>2. Begin(c, x, {"issue", "sheet"})
    BY <2>0, <1>4 DEF Issue
  <2>3. IsStaff(q)'
    BY <2>0, <1>4 DEF Issue, IsStaff, staffVars
  <2>4. CallOK(x)'
    BY <2>1, <2>3 DEF CallOK
  <2>5. QED
    BY <1>a, <2>2, <2>4, CallBegins
<1>5. ASSUME NEW c \in Call, NEW p \in Person, NEW q \in Person, NEW what \in Change, Patch(c, p, q, what)
      PROVE  CallInv'
  <2>0. PICK x : x = [Idle EXCEPT !.op = "patch", !.at = "read", !.by = p, !.who = q, !.what = what,
                           !.got = IF LocksOut(q, what) THEN 1 ELSE 0,
                           !.covers = IF what = "off" THEN {q} ELSE {}]
    OBVIOUS
  <2>1. /\ x.op = "patch" /\ x.at = "read" /\ x.by = p /\ x.who = q /\ x.what = what
        /\ x.got = (IF LocksOut(q, what) THEN 1 ELSE 0) /\ x.covers = (IF what = "off" THEN {q} ELSE {})
    BY <2>0 DEF Idle
  <2>2. Begin(c, x, {"forgot"})
    BY <2>0, <1>5 DEF Patch
  <2>3. p = q => ~LocksOut(q, what)
    BY <2>0, <1>5 DEF Patch
  <2>4. CallOK(x)'
    BY <2>1, <2>3 DEF CallOK
  <2>5. QED
    BY <1>a, <2>2, <2>4, CallBegins
<1>6. ASSUME NEW c \in Call, NEW l \in 1..MaxLink, FollowLink(c, l)
      PROVE  CallInv'
  <2>0. PICK x : x = [Idle EXCEPT !.op = "reset", !.at = "read", !.who = link[l].who,
                           !.covers = {link[l].who}, !.got = l]
    OBVIOUS
  <2>1. x.op = "reset" /\ x.at = "read" /\ x.who = link[l].who /\ x.covers = {link[l].who} /\ x.got = l
    BY <2>0 DEF Idle
  <2>2. Begin(c, x, {"forgot"})
    BY <2>0, <1>6 DEF FollowLink
  <2>3. link[l].who \in Person /\ link' = link /\ link[l].at = "open"
    BY <2>0, <1>6 DEF FollowLink, AccountsTypeOK
  <2>4. CallOK(x)'
    BY <2>1, <2>3 DEF CallOK
  <2>5. QED
    BY <1>a, <2>2, <2>4, CallBegins
<1>7. ASSUME NEW c \in Call, NEW v \in Visitor, NEW register \in BOOLEAN, Join(c, v, register)
      PROVE  CallInv'
  <2>0. PICK x : x = [Idle EXCEPT !.op = "join", !.at = "read", !.who = v, !.covers = {v},
                           !.what = IF register THEN "register" ELSE "oauth",
                           !.got = IF visitor[v].user THEN 1 ELSE 0]
    OBVIOUS
  <2>1. x.op = "join" /\ x.at = "read" /\ x.who = v
    BY <2>0 DEF Idle
  <2>2. Begin(c, x, {"join"})
    BY <2>0, <1>7 DEF Join
  <2>3. CallOK(x)'
    BY <2>1 DEF CallOK
  <2>4. QED
    BY <1>a, <2>2, <2>3, CallBegins
<1>8. QED
  BY <1>1, <1>2, <1>3, <1>4, <1>5, <1>6, <1>7

LEMMA CallInvNext == AccountsTypeOK /\ CallInv /\ [AccountsNext]_accountsVars => CallInv'
<1> SUFFICES ASSUME AccountsTypeOK, CallInv, [AccountsNext]_accountsVars
             PROVE  CallInv'
  OBVIOUS
<1>1. CASE call' = call
  BY <1>1, CallLeft
<1>2. CASE \/ \E l \in 1..MaxLink : LinkExpires(l)
           \/ \E p \in Person :
                \/ SignOut(p) \/ HandedOut(p) \/ Enrol(p)
                \/ \E q \in Person : HidePin(p, q) \/ \E role \in {"ADMIN", "STAFF"} : AddLogin(p, q, role)
  BY <1>1, <1>2 DEF LinkExpires, SignOut, HandedOut, Enrol, HidePin, AddLogin
<1>3. QED
  BY <1>1, <1>2, CallStep, CallRequest DEF AccountsNext, accountsVars

-----------------------------------------------------------------------------
(* An admin who can sign in.                                               *)

LEMMA LockoutNext ==
  AccountsTypeOK /\ CallInv /\ LockoutNeedsStaleAdmin /\ [AccountsNext]_accountsVars => LockoutNeedsStaleAdmin'
<1> SUFFICES ASSUME AccountsTypeOK, CallInv, LockoutNeedsStaleAdmin, [AccountsNext]_accountsVars
             PROVE  LockoutNeedsStaleAdmin'
  OBVIOUS
<1>1. CASE account' = account /\ stale' = stale
  BY <1>1 DEF LockoutNeedsStaleAdmin, EnabledAdmin
<1>2. ASSUME NEW c \in Call, PatchWrite(c)
      PROVE  LockoutNeedsStaleAdmin'
  <2>1. call[c].who \in Person /\ call[c].by \in Person /\ call[c].what \in Change
        /\ (call[c].by = call[c].who => call[c].got = 0)
    BY <1>2 DEF PatchWrite, At, CallInv, CallOK
  <2>2. account' = [account EXCEPT ![call[c].who] = Changed(account[call[c].who], call[c].what)]
    BY <1>2 DEF PatchWrite
  <2>3. account[call[c].who] \in [role : {"none", "ADMIN", "STAFF"}, off : BOOLEAN, board : BOOLEAN]
    BY <2>1 DEF AccountsTypeOK
  <2>4. CASE stale'
    BY <2>4 DEF LockoutNeedsStaleAdmin
  <2>5. CASE ~stale' /\ call[c].what = "board"
    <3>1. /\ Changed(account[call[c].who], call[c].what).role = account[call[c].who].role
          /\ Changed(account[call[c].who], call[c].what).off = account[call[c].who].off
      BY <2>3, <2>5 DEF Changed
    <3>2. \A p \in Person : account'[p].role = account[p].role /\ account'[p].off = account[p].off
      BY <2>1, <2>2, <3>1 DEF AccountsTypeOK
    <3>3. ~stale
      BY <1>2, <2>5 DEF PatchWrite
    <3>4. QED
      BY <3>2, <3>3 DEF LockoutNeedsStaleAdmin, EnabledAdmin
  <2>6. CASE ~stale' /\ call[c].what # "board"
    <3>1. ~Outdated(call[c])
      BY <1>2, <2>6 DEF PatchWrite
    <3>2. EnabledAdmin(call[c].by)
      BY <3>1 DEF Outdated
    <3>3. account'[call[c].by] = account[call[c].by]
      BY <2>1, <2>2, <3>1, <2>6 DEF Outdated, LocksOut, AccountsTypeOK
    <3>4. EnabledAdmin(call[c].by) /\ account'[call[c].by] = account[call[c].by] =>
            \E p \in Person : account'[p].role = "ADMIN" /\ ~account'[p].off
      BY <2>1 DEF EnabledAdmin
    <3>5. QED
      BY <3>2, <3>3, <3>4 DEF LockoutNeedsStaleAdmin, EnabledAdmin
  <2>7. QED
    BY <2>4, <2>5, <2>6
<1>3. ASSUME NEW q \in Person, \/ Enrol(q)
                               \/ \E p \in Person, role \in {"ADMIN", "STAFF"} : AddLogin(p, q, role)
      PROVE  LockoutNeedsStaleAdmin'
  <2>1. ~IsStaff(q) /\ stale' = stale /\ \A p \in Person \ {q} : account'[p] = account[p]
    BY <1>3 DEF Enrol, AddLogin, AccountsTypeOK, historyVars
  <2>2. \A p \in Person : EnabledAdmin(p) => p # q
    BY <2>1 DEF EnabledAdmin, IsStaff
  <2>3. QED
    BY <2>1, <2>2 DEF LockoutNeedsStaleAdmin, EnabledAdmin
<1>4. \/ account' = account /\ stale' = stale
      \/ \E c \in Call : PatchWrite(c)
      \/ \E q \in Person : \/ Enrol(q)
                           \/ \E p \in Person, role \in {"ADMIN", "STAFF"} : AddLogin(p, q, role)
  <2>1. ASSUME NEW c \in Call, Step(c)
        PROVE  (account' = account /\ stale' = stale) \/ PatchWrite(c)
    BY <2>1 DEF Step, staffVars, historyVars, SignedIn, PatchTidy, ForgotDelete, ForgotCreate, ResetSpend,
       IssueWrite, IssueShown, SheetWrite, SheetSkips, SheetShown, JoinUser, EnsureFind, EnsureWrite,
       StatementFails, LostAnswer
  <2>2. ASSUME NEW c \in Call, NEW p \in Person,
               \/ Login(c, p) \/ Forgot(c, p) \/ IssueMissing(c, p)
               \/ \E q \in Person : Issue(c, p, q) \/ \E what \in Change : Patch(c, p, q, what)
        PROVE  account' = account /\ stale' = stale
    BY <2>2 DEF Login, Forgot, IssueMissing, Issue, Patch, staffVars, historyVars
  <2>3. ASSUME NEW c \in Call,
               \/ \E l \in 1..MaxLink : FollowLink(c, l)
               \/ \E v \in Visitor, register \in BOOLEAN : Join(c, v, register)
        PROVE  account' = account /\ stale' = stale
    BY <2>3 DEF FollowLink, Join, staffVars
  <2>4. ASSUME \E l \in 1..MaxLink : LinkExpires(l)
        PROVE  account' = account /\ stale' = stale
    BY <2>4 DEF LinkExpires, staffVars, historyVars
  <2>5. ASSUME NEW p \in Person, SignOut(p) \/ HandedOut(p) \/ \E q \in Person : HidePin(p, q)
        PROVE  account' = account /\ stale' = stale
    BY <2>5 DEF SignOut, HandedOut, HidePin, staffVars, historyVars
  <2>6. CASE UNCHANGED accountsVars
    BY <2>6 DEF accountsVars, staffVars, historyVars
  <2>7. QED
    BY <2>1, <2>2, <2>3, <2>4, <2>5, <2>6 DEF AccountsNext
<1>5. QED
  BY <1>1, <1>2, <1>3, <1>4

-----------------------------------------------------------------------------
(* Reset links.                                                            *)

\* A step leads the request on, ends it, and leaves the others as they are.
LEMMA LedOn ==
  ASSUME AccountsTypeOK, CallInv, NEW c \in Call, Step(c)
  PROVE  /\ \A d \in Call \ {c} : call'[d] = call[d]
         /\ \/ call'[c] = Idle
            \/ /\ call'[c].op = call[c].op /\ call'[c].covers = call[c].covers
               /\ call'[c].who = call[c].who /\ call'[c].by = call[c].by /\ call'[c].what = call[c].what
<1>a. call[c] \in Calls
  BY DEF AccountsTypeOK
<1>1. CASE Done(c)
  BY <1>1 DEF Done, AccountsTypeOK
<1>2. ASSUME NEW at, Move(c, at)
      PROVE  /\ \A d \in Call \ {c} : call'[d] = call[d]
             /\ call'[c] = [call[c] EXCEPT !.at = at]
  BY <1>2, <1>a DEF Move, AccountsTypeOK, Calls
<1>3. CASE PatchWrite(c) \/ ForgotDelete(c) \/ JoinUser(c)
  BY <1>1, <1>2, <1>3, <1>a DEF PatchWrite, ForgotDelete, JoinUser, Calls
<1>4. CASE IssueWrite(c)
  BY <1>4, <1>a DEF IssueWrite, AccountsTypeOK, Calls
<1>5. CASE SheetWrite(c)
  BY <1>5, <1>a DEF SheetWrite, AccountsTypeOK, Calls
<1>6. CASE SheetSkips(c)
  BY <1>6, <1>a DEF SheetSkips, AccountsTypeOK, Calls
<1>7. CASE EnsureFind(c)
  BY <1>7, <1>a DEF EnsureFind, AccountsTypeOK, Calls
<1>8. QED
  BY <1>1, <1>3, <1>4, <1>5, <1>6, <1>7 DEF Step, SignedIn, PatchTidy, ForgotCreate, ResetSpend, IssueShown, SheetShown,
     EnsureWrite, StatementFails, LostAnswer

LEMMA DoingLess ==
  ASSUME AccountsTypeOK, CallInv, NEW c \in Call, Step(c), NEW d \in Call, NEW q,
         NEW ops \in SUBSET {"forgot", "reset", "patch", "issue", "sheet"}, Doing(d, q, ops)'
  PROVE  Doing(d, q, ops)
<1>1. CASE d # c
  BY <1>1, LedOn DEF Doing
<1>2. CASE d = c /\ call'[c] # Idle
  BY <1>2, LedOn DEF Doing
<1>3. CASE d = c /\ call'[c] = Idle
  BY <1>3 DEF Doing, Idle
<1>4. QED
  BY <1>1, <1>2, <1>3

\* What leaves a person's links as they should be.
LEMMA LinkKept ==
  ASSUME NEW q \in Person, LinkOK(q), Open(q)' \subseteq Open(q),
         account'[q].off => account[q].off,
         \A d \in Call : Doing(d, q, {"forgot"})' => Doing(d, q, {"forgot"}),
         \A d \in Call : Doing(d, q, {"forgot", "reset", "patch"})' => Doing(d, q, {"forgot", "reset", "patch"}),
         \A d \in Call : (At(d, "forgot", "deleted") /\ call[d].who = q)' =>
                           (At(d, "forgot", "deleted") /\ call[d].who = q) \/ Open(q)' = {},
         q \in halfway => \/ q \in halfway' \/ Open(q)' = {}
                         \/ \E d \in Call : At(d, "patch", "tidy") /\ call[d].who = q,
         \A d \in Call : At(d, "patch", "tidy") /\ call[d].who = q =>
            (At(d, "patch", "tidy") /\ call[d].who = q)' \/ q \in halfway' \/ Open(q)' = {}
  PROVE  LinkOK(q)'
<1>1. (\A c, d \in Call : Doing(c, q, {"forgot"}) /\ Doing(d, q, {"forgot", "reset", "patch"}) => c = d)'
  BY DEF LinkOK
<1>2. (\A k, l \in Open(q) : k = l)'
  BY DEF LinkOK
<1>3. ((\E c \in Call : At(c, "forgot", "deleted") /\ call[c].who = q) => Open(q) = {})'
  BY DEF LinkOK
<1>4. (account[q].off => \A c \in Call : ~ Doing(c, q, {"forgot"}))'
  BY DEF LinkOK
<1>5. (account[q].off => \/ Open(q) = {} \/ q \in halfway
                         \/ \E c \in Call : At(c, "patch", "tidy") /\ call[c].who = q)'
  BY DEF LinkOK, ToTidy
<1>6. QED
  BY <1>1, <1>2, <1>3, <1>4, <1>5 DEF LinkOK, ToTidy

\* Whose new PIN was not heard of is not forgotten.
LEMMA UnheardGrows == [AccountsNext]_accountsVars => unheard \subseteq unheard'
<1>1. ASSUME NEW c \in Call, Step(c)
      PROVE  unheard \subseteq unheard'
  BY <1>1 DEF Step, faultVars, SignedIn, PatchWrite, PatchTidy, ForgotDelete, ForgotCreate, ResetSpend,
     IssueWrite, IssueShown, SheetWrite, SheetSkips, SheetShown, JoinUser, EnsureFind, EnsureWrite,
     StatementFails, LostAnswer
<1>2. ASSUME NEW c \in Call, NEW p \in Person,
             \/ Login(c, p) \/ Forgot(c, p) \/ IssueMissing(c, p)
             \/ \E q \in Person : Issue(c, p, q) \/ \E what \in Change : Patch(c, p, q, what)
      PROVE  unheard' = unheard
  BY <1>2 DEF Login, Forgot, IssueMissing, Issue, Patch, faultVars
<1>3. ASSUME NEW c \in Call,
             \/ \E l \in 1..MaxLink : FollowLink(c, l)
             \/ \E v \in Visitor, register \in BOOLEAN : Join(c, v, register)
      PROVE  unheard' = unheard
  BY <1>3 DEF FollowLink, Join, faultVars
<1>4. ASSUME \E l \in 1..MaxLink : LinkExpires(l)
      PROVE  unheard' = unheard
  BY <1>4 DEF LinkExpires, faultVars
<1>5. ASSUME NEW p \in Person,
             \/ SignOut(p) \/ HandedOut(p) \/ Enrol(p)
             \/ \E q \in Person : HidePin(p, q) \/ \E role \in {"ADMIN", "STAFF"} : AddLogin(p, q, role)
      PROVE  unheard' = unheard
  BY <1>5 DEF SignOut, HandedOut, Enrol, HidePin, AddLogin, faultVars
<1>6. AccountsNext => unheard \subseteq unheard'
  BY <1>1, <1>2, <1>3, <1>4, <1>5 DEF AccountsNext
<1>7. UNCHANGED accountsVars => unheard' = unheard
  BY DEF accountsVars, faultVars
<1>8. QED
  BY <1>6, <1>7

LEMMA LinkStep ==
  ASSUME AccountsTypeOK, CallInv, LinkInv, NEW c \in Call, Step(c), NEW q \in Person, q \notin overlap'
  PROVE  LinkOK(q)'
<1>a. /\ call[c] \in Calls /\ CallOK(call[c]) /\ [AccountsNext]_accountsVars
  BY DEF AccountsTypeOK, CallInv, AccountsNext
<1>b. q \notin overlap
  BY DEF Step, historyVars, SignedIn, PatchWrite, PatchTidy, ForgotDelete, ForgotCreate, ResetSpend,
     IssueWrite, IssueShown, SheetWrite, SheetSkips, SheetShown, JoinUser, EnsureFind, EnsureWrite,
     StatementFails, LostAnswer
<1>c. LinkOK(q)
  BY <1>b DEF LinkInv
<1>d. /\ \A d \in Call : Doing(d, q, {"forgot"})' => Doing(d, q, {"forgot"})
      /\ \A d \in Call : Doing(d, q, {"forgot", "reset", "patch"})' => Doing(d, q, {"forgot", "reset", "patch"})
  BY DoingLess
<1>e. q \in halfway => \/ q \in halfway' \/ Open(q)' = {}
                       \/ \E d \in Call : At(d, "patch", "tidy") /\ call[d].who = q
  <2>1. q \in halfway => q \in halfway' \/ (At(c, "patch", "tidy") /\ call[c].who = q)
    BY DEF Step, faultVars, SignedIn, PatchWrite, PatchTidy, ForgotDelete, ForgotCreate, ResetSpend,
       IssueWrite, IssueShown, SheetWrite, SheetSkips, SheetShown, JoinUser, EnsureFind, EnsureWrite,
       StatementFails, LostAnswer
  <2>2. QED
    BY <2>1
<1>f. /\ \A d \in Call \ {c} : /\ (At(d, "forgot", "deleted") /\ call[d].who = q)' =>
                                    At(d, "forgot", "deleted") /\ call[d].who = q
                               /\ At(d, "patch", "tidy") /\ call[d].who = q =>
                                    (At(d, "patch", "tidy") /\ call[d].who = q)'
  BY LedOn DEF At
<1>g. call'[c] = Idle => ~At(c, "forgot", "deleted")'
  BY DEF At, Idle
<1>1. ASSUME link' = link, account' = account,
             At(c, "patch", "tidy") /\ call[c].who = q => q \in halfway',
             call[c].op # "forgot" \/ call'[c] = Idle
      PROVE  LinkOK(q)'
  <2>1. Open(q)' = Open(q)
    BY <1>1 DEF Open
  <2>2. (At(c, "forgot", "deleted") /\ call[c].who = q)' => At(c, "forgot", "deleted")
    BY <1>1, <1>g, LedOn DEF At
  <2>3. \A d \in Call : (At(d, "forgot", "deleted") /\ call[d].who = q)' =>
                          (At(d, "forgot", "deleted") /\ call[d].who = q) \/ Open(q)' = {}
    BY <2>2, <1>f, <1>1, <1>g, LedOn DEF At
  <2>4. \A d \in Call : At(d, "patch", "tidy") /\ call[d].who = q =>
            (At(d, "patch", "tidy") /\ call[d].who = q)' \/ q \in halfway' \/ Open(q)' = {}
    BY <1>1, <1>f
  <2>5. QED
    BY <1>c, <1>d, <1>e, <1>1, <2>1, <2>3, <2>4, LinkKept
<1>2. CASE \/ SignedIn(c) \/ IssueWrite(c) \/ IssueShown(c) \/ SheetWrite(c) \/ SheetSkips(c) \/ SheetShown(c)
           \/ JoinUser(c) \/ EnsureFind(c) \/ EnsureWrite(c)
  BY <1>1, <1>2 DEF At, staffVars, SignedIn, IssueWrite, IssueShown, SheetWrite, SheetSkips, SheetShown,
     JoinUser, EnsureFind, EnsureWrite
<1>3. CASE StatementFails(c) \/ LostAnswer(c)
  <2>1. call'[c] = Idle
    BY <1>3 DEF StatementFails, LostAnswer, Done, AccountsTypeOK
  <2>2. At(c, "patch", "tidy") /\ call[c].who = q => q \in halfway'
    BY <1>3 DEF StatementFails, LostAnswer, ToTidy
  <2>3. link' = link /\ account' = account
    BY <1>3 DEF StatementFails, LostAnswer, staffVars
  <2>4. QED
    BY <1>1, <2>1, <2>2, <2>3
<1>4. CASE PatchWrite(c)
  <2> DEFINE w == call[c].who
  <2>1. /\ w \in Person /\ call[c].what \in Change /\ At(c, "patch", "read") /\ link' = link
        /\ (call[c].what = "off" => call[c].covers = {w})
    BY <1>4, <1>a DEF PatchWrite, At, CallOK
  <2>2. Open(q)' = Open(q)
    BY <2>1 DEF Open
  <2>3. \A p \in Person \ {w} : account'[p] = account[p]
    BY <1>4 DEF PatchWrite, AccountsTypeOK
  <2>4. account[w] \in [role : {"none", "ADMIN", "STAFF"}, off : BOOLEAN, board : BOOLEAN]
    BY <2>1 DEF AccountsTypeOK
  <2>5. account'[w] = Changed(account[w], call[c].what)
    BY <1>4, <2>1 DEF PatchWrite, AccountsTypeOK
  <2>6. call[c].what # "off" => (account'[w].off => account[w].off)
    <3>1. CASE call[c].what \in {"on", "board"}
      BY <2>4, <2>5, <3>1 DEF Changed
    <3>2. CASE call[c].what \in {"ADMIN", "STAFF"}
      BY <2>4, <2>5, <3>2 DEF Changed
    <3>3. QED
      BY <2>1, <3>1, <3>2 DEF Change
  <2>7. \A d \in Call : (At(d, "forgot", "deleted") /\ call[d].who = q)' =>
                          (At(d, "forgot", "deleted") /\ call[d].who = q) \/ Open(q)' = {}
    BY <2>1, <1>f, <1>g, LedOn DEF At
  <2>8. \A d \in Call : At(d, "patch", "tidy") /\ call[d].who = q =>
            (At(d, "patch", "tidy") /\ call[d].who = q)' \/ q \in halfway' \/ Open(q)' = {}
    BY <2>1, <1>f DEF At
  <2>9. CASE w # q \/ call[c].what # "off"
    <3>1. account'[q].off => account[q].off
      BY <2>9, <2>3, <2>6
    <3>2. QED
      BY <1>c, <1>d, <1>e, <3>1, <2>2, <2>7, <2>8, LinkKept
  <2>10. CASE w = q /\ call[c].what = "off"
    <3>1. Doing(c, q, {"forgot", "reset", "patch"})
      BY <2>1, <2>10 DEF Doing, At
    <3>2. \A d \in Call : ~Doing(d, q, {"forgot"})
      BY <3>1, <2>1, <1>c DEF LinkOK, Doing, At
    <3>3. \A d \in Call : ~Doing(d, q, {"forgot"})'
      BY <3>2, <1>d
    <3>4. (At(c, "patch", "tidy") /\ call[c].who = q)'
      BY <1>4, <2>10, <1>a, <2>1 DEF PatchWrite, Move, At, AccountsTypeOK, Calls
    <3>5. ((\E d \in Call : At(d, "forgot", "deleted") /\ call[d].who = q) => Open(q) = {})'
      BY <2>2, <2>7, <1>c DEF LinkOK
    <3>6. (\A k, l \in Open(q) : k = l)'
      BY <2>2, <1>c DEF LinkOK
    <3>7. QED
      BY <3>3, <3>4, <3>5, <3>6 DEF LinkOK, ToTidy
  <2>11. QED
    BY <2>9, <2>10
<1>5. ASSUME account' = account, link' = Deleted(call[c].who), call[c].who # q \/ Open(q)' = {}
      PROVE  LinkOK(q)'
  <2>1. Open(q)' \subseteq Open(q)
    <3>1. \A l \in 1..MaxLink : link'[l].who = link[l].who /\ (link'[l].at = "open" => link[l].at = "open")
      BY <1>5 DEF Deleted, AccountsTypeOK
    <3>2. QED
      BY <3>1 DEF Open
  <2>2. \A d \in Call : (At(d, "forgot", "deleted") /\ call[d].who = q)' =>
                          (At(d, "forgot", "deleted") /\ call[d].who = q) \/ Open(q)' = {}
    BY <1>5, <1>f, <1>g, LedOn DEF At
  <2>3. \A d \in Call : At(d, "patch", "tidy") /\ call[d].who = q =>
            (At(d, "patch", "tidy") /\ call[d].who = q)' \/ q \in halfway' \/ Open(q)' = {}
    BY <1>5, <1>f
  <2>4. QED
    BY <1>c, <1>d, <1>e, <1>5, <2>1, <2>2, <2>3, LinkKept
<1>6. CASE PatchTidy(c) \/ ForgotDelete(c)
  <2>1. account' = account /\ link' = Deleted(call[c].who)
    BY <1>6 DEF PatchTidy, ForgotDelete, staffVars
  <2>2. call[c].who = q => Open(q)' = {}
    <3>1. \A l \in 1..MaxLink : ~(Deleted(q)[l].who = q /\ Deleted(q)[l].at = "open")
      BY DEF Deleted, AccountsTypeOK
    <3>2. QED
      BY <2>1, <3>1 DEF Open
  <2>3. QED
    BY <1>5, <2>1, <2>2
<1>7. CASE ForgotCreate(c)
  <2> DEFINE w == call[c].who
  <2>1. /\ w \in Person /\ At(c, "forgot", "deleted") /\ account' = account /\ call[c].covers = {w}
        /\ call'[c] = Idle
    BY <1>7, <1>a DEF ForgotCreate, At, CallOK, staffVars, Done, AccountsTypeOK
  <2>2. PICK l \in 1..MaxLink :
          /\ link[l].at = "unborn"
          /\ link' = [link EXCEPT ![l] = [who |-> w, at |-> "open"]]
    BY <1>7 DEF ForgotCreate
  <2>3. link'[l] = [who |-> w, at |-> "open"] /\ \A k \in (1..MaxLink) \ {l} : link'[k] = link[k]
    BY <2>2 DEF AccountsTypeOK
  <2>4. CASE w # q
    <3>1. Open(q)' = Open(q)
      BY <2>2, <2>3, <2>4 DEF Open
    <3>2. \A d \in Call : (At(d, "forgot", "deleted") /\ call[d].who = q)' =>
                          (At(d, "forgot", "deleted") /\ call[d].who = q) \/ Open(q)' = {}
      BY <2>1, <1>f, <1>g
    <3>3. \A d \in Call : At(d, "patch", "tidy") /\ call[d].who = q =>
            (At(d, "patch", "tidy") /\ call[d].who = q)' \/ q \in halfway' \/ Open(q)' = {}
      BY <2>1, <1>f DEF At
    <3>4. QED
      BY <1>c, <1>d, <1>e, <2>1, <3>1, <3>2, <3>3, LinkKept
  <2>5. CASE w = q
    <3>1. Open(q) = {}
      BY <2>1, <2>5, <1>c DEF LinkOK
    <3>2. Doing(c, q, {"forgot"}) /\ Doing(c, q, {"forgot", "reset", "patch"})
      BY <2>1, <2>5 DEF Doing, At
    <3>3. ~account[q].off
      BY <3>2, <1>c DEF LinkOK
    <3>4. Open(q)' = {l}
      BY <3>1, <2>3, <2>5 DEF Open
    <3>5. \A d \in Call : ~(At(d, "forgot", "deleted") /\ call[d].who = q)'
      <4>1. ASSUME NEW d \in Call, (At(d, "forgot", "deleted") /\ call[d].who = q)'
            PROVE  FALSE
        <5>1. d # c
          BY <4>1, <2>1 DEF At, Idle
        <5>2. call'[d] = call[d]
          BY <5>1, LedOn
        <5>3. call[d].op = "forgot" /\ call[d].who = q
          BY <4>1, <5>2 DEF At
        <5>4. Doing(d, q, {"forgot"}) /\ Doing(d, q, {"forgot", "reset", "patch"})
          BY <5>3 DEF Doing, CallInv, CallOK
        <5>5. QED
          BY <5>1, <5>4, <3>2, <1>c DEF LinkOK
      <4>2. QED
        BY <4>1
    <3>6. \A d, e \in Call : Doing(d, q, {"forgot"})' /\ Doing(e, q, {"forgot", "reset", "patch"})' => d = e
      BY <1>c, <1>d DEF LinkOK
    <3>7. ~account'[q].off /\ \A k, m \in Open(q)' : k = m
      BY <3>3, <3>4, <2>1
    <3>8. QED
      BY <3>5, <3>6, <3>7 DEF LinkOK
  <2>6. QED
    BY <2>4, <2>5
<1>8. CASE ResetSpend(c)
  <2>1. /\ call'[c] = Idle /\ account' = account /\ call[c].got \in 1..MaxLink
        /\ At(c, "reset", "read")
    BY <1>8, <1>a DEF ResetSpend, Done, AccountsTypeOK, staffVars, CallOK, At
  <2>2. CASE link' = link
    BY <1>1, <2>1, <2>2 DEF At
  <2>3. CASE link' = [Deleted(call[c].who) EXCEPT ![call[c].got].at = "used"]
    <3> DEFINE D == Deleted(call[c].who)
    <3>1. D \in [1..MaxLink -> [who : Person \cup {NoOne}, at : {"unborn", "open", "expired", "used", "gone"}]]
      BY DeletedTyped
    <3>2. \A l \in 1..MaxLink : D[l].who = link[l].who /\ (D[l].at = "open" => link[l].at = "open")
      BY DEF Deleted, AccountsTypeOK
    <3> HIDE DEF D
    <3>3. D[call[c].got] \in [who : Person \cup {NoOne}, at : {"unborn", "open", "expired", "used", "gone"}]
      BY <3>1, <2>1
    <3>4. \A l \in 1..MaxLink : link'[l] = IF l = call[c].got THEN [D[l] EXCEPT !.at = "used"] ELSE D[l]
      BY <2>3, <3>1 DEF D
    <3>5. \A l \in 1..MaxLink : link'[l].who = link[l].who /\ (link'[l].at = "open" => link[l].at = "open")
      <4>1. link'[call[c].got].who = D[call[c].got].who /\ link'[call[c].got].at = "used"
        BY <3>3, <3>4, <2>1
      <4>2. QED
        BY <3>2, <3>4, <4>1
    <3>6. Open(q)' \subseteq Open(q)
      BY <3>5 DEF Open
    <3>7. \A d \in Call : (At(d, "forgot", "deleted") /\ call[d].who = q)' =>
                          (At(d, "forgot", "deleted") /\ call[d].who = q) \/ Open(q)' = {}
      BY <2>1, <1>f, <1>g
    <3>8. \A d \in Call : At(d, "patch", "tidy") /\ call[d].who = q =>
            (At(d, "patch", "tidy") /\ call[d].who = q)' \/ q \in halfway' \/ Open(q)' = {}
      BY <2>1, <1>f DEF At
    <3>9. QED
      BY <1>c, <1>d, <1>e, <2>1, <3>6, <3>7, <3>8, LinkKept
  <2>4. QED
    BY <1>8, <2>2, <2>3 DEF ResetSpend
<1>9. QED
  BY <1>2, <1>3, <1>4, <1>6, <1>7, <1>8 DEF Step

LEMMA LinkBegins ==
  ASSUME AccountsTypeOK, CallInv, NEW q \in Person, LinkOK(q), NEW c \in Call, NEW x,
         call[c].at = "idle", call' = [call EXCEPT ![c] = x], x.at = "read",
         link' = link, account' = account, halfway' = halfway,
         x.op \in {"reset", "patch"} /\ q \in x.covers => \A d \in Call : ~Doing(d, q, {"forgot"}),
         x.op = "forgot" /\ q \in x.covers =>
            ~account[q].off /\ \A d \in Call : ~Doing(d, q, {"forgot", "reset", "patch"})
  PROVE  LinkOK(q)'
<1>1. \A d \in Call : call'[d] = IF d = c THEN x ELSE call[d]
  BY DEF AccountsTypeOK
<1>2. call[c].op = "none"
  BY DEF CallInv, CallOK
<1>3. Open(q)' = Open(q)
  BY DEF Open
<1>4. \A d \in Call : Doing(d, q, {"forgot"})' <=>
                        Doing(d, q, {"forgot"}) \/ (d = c /\ x.op = "forgot" /\ q \in x.covers)
  BY <1>1, <1>2 DEF Doing
<1>5. \A d \in Call : Doing(d, q, {"forgot", "reset", "patch"})' <=>
         Doing(d, q, {"forgot", "reset", "patch"})
           \/ (d = c /\ x.op \in {"forgot", "reset", "patch"} /\ q \in x.covers)
  BY <1>1, <1>2 DEF Doing
<1>6. \A d \in Call : Doing(d, q, {"forgot"}) => Doing(d, q, {"forgot", "reset", "patch"})
  BY DEF Doing
<1>7. \A d, e \in Call : Doing(d, q, {"forgot"})' /\ Doing(e, q, {"forgot", "reset", "patch"})' => d = e
  BY <1>4, <1>5, <1>6 DEF LinkOK
<1>8. \A d \in Call : (At(d, "forgot", "deleted") /\ call[d].who = q)' =>
                        At(d, "forgot", "deleted") /\ call[d].who = q
  BY <1>1 DEF At
<1>9. \A d \in Call : At(d, "patch", "tidy") /\ call[d].who = q =>
                        (At(d, "patch", "tidy") /\ call[d].who = q)'
  BY <1>1 DEF At
<1>10. account'[q].off => \A d \in Call : ~Doing(d, q, {"forgot"})'
  BY <1>4 DEF LinkOK
<1>11. account'[q].off => \/ Open(q)' = {} \/ q \in halfway'
                          \/ \E d \in Call : (At(d, "patch", "tidy") /\ call[d].who = q)'
  BY <1>3, <1>9 DEF LinkOK, ToTidy
<1>12. (\E d \in Call : (At(d, "forgot", "deleted") /\ call[d].who = q)') => Open(q)' = {}
  BY <1>3, <1>8 DEF LinkOK
<1>13. \A k, l \in Open(q)' : k = l
  BY <1>3 DEF LinkOK
<1>14. QED
  BY <1>7, <1>10, <1>11, <1>12, <1>13 DEF LinkOK, ToTidy

LEMMA LinkRequest ==
  ASSUME AccountsTypeOK, CallInv, LinkInv, NEW q \in Person, q \notin overlap',
         \/ \E c \in Call, p \in Person :
              \/ Login(c, p) \/ Forgot(c, p) \/ IssueMissing(c, p)
              \/ \E w \in Person : Issue(c, p, w) \/ \E what \in Change : Patch(c, p, w, what)
         \/ \E c \in Call, l \in 1..MaxLink : FollowLink(c, l)
         \/ \E c \in Call, v \in Visitor, register \in BOOLEAN : Join(c, v, register)
  PROVE  LinkOK(q)'
<1> USE DEF historyVars, faultVars, staffVars
<1>a. ASSUME NEW c \in Call, NEW x, NEW group, Begin(c, x, group), x.at = "read", link' = link,
             account' = account, halfway' = halfway,
             x.op \in {"reset", "patch"} => "forgot" \in group,
             x.op = "forgot" => {"forgot", "reset", "patch"} \subseteq group
                                /\ \A w \in x.covers \cap Person : ~account[w].off
      PROVE  LinkOK(q)'
  <2>1. q \notin overlap /\ (q \in x.covers => \A d \in Call : ~(call[d].op \in group /\ q \in call[d].covers))
    BY <1>a DEF Begin
  <2>2. LinkOK(q)
    BY <2>1 DEF LinkInv
  <2>3. x.op \in {"reset", "patch"} /\ q \in x.covers => \A d \in Call : ~Doing(d, q, {"forgot"})
    BY <1>a, <2>1 DEF Doing
  <2>4. x.op = "forgot" /\ q \in x.covers =>
          ~account[q].off /\ \A d \in Call : ~Doing(d, q, {"forgot", "reset", "patch"})
    BY <1>a, <2>1 DEF Doing
  <2>5. call[c].at = "idle" /\ call' = [call EXCEPT ![c] = x]
    BY <1>a DEF Begin
  <2>6. QED
    BY <1>a, <2>2, <2>3, <2>4, <2>5, LinkBegins
<1>1. ASSUME NEW c \in Call, NEW p \in Person, Login(c, p)
      PROVE  LinkOK(q)'
  <2>1. PICK x : x = [Idle EXCEPT !.op = "login", !.at = "read", !.who = p, !.what = account[p].role]
    OBVIOUS
  <2>2. x.op = "login" /\ x.at = "read"
    BY <2>1 DEF Idle
  <2>3. /\ call[c].at = "idle" /\ call' = [call EXCEPT ![c] = x] /\ link' = link /\ account' = account
        /\ halfway' = halfway /\ overlap' = overlap
    BY <1>1, <2>1 DEF Login
  <2>4. LinkOK(q)
    BY <2>3 DEF LinkInv
  <2>5. QED
    BY <2>2, <2>3, <2>4, LinkBegins
<1>2. ASSUME NEW c \in Call, NEW w \in Person, Forgot(c, w)
      PROVE  LinkOK(q)'
  <2>1. PICK x : x = [Idle EXCEPT !.op = "forgot", !.at = "read", !.who = w, !.covers = {w}]
    OBVIOUS
  <2>2. x.op = "forgot" /\ x.at = "read" /\ x.covers = {w}
    BY <2>1 DEF Idle
  <2>3. /\ Begin(c, x, {"forgot", "reset", "patch"}) /\ link' = link /\ account' = account
        /\ halfway' = halfway /\ ~account[w].off
    BY <1>2, <2>1 DEF Forgot
  <2>4. QED
    BY <2>2, <2>3, <1>a
<1>3. ASSUME NEW c \in Call, NEW p \in Person, IssueMissing(c, p)
      PROVE  LinkOK(q)'
  <2>1. PICK x : x = [Idle EXCEPT !.op = "sheet", !.at = "read", !.by = p, !.covers = Missing, !.todo = Missing]
    OBVIOUS
  <2>2. x.op = "sheet" /\ x.at = "read"
    BY <2>1 DEF Idle
  <2>3. /\ Begin(c, x, {"issue", "sheet"}) /\ link' = link /\ account' = account
        /\ halfway' = halfway
    BY <1>3, <2>1 DEF IssueMissing
  <2>4. QED
    BY <2>2, <2>3, <1>a
<1>4. ASSUME NEW c \in Call, NEW p \in Person, NEW w \in Person, Issue(c, p, w)
      PROVE  LinkOK(q)'
  <2>1. PICK x : x = [Idle EXCEPT !.op = "issue", !.at = "read", !.by = p, !.who = w, !.covers = {w}]
    OBVIOUS
  <2>2. x.op = "issue" /\ x.at = "read"
    BY <2>1 DEF Idle
  <2>3. /\ Begin(c, x, {"issue", "sheet"}) /\ link' = link /\ account' = account
        /\ halfway' = halfway
    BY <1>4, <2>1 DEF Issue
  <2>4. QED
    BY <2>2, <2>3, <1>a
<1>5. ASSUME NEW c \in Call, NEW p \in Person, NEW w \in Person, NEW what \in Change, Patch(c, p, w, what)
      PROVE  LinkOK(q)'
  <2>1. PICK x : x = [Idle EXCEPT !.op = "patch", !.at = "read", !.by = p, !.who = w, !.what = what,
                           !.got = IF LocksOut(w, what) THEN 1 ELSE 0,
                           !.covers = IF what = "off" THEN {w} ELSE {}]
    OBVIOUS
  <2>2. x.op = "patch" /\ x.at = "read"
    BY <2>1 DEF Idle
  <2>3. /\ Begin(c, x, {"forgot"}) /\ link' = link /\ account' = account
        /\ halfway' = halfway
    BY <1>5, <2>1 DEF Patch
  <2>4. QED
    BY <2>2, <2>3, <1>a
<1>6. ASSUME NEW c \in Call, NEW l \in 1..MaxLink, FollowLink(c, l)
      PROVE  LinkOK(q)'
  <2>1. PICK x : x = [Idle EXCEPT !.op = "reset", !.at = "read", !.who = link[l].who,
                           !.covers = {link[l].who}, !.got = l]
    OBVIOUS
  <2>2. x.op = "reset" /\ x.at = "read"
    BY <2>1 DEF Idle
  <2>3. /\ Begin(c, x, {"forgot"}) /\ link' = link /\ account' = account
        /\ halfway' = halfway
    BY <1>6, <2>1 DEF FollowLink
  <2>4. QED
    BY <2>2, <2>3, <1>a
<1>7. ASSUME NEW c \in Call, NEW v \in Visitor, NEW register \in BOOLEAN, Join(c, v, register)
      PROVE  LinkOK(q)'
  <2>1. PICK x : x = [Idle EXCEPT !.op = "join", !.at = "read", !.who = v, !.covers = {v},
                           !.what = IF register THEN "register" ELSE "oauth",
                           !.got = IF visitor[v].user THEN 1 ELSE 0]
    OBVIOUS
  <2>2. x.op = "join" /\ x.at = "read"
    BY <2>1 DEF Idle
  <2>3. /\ Begin(c, x, {"join"}) /\ link' = link /\ account' = account
        /\ halfway' = halfway
    BY <1>7, <2>1 DEF Join
  <2>4. QED
    BY <2>2, <2>3, <1>a
<1>8. QED
  BY <1>1, <1>2, <1>3, <1>4, <1>5, <1>6, <1>7

LEMMA LinkPlain ==
  ASSUME AccountsTypeOK, CallInv, LinkInv, NEW q \in Person, q \notin overlap',
         \/ UNCHANGED accountsVars
         \/ \E l \in 1..MaxLink : LinkExpires(l)
         \/ \E p \in Person :
              \/ SignOut(p) \/ HandedOut(p) \/ Enrol(p)
              \/ \E w \in Person : HidePin(p, w) \/ \E role \in {"ADMIN", "STAFF"} : AddLogin(p, w, role)
  PROVE  LinkOK(q)'
<1> USE DEF historyVars, faultVars, staffVars
<1>1. call' = call /\ overlap' = overlap /\ halfway' = halfway
  <2>1. CASE UNCHANGED accountsVars
    BY <2>1 DEF accountsVars
  <2>2. CASE \E l \in 1..MaxLink : LinkExpires(l)
    BY <2>2 DEF LinkExpires
  <2>3. ASSUME NEW p \in Person,
               \/ SignOut(p) \/ HandedOut(p) \/ Enrol(p)
               \/ \E w \in Person : HidePin(p, w) \/ \E role \in {"ADMIN", "STAFF"} : AddLogin(p, w, role)
        PROVE  call' = call /\ overlap' = overlap /\ halfway' = halfway
    BY <2>3 DEF SignOut, HandedOut, Enrol, HidePin, AddLogin
  <2>4. QED
    BY <2>1, <2>2, <2>3
<1>2. account'[q].off => account[q].off
  <2>1. CASE UNCHANGED accountsVars
    BY <2>1 DEF accountsVars
  <2>2. CASE \E l \in 1..MaxLink : LinkExpires(l)
    BY <2>2 DEF LinkExpires
  <2>3. ASSUME NEW p \in Person, SignOut(p) \/ HandedOut(p) \/ \E w \in Person : HidePin(p, w)
        PROVE  account'[q].off => account[q].off
    BY <2>3 DEF SignOut, HandedOut, HidePin
  <2>4. ASSUME NEW w \in Person, \/ Enrol(w)
                                 \/ \E p \in Person, role \in {"ADMIN", "STAFF"} : AddLogin(p, w, role)
        PROVE  account'[q].off => account[q].off
    <3>1. PICK role \in {"ADMIN", "STAFF"} : account' = [account EXCEPT ![w] = [NoLogin EXCEPT !.role = role]]
      BY <2>4 DEF Enrol, AddLogin
    <3>2. [NoLogin EXCEPT !.role = role].off = FALSE
      BY DEF NoLogin
    <3>3. account'[q] = IF q = w THEN [NoLogin EXCEPT !.role = role] ELSE account[q]
      BY <3>1 DEF AccountsTypeOK
    <3>4. QED
      BY <3>2, <3>3
  <2>5. QED
    BY <2>1, <2>2, <2>3, <2>4
<1>3. Open(q)' \subseteq Open(q)
  <2>1. CASE \E l \in 1..MaxLink : LinkExpires(l)
    <3>1. \A l \in 1..MaxLink : link'[l].who = link[l].who /\ (link'[l].at = "open" => link[l].at = "open")
      BY <2>1 DEF LinkExpires, AccountsTypeOK
    <3>2. QED
      BY <3>1 DEF Open
  <2>2. CASE link' = link
    BY <2>2 DEF Open
  <2>3. ASSUME NEW p \in Person,
               \/ SignOut(p) \/ HandedOut(p) \/ Enrol(p)
               \/ \E w \in Person : HidePin(p, w) \/ \E role \in {"ADMIN", "STAFF"} : AddLogin(p, w, role)
        PROVE  link' = link
    BY <2>3 DEF SignOut, HandedOut, Enrol, HidePin, AddLogin
  <2>4. QED
    BY <2>1, <2>2, <2>3 DEF accountsVars
<1>4. LinkOK(q)
  BY <1>1 DEF LinkInv
<1>5. /\ \A d \in Call : Doing(d, q, {"forgot"})' => Doing(d, q, {"forgot"})
      /\ \A d \in Call : Doing(d, q, {"forgot", "reset", "patch"})' => Doing(d, q, {"forgot", "reset", "patch"})
  BY <1>1 DEF Doing
<1>6. /\ \A d \in Call : (At(d, "forgot", "deleted") /\ call[d].who = q)' =>
                           (At(d, "forgot", "deleted") /\ call[d].who = q) \/ Open(q)' = {}
      /\ \A d \in Call : At(d, "patch", "tidy") /\ call[d].who = q =>
            (At(d, "patch", "tidy") /\ call[d].who = q)' \/ q \in halfway' \/ Open(q)' = {}
  BY <1>1 DEF At
<1>7. QED
  BY <1>1, <1>2, <1>3, <1>4, <1>5, <1>6, LinkKept

LEMMA LinkNext == AccountsTypeOK /\ CallInv /\ LinkInv /\ [AccountsNext]_accountsVars => LinkInv'
<1> SUFFICES ASSUME AccountsTypeOK, CallInv, LinkInv, [AccountsNext]_accountsVars,
                    NEW q \in Person, q \notin overlap'
             PROVE  LinkOK(q)'
  BY DEF LinkInv
<1>1. QED
  BY LinkStep, LinkRequest, LinkPlain DEF AccountsNext

-----------------------------------------------------------------------------
(* Slips.                                                                  *)

\* What leaves a person's slips as they should be.
LEMMA SlipKept ==
  ASSUME CallInv, NEW q \in Person, SlipOK(q), pin'[q] = pin[q], IsStaff(q) => IsStaff(q)',
         \A p \in Person : /\ page'[p].shown[q] \in {NoPin, page[p].shown[q]}
                           /\ page'[p].sheet[q] \in {NoPin, page[p].sheet[q]},
         overlap \subseteq overlap', unheard \subseteq unheard',
         \A d \in Call : (call[d].op = "sheet" /\ call[d].slips[q] # NoPin)' =>
                            /\ call[d].op = "sheet" /\ call'[d].slips[q] = call[d].slips[q]
                            /\ call'[d].covers = call[d].covers,
         \A d \in Call : Doing(d, q, {"issue", "sheet"})' => Doing(d, q, {"issue", "sheet"}),
         \A d \in Call : (At(d, "issue", "answer") /\ call[d].who = q)' =>
                            /\ At(d, "issue", "answer") /\ call[d].who = q
                            /\ call'[d].slips[q] = call[d].slips[q],
         \A d \in Call : At(d, "issue", "answer") /\ call[d].who = q =>
            \/ (At(d, "issue", "answer") /\ call[d].who = q)' /\ call'[d].by = call[d].by
            \/ q \in unheard'
  PROVE  SlipOK(q)'
<1>1. (\A p \in Person : IsStaff(q) \/ (page[p].shown[q] = NoPin /\ page[p].sheet[q] = NoPin))'
  BY DEF SlipOK
<1>2. (\A c \in Call : call[c].op = "sheet" /\ call[c].slips[q] # NoPin => q \in call[c].covers)'
  BY DEF SlipOK
<1>3. ASSUME q \notin overlap', q \notin unheard'
      PROVE  SlipsAgree(q)'
  <2>1. SlipsAgree(q)
    BY <1>3 DEF SlipOK
  <2>2. (\A c, d \in Call : Doing(c, q, {"issue", "sheet"}) /\ Doing(d, q, {"issue", "sheet"}) => c = d)'
    BY <2>1 DEF SlipsAgree
  <2>3. (\A c \in Call : call[c].op = "sheet" => call[c].slips[q] \in {NoPin, pin[q]})'
    BY <2>1 DEF SlipsAgree
  <2>4. (\A c \in Call : At(c, "issue", "answer") /\ call[c].who = q => call[c].slips[q] = pin[q])'
    BY <2>1 DEF SlipsAgree
  <2>5. (\A p \in Person :
          \/ {page[p].shown[q], page[p].sheet[q]} \subseteq {NoPin, pin[q]}
          \/ \E c \in Call : At(c, "issue", "answer") /\ call[c].by = p /\ call[c].who = q)'
    <3>1. ASSUME NEW p \in Person
          PROVE  (\/ {page[p].shown[q], page[p].sheet[q]} \subseteq {NoPin, pin[q]}
                  \/ \E c \in Call : At(c, "issue", "answer") /\ call[c].by = p /\ call[c].who = q)'
      <4>1. CASE {page[p].shown[q], page[p].sheet[q]} \subseteq {NoPin, pin[q]}
        BY <4>1
      <4>2. CASE \E c \in Call : At(c, "issue", "answer") /\ call[c].by = p /\ call[c].who = q
        <5>1. PICK c \in Call : At(c, "issue", "answer") /\ call[c].by = p /\ call[c].who = q
          BY <4>2
        <5>2. (At(c, "issue", "answer") /\ call[c].who = q)' /\ call'[c].by = p
          BY <5>1, <1>3
        <5>3. QED
          BY <5>2
      <4>3. QED
        BY <4>1, <4>2, <2>1 DEF SlipsAgree
    <3>2. QED
      BY <3>1
  <2>6. QED
    BY <2>2, <2>3, <2>4, <2>5 DEF SlipsAgree
<1>4. QED
  BY <1>1, <1>2, <1>3 DEF SlipOK

LEMMA SlipStep ==
  ASSUME AccountsTypeOK, CallInv, SlipInv, NEW c \in Call, Step(c), NEW q \in Person
  PROVE  SlipOK(q)'
<1>a. /\ call[c] \in Calls /\ CallOK(call[c]) /\ [AccountsNext]_accountsVars
      /\ SlipOK(q)
  BY DEF AccountsTypeOK, CallInv, AccountsNext, SlipInv
<1>b. overlap \subseteq overlap'
  BY DEF Step, historyVars, SignedIn, PatchWrite, PatchTidy, ForgotDelete, ForgotCreate, ResetSpend,
     IssueWrite, IssueShown, SheetWrite, SheetSkips, SheetShown, JoinUser, EnsureFind, EnsureWrite,
     StatementFails, LostAnswer
<1>c. unheard \subseteq unheard' /\ (IsStaff(q) => IsStaff(q)')
  BY <1>a, UnheardGrows, RowsGrow
<1>d. \A d \in Call : Doing(d, q, {"issue", "sheet"})' => Doing(d, q, {"issue", "sheet"})
  BY DoingLess
<1>e. \A d \in Call \ {c} :
        /\ call'[d] = call[d]
        /\ (call[d].op = "sheet" /\ call[d].slips[q] # NoPin)' =>
              /\ call[d].op = "sheet" /\ call'[d].slips[q] = call[d].slips[q]
              /\ call'[d].covers = call[d].covers
        /\ (At(d, "issue", "answer") /\ call[d].who = q)' =>
              /\ At(d, "issue", "answer") /\ call[d].who = q
              /\ call'[d].slips[q] = call[d].slips[q]
        /\ At(d, "issue", "answer") /\ call[d].who = q =>
              (At(d, "issue", "answer") /\ call[d].who = q)' /\ call'[d].by = call[d].by
  BY LedOn DEF At
<1>1. ASSUME pin' = pin, page' = page, call[c].op \notin {"issue", "sheet"}
      PROVE  SlipOK(q)'
  <2>1. call'[c].op \notin {"issue", "sheet"}
    BY <1>1, LedOn DEF Idle
  <2>2. \A d \in Call : (call[d].op = "sheet" /\ call[d].slips[q] # NoPin)' =>
                            /\ call[d].op = "sheet" /\ call'[d].slips[q] = call[d].slips[q]
                            /\ call'[d].covers = call[d].covers
    BY <2>1, <1>e
  <2>3. \A d \in Call : (At(d, "issue", "answer") /\ call[d].who = q)' =>
                            /\ At(d, "issue", "answer") /\ call[d].who = q
                            /\ call'[d].slips[q] = call[d].slips[q]
    BY <2>1, <1>e DEF At
  <2>4. \A d \in Call : At(d, "issue", "answer") /\ call[d].who = q =>
            \/ (At(d, "issue", "answer") /\ call[d].who = q)' /\ call'[d].by = call[d].by
            \/ q \in unheard'
    BY <1>1, <1>e DEF At
  <2>5. \A p \in Person : /\ page'[p].shown[q] \in {NoPin, page[p].shown[q]}
                          /\ page'[p].sheet[q] \in {NoPin, page[p].sheet[q]}
    BY <1>1
  <2>6. QED
    BY <1>1, <1>a, <1>b, <1>c, <1>d, <2>2, <2>3, <2>4, <2>5, SlipKept
<1>2. CASE \/ SignedIn(c) \/ PatchWrite(c) \/ PatchTidy(c) \/ ForgotDelete(c) \/ ForgotCreate(c) \/ ResetSpend(c)
           \/ JoinUser(c) \/ EnsureFind(c) \/ EnsureWrite(c)
  BY <1>1, <1>2 DEF At, staffVars, SignedIn, PatchWrite, PatchTidy, ForgotDelete, ForgotCreate, ResetSpend,
     JoinUser, EnsureFind, EnsureWrite
<1>3. CASE StatementFails(c) \/ LostAnswer(c)
  <2>1. call'[c] = Idle /\ pin' = pin
    BY <1>3 DEF StatementFails, LostAnswer, Done, AccountsTypeOK, staffVars
  <2>2. At(c, "issue", "answer") /\ call[c].who = q => q \in unheard'
    BY <1>3 DEF StatementFails, LostAnswer, ToShow, At
  <2>3. \A p \in Person : page'[p].shown = page[p].shown /\ page'[p].sheet = page[p].sheet
    <3>1. Released(call[c].by, c) /\ call[c].by \in Person \cup {NoOne}
      BY <1>3, <1>a DEF StatementFails, LostAnswer, Calls
    <3>2. \A p \in Person : page[p] \in Pages
      BY DEF AccountsTypeOK
    <3>3. QED
      BY <3>1, <3>2 DEF Released, AccountsTypeOK, Pages
  <2>4. \A d \in Call : (call[d].op = "sheet" /\ call[d].slips[q] # NoPin)' =>
                            /\ call[d].op = "sheet" /\ call'[d].slips[q] = call[d].slips[q]
                            /\ call'[d].covers = call[d].covers
    BY <2>1, <1>e DEF Idle
  <2>5. \A d \in Call : (At(d, "issue", "answer") /\ call[d].who = q)' =>
                            /\ At(d, "issue", "answer") /\ call[d].who = q
                            /\ call'[d].slips[q] = call[d].slips[q]
    BY <2>1, <1>e DEF Idle, At
  <2>6. \A d \in Call : At(d, "issue", "answer") /\ call[d].who = q =>
            \/ (At(d, "issue", "answer") /\ call[d].who = q)' /\ call'[d].by = call[d].by
            \/ q \in unheard'
    BY <2>2, <1>e DEF At
  <2>7. QED
    BY <2>1, <1>a, <1>b, <1>c, <1>d, <2>3, <2>4, <2>5, <2>6, SlipKept
<1>4. CASE SheetSkips(c)
  <2>1. /\ call'[c].slips = call[c].slips /\ call'[c].covers = call[c].covers /\ call'[c].op = "sheet"
        /\ call[c].op = "sheet" /\ pin' = pin /\ page' = page
    BY <1>4, <1>a DEF SheetSkips, At, AccountsTypeOK, Calls, staffVars
  <2>2. \A d \in Call : (call[d].op = "sheet" /\ call[d].slips[q] # NoPin)' =>
                            /\ call[d].op = "sheet" /\ call'[d].slips[q] = call[d].slips[q]
                            /\ call'[d].covers = call[d].covers
    BY <2>1, <1>e
  <2>3. \A d \in Call : (At(d, "issue", "answer") /\ call[d].who = q)' =>
                            /\ At(d, "issue", "answer") /\ call[d].who = q
                            /\ call'[d].slips[q] = call[d].slips[q]
    BY <2>1, <1>e DEF At
  <2>4. \A d \in Call : At(d, "issue", "answer") /\ call[d].who = q =>
            \/ (At(d, "issue", "answer") /\ call[d].who = q)' /\ call'[d].by = call[d].by
            \/ q \in unheard'
    BY <2>1, <1>e DEF At
  <2>5. \A p \in Person : /\ page'[p].shown[q] \in {NoPin, page[p].shown[q]}
                          /\ page'[p].sheet[q] \in {NoPin, page[p].sheet[q]}
    BY <2>1
  <2>6. QED
    BY <2>1, <1>a, <1>b, <1>c, <1>d, <2>2, <2>3, <2>4, <2>5, SlipKept
<1>5. CASE SheetWrite(c)
  <2>1. PICK w \in call[c].todo, d \in Fresh :
          IF pin[w] = NoPin
          THEN /\ pin' = [pin EXCEPT ![w] = d]
               /\ call' = [call EXCEPT ![c].todo = @ \ {w}, ![c].slips[w] = d]
          ELSE /\ call' = [call EXCEPT ![c].todo = @ \ {w}]
               /\ UNCHANGED pin
    BY <1>5 DEF SheetWrite
  <2>2. /\ At(c, "sheet", "read") /\ page' = page /\ overlap' = overlap /\ unheard' = unheard
        /\ w \in call[c].covers /\ w \in Person
    BY <1>5, <1>a DEF SheetWrite, At, historyVars, faultVars, CallOK, Calls
  <2>3. call'[c].op = "sheet" /\ call'[c].covers = call[c].covers
    BY <2>1, <2>2, <1>a DEF At, AccountsTypeOK, Calls
  <2>4. CASE w # q \/ pin[w] # NoPin
    <3>a. /\ pin \in [Person -> Pin \cup {NoPin}] /\ call \in [Call -> Calls]
          /\ call[c].slips \in [Person -> Pin \cup {NoPin}] /\ w \in Person
      BY <2>2, <1>a DEF AccountsTypeOK, Calls
    <3>b. pin'[q] = pin[q]
      BY <2>1, <2>4, <3>a
    <3>c. call'[c].slips[q] = call[c].slips[q]
      <4>1. CASE pin[w] = NoPin
        <5>1. w # q /\ call' = [call EXCEPT ![c].todo = @ \ {w}, ![c].slips[w] = d]
          BY <2>1, <2>4, <4>1
        <5>2. QED
          BY <5>1, <3>a, <1>a DEF Calls
      <4>2. CASE pin[w] # NoPin
        <5>1. call' = [call EXCEPT ![c].todo = @ \ {w}]
          BY <2>1, <4>2
        <5>2. QED
          BY <5>1, <3>a, <1>a DEF Calls
      <4>3. QED
        BY <4>1, <4>2
    <3>1. pin'[q] = pin[q] /\ call'[c].slips[q] = call[c].slips[q]
      BY <3>b, <3>c
    <3>2. \A d2 \in Call : (call[d2].op = "sheet" /\ call[d2].slips[q] # NoPin)' =>
                            /\ call[d2].op = "sheet" /\ call'[d2].slips[q] = call[d2].slips[q]
                            /\ call'[d2].covers = call[d2].covers
      BY <2>2, <2>3, <3>1, <1>e DEF At
    <3>3. \A d2 \in Call : (At(d2, "issue", "answer") /\ call[d2].who = q)' =>
                            /\ At(d2, "issue", "answer") /\ call[d2].who = q
                            /\ call'[d2].slips[q] = call[d2].slips[q]
      BY <2>3, <1>e DEF At
    <3>4. \A d2 \in Call : At(d2, "issue", "answer") /\ call[d2].who = q =>
            \/ (At(d2, "issue", "answer") /\ call[d2].who = q)' /\ call'[d2].by = call[d2].by
            \/ q \in unheard'
      BY <2>2, <1>e DEF At
    <3>5. \A p \in Person : /\ page'[p].shown[q] \in {NoPin, page[p].shown[q]}
                            /\ page'[p].sheet[q] \in {NoPin, page[p].sheet[q]}
      BY <2>2
    <3>6. QED
      BY <3>1, <1>a, <1>b, <1>c, <1>d, <3>2, <3>3, <3>4, <3>5, SlipKept
  <2>5. CASE w = q /\ pin[w] = NoPin
    <3>1. pin'[q] = d /\ call'[c].slips[q] = d
      BY <2>1, <2>2, <2>5, <1>a DEF AccountsTypeOK, Calls
    <3>2. IsStaff(q)'
      BY <1>c, <2>2, <2>5, <1>a DEF CallOK, At
    <3>3. \A e \in Call : (call[e].op = "sheet" /\ call[e].slips[q] # NoPin)' => q \in call'[e].covers
      BY <1>e, <2>2, <2>3, <2>5, <1>a DEF SlipOK
    <3>4. ASSUME q \notin overlap', q \notin unheard'
          PROVE  SlipsAgree(q)'
      <4>1. SlipsAgree(q) /\ Doing(c, q, {"issue", "sheet"})
        BY <3>4, <2>2, <2>5, <1>a DEF SlipOK, Doing, At
      <4>2. \A e, f \in Call : Doing(e, q, {"issue", "sheet"})' /\ Doing(f, q, {"issue", "sheet"})' => e = f
        BY <4>1, <1>d DEF SlipsAgree
      <4>3. \A e \in Call \ {c} : ~Doing(e, q, {"issue", "sheet"})
        BY <4>1 DEF SlipsAgree
      <4>4. \A e \in Call \ {c} : call[e].op = "sheet" => call[e].slips[q] = NoPin
        BY <4>3, <1>a DEF SlipOK, Doing
      <4>5. \A e \in Call : (call[e].op = "sheet")' => call'[e].slips[q] \in {NoPin, pin'[q]}
        BY <4>4, <1>e, <3>1
      <4>6. \A e \in Call : ~(At(e, "issue", "answer") /\ call[e].who = q)
        <5>1. ASSUME NEW e \in Call, At(e, "issue", "answer"), call[e].who = q
              PROVE  FALSE
          <6>1. Doing(e, q, {"issue", "sheet"})
            BY <5>1 DEF Doing, At, CallInv, CallOK
          <6>2. e = c
            BY <6>1, <4>3
          <6>3. QED
            BY <5>1, <6>2, <2>2 DEF At
        <5>2. QED
          BY <5>1
      <4>7. \A e \in Call : ~(At(e, "issue", "answer") /\ call[e].who = q)'
        BY <4>6, <1>e, <2>3 DEF At
      <4>8. \A p \in Person : {page[p].shown[q], page[p].sheet[q]} \subseteq {NoPin}
        BY <4>1, <4>6, <2>5 DEF SlipsAgree
      <4>9. (\A p \in Person :
               \/ {page[p].shown[q], page[p].sheet[q]} \subseteq {NoPin, pin[q]}
               \/ \E e \in Call : At(e, "issue", "answer") /\ call[e].by = p /\ call[e].who = q)'
        BY <4>8, <2>2
      <4>10. QED
        BY <4>2, <4>5, <4>7, <4>9 DEF SlipsAgree
    <3>5. QED
      BY <3>2, <3>3, <3>4 DEF SlipOK
  <2>6. QED
    BY <2>4, <2>5
<1>6. CASE IssueWrite(c)
  <2> DEFINE w == call[c].who
  <2>1. PICK d \in Fresh :
          /\ pin' = [pin EXCEPT ![w] = d]
          /\ call' = [call EXCEPT ![c].at = "answer", ![c].slips = [NoSlips EXCEPT ![w] = d]]
    BY <1>6 DEF IssueWrite
  <2>2. /\ At(c, "issue", "read") /\ page' = page /\ unheard' = unheard /\ w \in Person /\ IsStaff(w)
        /\ call[c].covers = {w} /\ call[c].by \in Person
    BY <1>6, <1>a DEF IssueWrite, At, faultVars, CallOK
  <2>3. /\ call'[c].op = "issue" /\ call'[c].at = "answer" /\ call'[c].who = w /\ call'[c].by = call[c].by
        /\ call'[c].slips = [NoSlips EXCEPT ![w] = d]
    BY <2>1, <2>2, <1>a DEF At, AccountsTypeOK, Calls
  <2>4. CASE w # q
    <3>1. pin'[q] = pin[q]
      BY <2>1, <2>4 DEF AccountsTypeOK
    <3>2. \A e \in Call : (call[e].op = "sheet" /\ call[e].slips[q] # NoPin)' =>
                            /\ call[e].op = "sheet" /\ call'[e].slips[q] = call[e].slips[q]
                            /\ call'[e].covers = call[e].covers
      BY <2>3, <1>e
    <3>3. \A e \in Call : (At(e, "issue", "answer") /\ call[e].who = q)' =>
                            /\ At(e, "issue", "answer") /\ call[e].who = q
                            /\ call'[e].slips[q] = call[e].slips[q]
      BY <2>3, <2>4, <1>e DEF At
    <3>4. \A e \in Call : At(e, "issue", "answer") /\ call[e].who = q =>
            \/ (At(e, "issue", "answer") /\ call[e].who = q)' /\ call'[e].by = call[e].by
            \/ q \in unheard'
      BY <2>2, <2>4, <1>e DEF At
    <3>5. \A p \in Person : /\ page'[p].shown[q] \in {NoPin, page[p].shown[q]}
                            /\ page'[p].sheet[q] \in {NoPin, page[p].sheet[q]}
      BY <2>2
    <3>6. QED
      BY <3>1, <1>a, <1>b, <1>c, <1>d, <3>2, <3>3, <3>4, <3>5, SlipKept
  <2>5. CASE w = q
    <3>1. pin'[q] = d /\ call'[c].slips[q] = d
      <4>1. [NoSlips EXCEPT ![w] = d][w] = d
        BY <2>2 DEF NoSlips
      <4>2. pin'[w] = d
        BY <2>1, <2>2 DEF AccountsTypeOK
      <4>3. QED
        BY <2>3, <2>5, <4>1, <4>2
    <3>2. IsStaff(q)'
      BY <1>c, <2>2, <2>5
    <3>3. \A e \in Call : (call[e].op = "sheet" /\ call[e].slips[q] # NoPin)' => q \in call'[e].covers
      BY <1>e, <2>3, <1>a DEF SlipOK
    <3>4. ASSUME q \notin overlap', q \notin unheard'
          PROVE  SlipsAgree(q)'
      <4>1. SlipsAgree(q) /\ Doing(c, q, {"issue", "sheet"})
        BY <3>4, <2>2, <2>5, <1>a, <1>b DEF SlipOK, Doing, At
      <4>2. \A e, f \in Call : Doing(e, q, {"issue", "sheet"})' /\ Doing(f, q, {"issue", "sheet"})' => e = f
        BY <4>1, <1>d DEF SlipsAgree
      <4>3. \A e \in Call \ {c} : ~Doing(e, q, {"issue", "sheet"})
        BY <4>1 DEF SlipsAgree
      <4>4. \A e \in Call \ {c} : call[e].op = "sheet" => call[e].slips[q] = NoPin
        BY <4>3, <1>a DEF SlipOK, Doing
      <4>5. \A e \in Call : (call[e].op = "sheet")' => call'[e].slips[q] \in {NoPin, pin'[q]}
        BY <4>4, <1>e, <2>3
      <4>6. \A e \in Call \ {c} : ~(At(e, "issue", "answer") /\ call[e].who = q)
        <5>1. ASSUME NEW e \in Call \ {c}, At(e, "issue", "answer"), call[e].who = q
              PROVE  FALSE
          <6>1. Doing(e, q, {"issue", "sheet"})
            BY <5>1 DEF Doing, At, CallInv, CallOK
          <6>2. QED
            BY <6>1, <4>3
        <5>2. QED
          BY <5>1
      <4>7. \A e \in Call : (At(e, "issue", "answer") /\ call[e].who = q)' => call'[e].slips[q] = pin'[q]
        BY <4>6, <1>e, <3>1
      <4>8. \A p \in Person \ {call[c].by} : page[p].shown[q] = NoPin /\ page[p].sheet[q] = NoPin
        BY <1>6, <3>4, <2>5 DEF IssueWrite
      <4>9. (\A p \in Person :
               \/ {page[p].shown[q], page[p].sheet[q]} \subseteq {NoPin, pin[q]}
               \/ \E e \in Call : At(e, "issue", "answer") /\ call[e].by = p /\ call[e].who = q)'
        <5>1. (At(c, "issue", "answer") /\ call[c].who = q)' /\ call'[c].by = call[c].by
          BY <2>3, <2>5 DEF At
        <5>2. QED
          BY <4>8, <2>2, <5>1
      <4>10. QED
        BY <4>2, <4>5, <4>7, <4>9 DEF SlipsAgree
    <3>5. QED
      BY <3>2, <3>3, <3>4, <2>2 DEF SlipOK
  <2>6. QED
    BY <2>4, <2>5
<1>7. CASE IssueShown(c) \/ SheetShown(c)
  <2> DEFINE b == call[c].by
  <2>1. /\ call'[c] = Idle /\ pin' = pin /\ unheard' = unheard /\ overlap' = overlap /\ b \in Person
    BY <1>7, <1>a DEF IssueShown, SheetShown, At, Done, AccountsTypeOK, staffVars, faultVars, CallOK
  <2>2. /\ \A p \in Person \ {b} : page'[p] = page[p]
        /\ \A p \in Person : page[p] \in Pages
    BY <1>7, <2>1 DEF IssueShown, SheetShown, AccountsTypeOK
  <2>3. CASE IssueShown(c) /\ call[c].who = q
    <3> DEFINE s == call[c].slips[q]
    <3>1. /\ page'[b].shown[q] = s /\ page'[b].sheet[q] \in {NoPin, s}
          /\ At(c, "issue", "answer") /\ IsStaff(q) /\ call[c].covers = {q}
      BY <2>1, <2>2, <2>3, <1>a DEF IssueShown, AccountsTypeOK, Pages, At, CallOK
    <3>2. \A e \in Call : (call[e].op = "sheet" /\ call[e].slips[q] # NoPin)' => q \in call'[e].covers
      BY <1>e, <2>1, <1>a DEF SlipOK, Idle
    <3>3. ASSUME q \notin overlap', q \notin unheard'
          PROVE  SlipsAgree(q)'
      <4>1. SlipsAgree(q) /\ s = pin[q] /\ Doing(c, q, {"issue", "sheet"})
        BY <3>3, <3>1, <2>1, <2>3, <1>a DEF SlipOK, SlipsAgree, Doing, At
      <4>2. \A e, f \in Call : Doing(e, q, {"issue", "sheet"})' /\ Doing(f, q, {"issue", "sheet"})' => e = f
        BY <4>1, <1>d DEF SlipsAgree
      <4>3. \A e \in Call : (call[e].op = "sheet")' => call'[e].slips[q] \in {NoPin, pin'[q]}
        BY <4>1, <1>e, <2>1 DEF SlipsAgree, Idle
      <4>4. \A e \in Call : (At(e, "issue", "answer") /\ call[e].who = q)' => call'[e].slips[q] = pin'[q]
        BY <4>1, <1>e, <2>1 DEF SlipsAgree, At, Idle
      <4>5. \A e \in Call \ {c} : ~(At(e, "issue", "answer") /\ call[e].who = q)
        <5>1. ASSUME NEW e \in Call \ {c}, At(e, "issue", "answer"), call[e].who = q
              PROVE  FALSE
          <6>1. Doing(e, q, {"issue", "sheet"})
            BY <5>1 DEF Doing, At, CallInv, CallOK
          <6>2. QED
            BY <6>1, <4>1 DEF SlipsAgree
        <5>2. QED
          BY <5>1
      <4>6. (\A p \in Person :
               \/ {page[p].shown[q], page[p].sheet[q]} \subseteq {NoPin, pin[q]}
               \/ \E e \in Call : At(e, "issue", "answer") /\ call[e].by = p /\ call[e].who = q)'
        <5>1. {page'[b].shown[q], page'[b].sheet[q]} \subseteq {NoPin, pin'[q]}
          BY <3>1, <4>1, <2>1
        <5>2. \A p \in Person \ {b} : {page[p].shown[q], page[p].sheet[q]} \subseteq {NoPin, pin[q]}
          BY <4>1, <4>5 DEF SlipsAgree
        <5>3. QED
          BY <5>1, <5>2, <2>1, <2>2
      <4>7. QED
        BY <4>2, <4>3, <4>4, <4>6 DEF SlipsAgree
    <3>4. QED
      BY <3>1, <3>2, <3>3, <1>c DEF SlipOK
  <2>4. CASE IssueShown(c) /\ call[c].who # q
    <3>1. /\ page'[b].shown[q] = page[b].shown[q] /\ page'[b].sheet[q] = page[b].sheet[q]
          /\ At(c, "issue", "answer") /\ call[c].who \in Person
      <4>1. At(c, "issue", "answer") /\ call[c].who \in Person
        BY <2>4, <1>a DEF IssueShown, At, CallOK
      <4>2. PICK w : w = call[c].who /\ w # q
        BY <2>4
      <4>3. page \in [Person -> Pages] /\ page[b] \in Pages
        BY <2>1 DEF AccountsTypeOK
      <4>4. /\ page[b].shown \in [Person -> Pin \cup {NoPin}] /\ page[b].sheet \in [Person -> Pin \cup {NoPin}]
        BY <4>3 DEF Pages
      <4>5. \E d, e : page' = [page EXCEPT ![b].shown[w] = d, ![b].busy = NoOne, ![b].sheet[w] = e]
        BY <2>4, <4>2 DEF IssueShown
      <4>6. page'[b].shown[q] = page[b].shown[q] /\ page'[b].sheet[q] = page[b].sheet[q]
        BY <2>1, <4>2, <4>3, <4>4, <4>5 DEF Pages
      <4>7. QED
        BY <4>1, <4>6
    <3>2. \A e \in Call : (call[e].op = "sheet" /\ call[e].slips[q] # NoPin)' =>
                            /\ call[e].op = "sheet" /\ call'[e].slips[q] = call[e].slips[q]
                            /\ call'[e].covers = call[e].covers
      BY <2>1, <1>e DEF Idle
    <3>3. \A e \in Call : (At(e, "issue", "answer") /\ call[e].who = q)' =>
                            /\ At(e, "issue", "answer") /\ call[e].who = q
                            /\ call'[e].slips[q] = call[e].slips[q]
      BY <2>1, <1>e DEF At, Idle
    <3>4. \A e \in Call : At(e, "issue", "answer") /\ call[e].who = q =>
            \/ (At(e, "issue", "answer") /\ call[e].who = q)' /\ call'[e].by = call[e].by
            \/ q \in unheard'
      BY <2>4, <1>e
    <3>5. \A p \in Person : /\ page'[p].shown[q] \in {NoPin, page[p].shown[q]}
                            /\ page'[p].sheet[q] \in {NoPin, page[p].sheet[q]}
      BY <2>2, <3>1
    <3>6. QED
      BY <2>1, <1>a, <1>b, <1>c, <1>d, <3>2, <3>3, <3>4, <3>5, SlipKept
  <2>5. CASE SheetShown(c)
    <3> DEFINE s == call[c].slips
    <3>1. /\ page'[b].shown[q] = page[b].shown[q] /\ page'[b].sheet[q] \in {page[b].sheet[q], s[q]}
          /\ At(c, "sheet", "read")
      BY <2>1, <2>2, <2>5, <1>a DEF SheetShown, AccountsTypeOK, Pages
    <3>2. s[q] # NoPin => IsStaff(q)
      BY <3>1, <1>a DEF SlipOK, CallOK, At
    <3>3. \A p \in Person : IsStaff(q)' \/ (page'[p].shown[q] = NoPin /\ page'[p].sheet[q] = NoPin)
      BY <3>1, <3>2, <2>2, <1>a, <1>c DEF SlipOK
    <3>4. \A e \in Call : (call[e].op = "sheet" /\ call[e].slips[q] # NoPin)' => q \in call'[e].covers
      BY <1>e, <2>1, <1>a DEF SlipOK, Idle
    <3>5. ASSUME q \notin overlap', q \notin unheard'
          PROVE  SlipsAgree(q)'
      <4>1. SlipsAgree(q) /\ s[q] \in {NoPin, pin[q]}
        BY <3>5, <3>1, <2>1, <1>a DEF SlipOK, SlipsAgree, At
      <4>2. \A e, f \in Call : Doing(e, q, {"issue", "sheet"})' /\ Doing(f, q, {"issue", "sheet"})' => e = f
        BY <4>1, <1>d DEF SlipsAgree
      <4>3. \A e \in Call : (call[e].op = "sheet")' => call'[e].slips[q] \in {NoPin, pin'[q]}
        BY <4>1, <1>e, <2>1 DEF SlipsAgree, Idle
      <4>4. \A e \in Call : (At(e, "issue", "answer") /\ call[e].who = q)' => call'[e].slips[q] = pin'[q]
        BY <4>1, <1>e, <2>1 DEF SlipsAgree, At, Idle
      <4>5. \A e \in Call : At(e, "issue", "answer") /\ call[e].who = q =>
              (At(e, "issue", "answer") /\ call[e].who = q)' /\ call'[e].by = call[e].by
        BY <1>e, <3>1 DEF At
      <4>6. ASSUME NEW p \in Person
            PROVE  (\/ {page[p].shown[q], page[p].sheet[q]} \subseteq {NoPin, pin[q]}
                    \/ \E e \in Call : At(e, "issue", "answer") /\ call[e].by = p /\ call[e].who = q)'
        <5>1. CASE {page[p].shown[q], page[p].sheet[q]} \subseteq {NoPin, pin[q]}
          <6>1. {page'[p].shown[q], page'[p].sheet[q]} \subseteq {NoPin, pin'[q]}
            BY <5>1, <4>1, <3>1, <2>1, <2>2
          <6>2. QED
            BY <6>1
        <5>2. CASE \E e \in Call : At(e, "issue", "answer") /\ call[e].by = p /\ call[e].who = q
          <6>1. PICK e \in Call : At(e, "issue", "answer") /\ call[e].by = p /\ call[e].who = q
            BY <5>2
          <6>2. (At(e, "issue", "answer") /\ call[e].who = q)' /\ call'[e].by = p
            BY <6>1, <4>5
          <6>3. QED
            BY <6>2
        <5>3. QED
          BY <5>1, <5>2, <4>1 DEF SlipsAgree
      <4>7. QED
        BY <4>2, <4>3, <4>4, <4>6 DEF SlipsAgree
    <3>6. QED
      BY <3>3, <3>4, <3>5 DEF SlipOK
  <2>6. QED
    BY <1>7, <2>3, <2>4, <2>5
<1>8. QED
  BY <1>2, <1>3, <1>4, <1>5, <1>6, <1>7 DEF Step

LEMMA SlipBegins ==
  ASSUME AccountsTypeOK, CallInv, NEW q \in Person, SlipOK(q), NEW c \in Call, NEW x,
         call[c].at = "idle", call' = [call EXCEPT ![c] = x], x.at = "read", x.slips = NoSlips,
         pin' = pin, account' = account, unheard' = unheard, overlap \subseteq overlap',
         \A p \in Person : page'[p].shown = page[p].shown /\ page'[p].sheet = page[p].sheet,
         x.op \in {"issue", "sheet"} /\ q \in x.covers /\ q \notin overlap' =>
           \A d \in Call : ~Doing(d, q, {"issue", "sheet"})
  PROVE  SlipOK(q)'
<1>1. \A d \in Call : call'[d] = IF d = c THEN x ELSE call[d]
  BY DEF AccountsTypeOK
<1>2. call[c].op = "none" /\ NoSlips[q] = NoPin
  BY DEF CallInv, CallOK, NoSlips
<1>3. (\A p \in Person : IsStaff(q) \/ (page[p].shown[q] = NoPin /\ page[p].sheet[q] = NoPin))'
  BY DEF SlipOK, IsStaff
<1>4. (\A d \in Call : call[d].op = "sheet" /\ call[d].slips[q] # NoPin => q \in call[d].covers)'
  BY <1>1, <1>2 DEF SlipOK
<1>5. ASSUME q \notin overlap', q \notin unheard'
      PROVE  SlipsAgree(q)'
  <2>1. SlipsAgree(q)
    BY <1>5 DEF SlipOK
  <2>2. \A d \in Call : Doing(d, q, {"issue", "sheet"})' <=>
          Doing(d, q, {"issue", "sheet"}) \/ (d = c /\ x.op \in {"issue", "sheet"} /\ q \in x.covers)
    BY <1>1, <1>2 DEF Doing
  <2>3. \A d, e \in Call : Doing(d, q, {"issue", "sheet"})' /\ Doing(e, q, {"issue", "sheet"})' => d = e
    BY <2>1, <2>2, <1>5 DEF SlipsAgree
  <2>4. (\A d \in Call : call[d].op = "sheet" => call[d].slips[q] \in {NoPin, pin[q]})'
    BY <2>1, <1>1, <1>2 DEF SlipsAgree
  <2>5. (\A d \in Call : At(d, "issue", "answer") /\ call[d].who = q => call[d].slips[q] = pin[q])'
    BY <2>1, <1>1 DEF SlipsAgree, At
  <2>6. \A d \in Call : At(d, "issue", "answer") /\ call[d].who = q =>
          (At(d, "issue", "answer") /\ call[d].who = q)' /\ call'[d].by = call[d].by
    BY <1>1, <1>2 DEF At
  <2>7. ASSUME NEW p \in Person
        PROVE  (\/ {page[p].shown[q], page[p].sheet[q]} \subseteq {NoPin, pin[q]}
                \/ \E d \in Call : At(d, "issue", "answer") /\ call[d].by = p /\ call[d].who = q)'
    <3>1. CASE {page[p].shown[q], page[p].sheet[q]} \subseteq {NoPin, pin[q]}
      BY <3>1
    <3>2. CASE \E d \in Call : At(d, "issue", "answer") /\ call[d].by = p /\ call[d].who = q
      <4>1. PICK d \in Call : At(d, "issue", "answer") /\ call[d].by = p /\ call[d].who = q
        BY <3>2
      <4>2. (At(d, "issue", "answer") /\ call[d].who = q)' /\ call'[d].by = p
        BY <4>1, <2>6
      <4>3. QED
        BY <4>2
    <3>3. QED
      BY <3>1, <3>2, <2>1 DEF SlipsAgree
  <2>8. QED
    BY <2>3, <2>4, <2>5, <2>7 DEF SlipsAgree
<1>6. QED
  BY <1>3, <1>4, <1>5 DEF SlipOK

LEMMA SlipRequest ==
  ASSUME AccountsTypeOK, CallInv, SlipInv, NEW q \in Person,
         \/ \E c \in Call, p \in Person :
              \/ Login(c, p) \/ Forgot(c, p) \/ IssueMissing(c, p)
              \/ \E w \in Person : Issue(c, p, w) \/ \E what \in Change : Patch(c, p, w, what)
         \/ \E c \in Call, l \in 1..MaxLink : FollowLink(c, l)
         \/ \E c \in Call, v \in Visitor, register \in BOOLEAN : Join(c, v, register)
  PROVE  SlipOK(q)'
<1> USE DEF historyVars, faultVars, staffVars
<1>p. \A p \in Person : page[p] \in Pages
  BY DEF AccountsTypeOK
<1>a. ASSUME NEW c \in Call, NEW x, NEW group, Begin(c, x, group), x.at = "read", x.slips = NoSlips,
             pin' = pin, account' = account, unheard' = unheard,
             \A p \in Person : page'[p].shown = page[p].shown /\ page'[p].sheet = page[p].sheet,
             x.op \in {"issue", "sheet"} => group = {"issue", "sheet"}
      PROVE  SlipOK(q)'
  <2>1. /\ overlap \subseteq overlap'
        /\ q \in x.covers /\ q \notin overlap' => \A d \in Call : ~(call[d].op \in group /\ q \in call[d].covers)
    BY <1>a DEF Begin
  <2>2. x.op \in {"issue", "sheet"} /\ q \in x.covers /\ q \notin overlap' =>
           \A d \in Call : ~Doing(d, q, {"issue", "sheet"})
    BY <1>a, <2>1 DEF Doing
  <2>3. call[c].at = "idle" /\ call' = [call EXCEPT ![c] = x] /\ SlipOK(q)
    BY <1>a DEF Begin, SlipInv
  <2>4. QED
    BY <1>a, <2>1, <2>2, <2>3, SlipBegins
<1>1. ASSUME NEW c \in Call, NEW p \in Person, Login(c, p)
      PROVE  SlipOK(q)'
  <2>1. PICK x : x = [Idle EXCEPT !.op = "login", !.at = "read", !.who = p, !.what = account[p].role]
    OBVIOUS
  <2>2. x.op = "login" /\ x.at = "read" /\ x.slips = NoSlips
    BY <2>1 DEF Idle
  <2>3. /\ call[c].at = "idle" /\ call' = [call EXCEPT ![c] = x] /\ pin' = pin /\ account' = account
        /\ unheard' = unheard /\ overlap' = overlap /\ page' = page
    BY <1>1, <2>1 DEF Login
  <2>4. QED
    BY <2>2, <2>3, SlipBegins DEF SlipInv
<1>2. ASSUME NEW c \in Call, NEW w \in Person, Forgot(c, w)
      PROVE  SlipOK(q)'
  <2>1. PICK x : x = [Idle EXCEPT !.op = "forgot", !.at = "read", !.who = w, !.covers = {w}]
    OBVIOUS
  <2>2. x.op = "forgot" /\ x.at = "read" /\ x.slips = NoSlips
    BY <2>1 DEF Idle
  <2>3. /\ Begin(c, x, {"forgot", "reset", "patch"}) /\ pin' = pin /\ account' = account
        /\ unheard' = unheard /\ page' = page
    BY <1>2, <2>1 DEF Forgot
  <2>4. QED
    BY <2>2, <2>3, <1>a
<1>3. ASSUME NEW c \in Call, NEW p \in Person, IssueMissing(c, p)
      PROVE  SlipOK(q)'
  <2>1. PICK x : x = [Idle EXCEPT !.op = "sheet", !.at = "read", !.by = p, !.covers = Missing, !.todo = Missing]
    OBVIOUS
  <2>2. x.op = "sheet" /\ x.at = "read" /\ x.slips = NoSlips
    BY <2>1 DEF Idle
  <2>3. /\ Begin(c, x, {"issue", "sheet"}) /\ pin' = pin /\ account' = account
        /\ unheard' = unheard /\ page' = [page EXCEPT ![p].issuing = TRUE]
    BY <1>3, <2>1 DEF IssueMissing
  <2>4. \A u \in Person : page'[u].shown = page[u].shown /\ page'[u].sheet = page[u].sheet
    BY <2>3, <1>p DEF AccountsTypeOK, Pages
  <2>5. QED
    BY <2>2, <2>3, <2>4, <1>a
<1>4. ASSUME NEW c \in Call, NEW p \in Person, NEW w \in Person, Issue(c, p, w)
      PROVE  SlipOK(q)'
  <2>1. PICK x : x = [Idle EXCEPT !.op = "issue", !.at = "read", !.by = p, !.who = w, !.covers = {w}]
    OBVIOUS
  <2>2. x.op = "issue" /\ x.at = "read" /\ x.slips = NoSlips
    BY <2>1 DEF Idle
  <2>3. /\ Begin(c, x, {"issue", "sheet"}) /\ pin' = pin /\ account' = account
        /\ unheard' = unheard /\ page' = [page EXCEPT ![p].busy = w]
    BY <1>4, <2>1 DEF Issue
  <2>4. \A u \in Person : page'[u].shown = page[u].shown /\ page'[u].sheet = page[u].sheet
    BY <2>3, <1>p DEF AccountsTypeOK, Pages
  <2>5. QED
    BY <2>2, <2>3, <2>4, <1>a
<1>5. ASSUME NEW c \in Call, NEW p \in Person, NEW w \in Person, NEW what \in Change, Patch(c, p, w, what)
      PROVE  SlipOK(q)'
  <2>1. PICK x : x = [Idle EXCEPT !.op = "patch", !.at = "read", !.by = p, !.who = w, !.what = what,
                           !.got = IF LocksOut(w, what) THEN 1 ELSE 0,
                           !.covers = IF what = "off" THEN {w} ELSE {}]
    OBVIOUS
  <2>2. x.op = "patch" /\ x.at = "read" /\ x.slips = NoSlips
    BY <2>1 DEF Idle
  <2>3. /\ Begin(c, x, {"forgot"}) /\ pin' = pin /\ account' = account
        /\ unheard' = unheard /\ page' = page
    BY <1>5, <2>1 DEF Patch
  <2>4. QED
    BY <2>2, <2>3, <1>a
<1>6. ASSUME NEW c \in Call, NEW l \in 1..MaxLink, FollowLink(c, l)
      PROVE  SlipOK(q)'
  <2>1. PICK x : x = [Idle EXCEPT !.op = "reset", !.at = "read", !.who = link[l].who,
                           !.covers = {link[l].who}, !.got = l]
    OBVIOUS
  <2>2. x.op = "reset" /\ x.at = "read" /\ x.slips = NoSlips
    BY <2>1 DEF Idle
  <2>3. /\ Begin(c, x, {"forgot"}) /\ pin' = pin /\ account' = account
        /\ unheard' = unheard /\ page' = page
    BY <1>6, <2>1 DEF FollowLink
  <2>4. QED
    BY <2>2, <2>3, <1>a
<1>7. ASSUME NEW c \in Call, NEW v \in Visitor, NEW register \in BOOLEAN, Join(c, v, register)
      PROVE  SlipOK(q)'
  <2>1. PICK x : x = [Idle EXCEPT !.op = "join", !.at = "read", !.who = v, !.covers = {v},
                           !.what = IF register THEN "register" ELSE "oauth",
                           !.got = IF visitor[v].user THEN 1 ELSE 0]
    OBVIOUS
  <2>2. x.op = "join" /\ x.at = "read" /\ x.slips = NoSlips
    BY <2>1 DEF Idle
  <2>3. /\ Begin(c, x, {"join"}) /\ pin' = pin /\ account' = account
        /\ unheard' = unheard /\ page' = page
    BY <1>7, <2>1 DEF Join
  <2>4. QED
    BY <2>2, <2>3, <1>a
<1>8. QED
  BY <1>1, <1>2, <1>3, <1>4, <1>5, <1>6, <1>7

LEMMA SlipPlain ==
  ASSUME AccountsTypeOK, CallInv, SlipInv, NEW q \in Person,
         \/ UNCHANGED accountsVars
         \/ \E l \in 1..MaxLink : LinkExpires(l)
         \/ \E p \in Person :
              \/ SignOut(p) \/ HandedOut(p) \/ Enrol(p)
              \/ \E w \in Person : HidePin(p, w) \/ \E role \in {"ADMIN", "STAFF"} : AddLogin(p, w, role)
  PROVE  SlipOK(q)'
<1> USE DEF historyVars, faultVars, staffVars
<1>p. \A p \in Person : page[p] \in Pages
  BY DEF AccountsTypeOK
<1>s. SlipOK(q) /\ NoSlips[q] = NoPin
  BY DEF SlipInv, NoSlips
<1>1. call' = call /\ overlap' = overlap /\ unheard' = unheard
  <2>1. CASE UNCHANGED accountsVars
    BY <2>1 DEF accountsVars
  <2>2. CASE \E l \in 1..MaxLink : LinkExpires(l)
    BY <2>2 DEF LinkExpires
  <2>3. ASSUME NEW p \in Person,
               \/ SignOut(p) \/ HandedOut(p) \/ Enrol(p)
               \/ \E w \in Person : HidePin(p, w) \/ \E role \in {"ADMIN", "STAFF"} : AddLogin(p, w, role)
        PROVE  call' = call /\ overlap' = overlap /\ unheard' = unheard
    BY <2>3 DEF SignOut, HandedOut, Enrol, HidePin, AddLogin
  <2>4. QED
    BY <2>1, <2>2, <2>3
<1>2. /\ \A d \in Call : (call[d].op = "sheet" /\ call[d].slips[q] # NoPin)' =>
                            /\ call[d].op = "sheet" /\ call'[d].slips[q] = call[d].slips[q]
                            /\ call'[d].covers = call[d].covers
      /\ \A d \in Call : Doing(d, q, {"issue", "sheet"})' => Doing(d, q, {"issue", "sheet"})
      /\ \A d \in Call : (At(d, "issue", "answer") /\ call[d].who = q)' =>
                            /\ At(d, "issue", "answer") /\ call[d].who = q
                            /\ call'[d].slips[q] = call[d].slips[q]
      /\ \A d \in Call : At(d, "issue", "answer") /\ call[d].who = q =>
            \/ (At(d, "issue", "answer") /\ call[d].who = q)' /\ call'[d].by = call[d].by
            \/ q \in unheard'
  BY <1>1 DEF At, Doing
<1>3. IsStaff(q) => IsStaff(q)'
  BY RowsGrow DEF AccountsNext
<1>4. ASSUME pin'[q] = pin[q],
             \A p \in Person : /\ page'[p].shown[q] \in {NoPin, page[p].shown[q]}
                               /\ page'[p].sheet[q] \in {NoPin, page[p].sheet[q]}
      PROVE  SlipOK(q)'
  BY <1>s, <1>1, <1>2, <1>3, <1>4, SlipKept
<1>5. CASE UNCHANGED accountsVars \/ \E l \in 1..MaxLink : LinkExpires(l)
  BY <1>4, <1>5 DEF accountsVars, LinkExpires
<1>6. ASSUME NEW p \in Person, SignOut(p)
      PROVE  SlipOK(q)'
  BY <1>4, <1>6, <1>s DEF SignOut, AccountsTypeOK, FreshPage
<1>7. ASSUME NEW p \in Person, HandedOut(p)
      PROVE  SlipOK(q)'
  BY <1>4, <1>7, <1>s, <1>p DEF HandedOut, AccountsTypeOK, Pages
<1>8. ASSUME NEW p \in Person, NEW w \in Person, HidePin(p, w)
      PROVE  SlipOK(q)'
  <2>1. pin' = pin
    BY <1>8 DEF HidePin
  <2>2. \A u \in Person : /\ page'[u].shown[q] \in {NoPin, page[u].shown[q]}
                          /\ page'[u].sheet[q] = page[u].sheet[q]
    BY <1>8, <1>p DEF HidePin, AccountsTypeOK, Pages
  <2>3. QED
    BY <2>1, <2>2, <1>4
<1>9. ASSUME NEW p \in Person, NEW w \in Person, NEW role \in {"ADMIN", "STAFF"}, AddLogin(p, w, role)
      PROVE  SlipOK(q)'
  BY <1>4, <1>9 DEF AddLogin
<1>10. ASSUME NEW w \in Person, Enrol(w)
       PROVE  SlipOK(q)'
  <2>1. PICK d \in Fresh : pin' = [pin EXCEPT ![w] = d]
    BY <1>10 DEF Enrol
  <2>2. page' = page /\ ~IsStaff(w)
    BY <1>10 DEF Enrol
  <2>3. CASE w # q
    BY <2>1, <2>2, <2>3, <1>4 DEF AccountsTypeOK
  <2>4. CASE w = q
    <3>1. \A p \in Person : page[p].shown[q] = NoPin /\ page[p].sheet[q] = NoPin
      BY <2>2, <2>4, <1>s DEF SlipOK
    <3>2. \A e \in Call : call[e].op = "sheet" => call[e].slips[q] = NoPin
      BY <2>2, <2>4, <1>s DEF SlipOK, CallInv, CallOK
    <3>3. \A e \in Call : At(e, "issue", "answer") => call[e].who # q
      BY <2>2, <2>4 DEF CallInv, CallOK, At
    <3>4. ASSUME q \notin overlap', q \notin unheard'
          PROVE  SlipsAgree(q)'
      <4>1. SlipsAgree(q)
        BY <3>4, <1>s, <1>1 DEF SlipOK
      <4>2. QED
        BY <4>1, <1>1, <1>2, <3>1, <3>2, <3>3, <2>2 DEF SlipsAgree, At
    <3>5. QED
      BY <3>1, <3>2, <3>4, <1>1, <2>2 DEF SlipOK
  <2>5. QED
    BY <2>3, <2>4
<1>11. QED
  BY <1>5, <1>6, <1>7, <1>8, <1>9, <1>10

LEMMA SlipNext == AccountsTypeOK /\ CallInv /\ SlipInv /\ [AccountsNext]_accountsVars => SlipInv'
<1> SUFFICES ASSUME AccountsTypeOK, CallInv, SlipInv, [AccountsNext]_accountsVars, NEW q \in Person
             PROVE  SlipOK(q)'
  BY DEF SlipInv
<1>1. QED
  BY SlipStep, SlipRequest, SlipPlain DEF AccountsNext

-----------------------------------------------------------------------------
LEMMA AccountsInvInit == AccountsInit => AccountsInv
<1> SUFFICES ASSUME AccountsInit
             PROVE  AccountsInv
  OBVIOUS
<1>1. /\ \A c \in Call : call[c] = Idle /\ call[c].op = "none" /\ call[c].slips = NoSlips
      /\ \A p \in Person : page[p].shown = NoSlips /\ page[p].sheet = NoSlips /\ NoSlips[p] = NoPin
      /\ \A l \in 1..MaxLink : link[l].at = "unborn"
      /\ \A p \in Person : ~account[p].off
  BY DEF AccountsInit, Idle, FreshPage, NoSlips, NoLogin
<1>2. CallInv
  BY <1>1 DEF CallInv, CallOK
<1>3. LockoutNeedsStaleAdmin
  <2>1. PICK p \in Bootstrap : p \in Person
    BY AccountConstantsOK
  <2>2. account[p] = [NoLogin EXCEPT !.role = "ADMIN"]
    BY <2>1 DEF AccountsInit
  <2>3. EnabledAdmin(p)
    BY <2>2 DEF EnabledAdmin, NoLogin
  <2>4. QED
    BY <2>1, <2>3 DEF LockoutNeedsStaleAdmin
<1>4. LinkInv
  BY <1>1 DEF LinkInv, LinkOK, Open, Doing, At
<1>5. SlipInv
  BY <1>1 DEF SlipInv, SlipOK, SlipsAgree, Doing, At
<1>6. QED
  BY <1>2, <1>3, <1>4, <1>5 DEF AccountsInv

\* Accounts, tokens, PINs, links and pages are well typed: AccountsTypeOK is an invariant
\* for every set of people, PINs and requests, and every number of links and faults.
THEOREM AccountsTypeCorrect == AccountsSpec => []AccountsTypeOK
<1>1. AccountsInit => AccountsTypeOK /\ AccountsInv
  BY AccountsTypeInit, AccountsInvInit
<1>2. AccountsTypeOK /\ AccountsInv /\ [AccountsNext]_accountsVars => AccountsTypeOK' /\ AccountsInv'
  BY AccountsTypeNext, CallInvNext, LockoutNext, LinkNext, SlipNext DEF AccountsInv
<1>3. QED
  BY <1>1, <1>2, PTL DEF AccountsSpec

LEMMA AccountsInvariant == AccountsSpec => []AccountsInv
<1>1. AccountsInit => AccountsTypeOK /\ AccountsInv
  BY AccountsTypeInit, AccountsInvInit
<1>2. AccountsTypeOK /\ AccountsInv /\ [AccountsNext]_accountsVars => AccountsTypeOK' /\ AccountsInv'
  BY AccountsTypeNext, CallInvNext, LockoutNext, LinkNext, SlipNext DEF AccountsInv
<1>3. QED
  BY <1>1, <1>2, PTL DEF AccountsSpec

\* The shop is left without an admin who can sign in only by a change that would have
\* been refused when it was written (PATCH /staff/:id).
THEOREM AdminUnlessStale == AccountsSpec => []LockoutNeedsStaleAdmin
<1>1. AccountsInv => LockoutNeedsStaleAdmin
  BY DEF AccountsInv
<1>2. QED
  BY <1>1, AccountsInvariant, PTL

\* A person has one reset link that works at most, and none once the login is off,
\* unless a link of theirs was being made while something else was done with their links
\* or their own switching-off stands, or broke off, between its two statements: no fault
\* and no request over anybody else excuses one (POST /forgot, POST /reset, PATCH
\* /staff/:id).
THEOREM OneLinkWorks == AccountsSpec => []LinksDie
<1>1. AccountsInv => LinksDie
  <2> SUFFICES ASSUME AccountsInv, NEW q \in Person \ overlap
               PROVE  /\ Cardinality(Open(q)) <= 1
                      /\ account[q].off => Open(q) = {} \/ q \in halfway \/ \E c \in Call : q \in ToTidy(c)
    BY DEF LinksDie
  <2>1. LinkOK(q)
    BY DEF AccountsInv, LinkInv
  <2>2. Cardinality(Open(q)) <= 1
    <3>1. CASE Open(q) = {}
      BY <3>1, FS_EmptySet
    <3>2. CASE Open(q) # {}
      <4>1. PICK k \in Open(q) : TRUE
        BY <3>2
      <4>2. Open(q) = {k}
        BY <4>1, <2>1 DEF LinkOK
      <4>3. QED
        BY <4>2, FS_Singleton
    <3>3. QED
      BY <3>1, <3>2
  <2>3. account[q].off => Open(q) = {} \/ q \in halfway \/ \E c \in Call : q \in ToTidy(c)
    BY <2>1 DEF LinkOK
  <2>4. QED
    BY <2>2, <2>3
<1>2. QED
  BY <1>1, AccountsInvariant, PTL

\* A slip that a Staff page shows or would print is the PIN that works, unless two
\* requests were at that person's PIN at once, the page is still to hear of the reset it
\* asked for, or the answer to one for that person was lost after the PIN was written
\* (POST /staff/:id/pin, /staff/pins/issue-missing, the Staff page).
THEOREM SlipsWork == AccountsSpec => []DeadSlipNeedsOverlap
<1>1. AccountsTypeOK /\ AccountsInv => DeadSlipNeedsOverlap
  <2> SUFFICES ASSUME AccountsTypeOK, AccountsInv, NEW p \in Person, NEW q \in Person,
                      q \notin overlap \cup unheard
               PROVE  \/ {page[p].shown[q], page[p].sheet[q]} \subseteq {NoPin, pin[q]}
                      \/ \E c \in Call : call[c].op = "issue" /\ call[c].by = p /\ call[c].who = q
    BY DEF DeadSlipNeedsOverlap
  <2>1. SlipsAgree(q)
    BY DEF AccountsInv, SlipInv, SlipOK
  <2>2. QED
    BY <2>1 DEF SlipsAgree, At
<1>2. QED
  BY <1>1, AccountsInvariant, AccountsTypeCorrect, PTL
=============================================================================
