---------------------- MODULE TicketAnnouncerProofs ----------------------
(***************************************************************************)
(* Proofs about TicketAnnouncer, for every set of tickets, codes, phones   *)
(* and trading days, every pass size, and every number of scans and        *)
(* faults.                                                                 *)
(***************************************************************************)
EXTENDS TicketAnnouncer, SequenceTheorems, TLAPS

-----------------------------------------------------------------------------
(* Type correctness.                                                       *)

LEMMA TypeInit == Init => TypeOK
BY ConstantsOK DEF Init, TypeOK, State, BeatState, PollState, Asleep

\* What a pass of beat can stand at next is a state of beat.
LEMMA CallingType == \A rows \in SUBSET Ticket : Calling(rows) \in BeatState
BY DEF Calling, BeatState

LEMMA WritingType == \A rows \in SUBSET (Ticket \X Chat) : Writing(rows) \in BeatState
BY DEF Writing, BeatState, Asleep

LEMMA LinkingType ==
  \A batch, done \in SUBSET (1..Len(links)) : Linking(batch, done) \in PollState
BY DEF Linking, PollState, Asleep

\* The fields beat and poll have, by where they stand.
LEMMA BeatFields ==
  ASSUME beat \in BeatState
  PROVE  /\ beat.at \in {"sleep", "calling", "spoken", "messaging", "writing", "sent"}
         /\ beat.at \in {"calling", "spoken"} => beat.rows \in SUBSET Ticket
         /\ beat.at \in {"writing", "sent"} => beat.rows \in SUBSET (Ticket \X Chat)
         /\ beat.at \in {"spoken", "sent"} => beat.now \in Ticket
BY DEF BeatState, Asleep

LEMMA PollFields ==
  ASSUME poll \in PollState
  PROVE  /\ poll.at \in {"sleep", "linking", "found", "answering", "answered", "claiming"}
         /\ poll.at \notin {"sleep", "claiming"} =>
              /\ poll \in [at : {"linking", "found", "answering", "answered"},
                           batch : SUBSET (1..Len(links)), done : SUBSET (1..Len(links)),
                           row : SUBSET Ticket, ready : BOOLEAN]
              /\ poll.batch \in SUBSET (1..Len(links))
              /\ poll.row \in SUBSET Ticket
         /\ poll.at # "sleep" => poll.done \in SUBSET (1..Len(links))
BY DEF PollState, Asleep

LEMMA TypeShop ==
  ASSUME TypeOK, NextDay \/ \E t \in Ticket : ShopStep(t)
  PROVE  TypeOK'
<1>1. CASE NextDay
  BY <1>1, ConstantsOK DEF TypeOK, NextDay, stamps, history, PollState
<1>2. CASE \E t \in Ticket : ShopStep(t)
  BY <1>2 DEF TypeOK, ShopStep, stamps, history, PollState
<1>3. QED
  BY <1>1, <1>2

\* A link the server adds or claims leaves the announcer's own lists valid.
LEMMA PollKept ==
  ASSUME poll \in PollState, poll' = poll, 1..Len(links) \subseteq 1..Len(links')
  PROVE  poll' \in PollState'
BY DEF PollState, Asleep

LEMMA TypeScan ==
  ASSUME TypeOK, NEW t \in Ticket, NEW c \in Chat, Scan(t, c)
  PROVE  TypeOK'
<1> DEFINE l == [slip |-> t, chat |-> c, claimed |-> FALSE]
<1>1. l \in Link
  BY DEF Link
<1>2. links' \in Seq(Link) /\ Len(links') = Len(links) + 1
  BY <1>1, AppendProperties DEF TypeOK, Scan
<1>3. Len(links) \in Nat
  BY LenProperties DEF TypeOK
<1>4. 1..Len(links) \subseteq 1..Len(links')
  BY <1>2, <1>3
<1>5. poll' \in PollState'
  BY <1>4, PollKept DEF TypeOK, Scan
<1>6. applied' \subseteq 1..Len(links')
  BY <1>4 DEF TypeOK, Scan, history
<1>7. QED
  BY <1>2, <1>5, <1>6 DEF TypeOK, Scan, stamps, history, BeatState

LEMMA TypeBeat ==
  ASSUME TypeOK, BeatStep
  PROVE  TypeOK'
<1> USE DEF TypeOK, stamps, history
<1>1. PollState' = PollState /\ BeatState' = BeatState
  BY DEF BeatStep, SelectReady, StampCalled, SelectFollowed, StampTold, Say, Send,
         PollState, BeatState
<1>2. CASE SelectReady
  <2>1. \A rows \in UpTo(CallLimit, ToCall) : rows \in SUBSET Ticket
    BY DEF UpTo, ToCall
  <2>2. beat' \in BeatState
    BY <1>2, <2>1, CallingType DEF SelectReady
  <2>3. QED
    BY <1>1, <1>2, <2>2 DEF SelectReady
<1>3. CASE StampCalled
  <2>1. beat' \in BeatState
    BY <1>3, BeatFields, CallingType DEF StampCalled
  <2>2. called' \in [Ticket -> BOOLEAN]
    BY <1>3 DEF StampCalled
  <2>3. QED
    BY <1>1, <1>3, <2>1, <2>2 DEF StampCalled
<1>4. CASE SelectFollowed
  <2>1. ASSUME NEW rows \in UpTo(TellLimit, ToTell)
        PROVE  {<<t, follower[t]>> : t \in rows} \in SUBSET (Ticket \X Chat)
    BY DEF UpTo, ToTell
  <2>2. beat' \in BeatState
    BY <1>4, <2>1, WritingType DEF SelectFollowed
  <2>3. QED
    BY <1>1, <1>4, <2>2 DEF SelectFollowed
<1>5. CASE StampTold
  <2>1. beat' \in BeatState
    BY <1>5, BeatFields, WritingType DEF StampTold
  <2>2. told' \in [Ticket -> BOOLEAN]
    BY <1>5 DEF StampTold
  <2>3. QED
    BY <1>1, <1>5, <2>1, <2>2 DEF StampTold
<1>6. ASSUME NEW t \in Ticket, Say(t)
      PROVE  TypeOK'
  <2>1. beat' \in BeatState
    BY <1>6, BeatFields DEF Say, BeatState
  <2>2. calls' \in [Ticket -> Nat]
    BY <1>6 DEF Say
  <2>3. QED
    BY <1>1, <1>6, <2>1, <2>2 DEF Say
<1>7. ASSUME NEW r \in Ticket \X Chat, Send(r)
      PROVE  TypeOK'
  <2>1. beat' \in BeatState
    BY <1>7, BeatFields DEF Send, BeatState
  <2>2. heard' \in [Ticket -> Nat]
    BY <1>7 DEF Send
  <2>3. QED
    BY <1>1, <1>7, <2>1, <2>2 DEF Send
<1>8. QED
  BY <1>2, <1>3, <1>4, <1>5, <1>6, <1>7 DEF BeatStep

\* Finishing with a scan, whether it went through or is left for the next pass.
LEMMA ReturnType ==
  ASSUME TypeOK, poll.at \in {"linking", "found", "answering", "answered"},
         NEW i \in 1..Len(links), Return(i)
  PROVE  poll' \in PollState /\ applied' \subseteq 1..Len(links)
BY PollFields, LinkingType DEF TypeOK, Return

LEMMA AttachedType ==
  ASSUME TypeOK, NEW i \in 1..Len(links)
  PROVE  /\ Attached(i) \in [Ticket -> Chat \cup {Nobody}]
         /\ Answered(i) \in [Ticket -> BOOLEAN]
<1>1. links[i] \in Link
  BY ElementOfSeq DEF TypeOK
<1>2. links[i].chat \in Chat
  BY <1>1 DEF Link
<1>3. QED
  BY <1>2 DEF TypeOK, Attached, Answered

LEMMA ClaimedType ==
  ASSUME TypeOK, NEW done
  PROVE  Claimed(done) \in Seq(Link) /\ Len(Claimed(done)) = Len(links)
<1>1. Len(links) \in Nat
  BY LenProperties DEF TypeOK
<1>2. \A i \in 1..Len(links) : links[i] \in Link
  BY ElementOfSeq DEF TypeOK
<1>3. \A i \in 1..Len(links) :
        (IF i \in done THEN [links[i] EXCEPT !.claimed = TRUE] ELSE links[i]) \in Link
  BY <1>2 DEF Link
<1>4. Claimed(done) \in [1..Len(links) -> Link]
  BY <1>3 DEF Claimed
<1>5. QED
  BY <1>1, <1>4, SeqDef, LenProperties

LEMMA TypePoll ==
  ASSUME TypeOK, PollStep
  PROVE  TypeOK'
<1> USE DEF TypeOK, stamps, history
<1>1. CASE FetchLinks
  <2>1. OldestUnclaimed \in SUBSET (1..Len(links))
    BY DEF OldestUnclaimed, Unclaimed
  <2>2. poll' \in PollState
    BY <1>1, <2>1, LinkingType DEF FetchLinks
  <2>3. QED
    BY <1>1, <2>2 DEF FetchLinks, BeatState, PollState
<1>2. CASE Answer
  <2>1. poll' \in PollState
    BY <1>2, PollFields DEF Answer, PollState
  <2>2. heard' \in [Ticket -> Nat]
    BY <1>2 DEF Answer
  <2>3. QED
    BY <1>2, <2>1, <2>2 DEF Answer, BeatState, PollState
<1>3. CASE Claim
  <2>1. links' \in Seq(Link) /\ Len(links') = Len(links)
    BY <1>3, ClaimedType DEF Claim
  <2>2. poll' \in PollState'
    BY <1>3 DEF Claim, PollState
  <2>3. QED
    BY <1>3, <2>1, <2>2 DEF Claim, BeatState
<1>4. ASSUME NEW i \in 1..Len(links), FindTicket(i)
      PROVE  TypeOK'
  <2> DEFINE row == {t \in Today(CodeIn(i)) : shop[t] \in {"OPEN", "READY"}}
  <2>1. row \in SUBSET Ticket
    BY DEF Today
  <2>2. CASE Return(i)
    <3>1. poll' \in PollState /\ applied' \subseteq 1..Len(links)
      BY <1>4, <2>2, ReturnType DEF FindTicket
    <3>2. QED
      BY <1>4, <3>1 DEF FindTicket, BeatState, PollState
  <2>3. CASE /\ poll' = [poll EXCEPT !.at = "found", !.row = row,
                                     !.ready = \E t \in row : shop[t] = "READY"]
             /\ UNCHANGED applied
    <3>1. poll' \in PollState
      BY <1>4, <2>1, <2>3, PollFields DEF FindTicket, PollState
    <3>2. QED
      BY <1>4, <2>3, <3>1 DEF FindTicket, BeatState, PollState
  <2>4. QED
    BY <1>4, <2>2, <2>3 DEF FindTicket
<1>5. ASSUME NEW i \in 1..Len(links), Attach(i)
      PROVE  TypeOK'
  <2>1. follower' \in [Ticket -> Chat \cup {Nobody}]
    BY <1>5, AttachedType DEF Attach
  <2>2. poll' \in PollState /\ applied' \subseteq 1..Len(links)
    <3>1. CASE poll.ready
      BY <1>5, <3>1, PollFields DEF Attach, PollState
    <3>2. CASE ~poll.ready
      BY <1>5, <3>2, ReturnType DEF Attach
    <3>3. QED
      BY <3>1, <3>2
  <2>3. QED
    BY <1>5, <2>1, <2>2 DEF Attach, BeatState, PollState
<1>6. ASSUME NEW i \in 1..Len(links), StampAnswered(i)
      PROVE  TypeOK'
  <2>1. told' \in [Ticket -> BOOLEAN]
    BY <1>6, AttachedType DEF StampAnswered
  <2>2. poll' \in PollState /\ applied' \subseteq 1..Len(links)
    BY <1>6, ReturnType DEF StampAnswered
  <2>3. QED
    BY <1>6, <2>1, <2>2 DEF StampAnswered, BeatState, PollState
<1>7. QED
  BY <1>1, <1>2, <1>3, <1>4, <1>5, <1>6 DEF PollStep

LEMMA LostType ==
  ASSUME TypeOK, ConnectionLost
  PROVE  TypeOK'
<1> USE DEF TypeOK, stamps, history
<1>1. BeatLost => beat' \in BeatState
  BY DEF BeatLost, BeatState
<1>2. ScansLost => poll' \in PollState
  <2> SUFFICES ASSUME ScansLost
               PROVE  poll' \in PollState
    OBVIOUS
  <2>1. poll.batch \in SUBSET (1..Len(links)) /\ poll.done \in SUBSET (1..Len(links))
    BY PollFields DEF ScansLost
  <2>2. PICK lost \in SUBSET poll.batch : poll' = Linking(poll.batch \ lost, poll.done)
    BY DEF ScansLost
  <2>3. poll.batch \ lost \in SUBSET (1..Len(links))
    BY <2>1
  <2>4. QED
    BY <2>1, <2>2, <2>3, LinkingType
<1>3. ASSUME NEW i \in poll.batch, ScansLost, Landed(i)
      PROVE  follower' \in [Ticket -> Chat \cup {Nobody}] /\ told' \in [Ticket -> BOOLEAN]
  BY <1>3, PollFields, AttachedType DEF ScansLost, Landed
<1>4. beat' \in BeatState /\ poll' \in PollState
  BY <1>1, <1>2 DEF ConnectionLost
<1>5. follower' \in [Ticket -> Chat \cup {Nobody}] /\ told' \in [Ticket -> BOOLEAN]
  BY <1>3 DEF ConnectionLost
<1>6. faults' \in 0..MaxFault
  BY ConstantsOK DEF ConnectionLost, Fault
<1>7. QED
  BY <1>4, <1>5, <1>6 DEF ConnectionLost, BeatState, PollState

LEMMA TypeFaults ==
  ASSUME TypeOK, Faults
  PROVE  TypeOK'
<1> USE DEF TypeOK, stamps, history
<1>1. Fault => faults' \in 0..MaxFault
  BY ConstantsOK DEF Fault
<1>2. CASE AnswerFails
  <2>1. poll' \in PollState
    BY <1>2, PollFields DEF AnswerFails, PollState
  <2>2. QED
    BY <1>1, <1>2, <2>1 DEF AnswerFails, BeatState, PollState
<1>3. CASE ClaimFails
  <2>1. links' \in Seq(Link) /\ Len(links') = Len(links)
    BY <1>3, ClaimedType DEF ClaimFails
  <2>2. poll' \in PollState'
    BY <1>3 DEF ClaimFails, PollState
  <2>3. QED
    BY <1>1, <1>3, <2>1, <2>2 DEF ClaimFails, BeatState
<1>4. CASE ConnectionLost
  BY <1>4, LostType
<1>5. CASE Killed
  BY <1>1, <1>5 DEF Killed, BeatState, PollState
<1>6. ASSUME NEW t \in Ticket, SayFails(t)
      PROVE  TypeOK'
  <2>1. beat' \in BeatState
    BY <1>6, BeatFields DEF SayFails, BeatState
  <2>2. QED
    BY <1>1, <1>6, <2>1 DEF SayFails, BeatState, PollState
<1>7. ASSUME NEW r \in Ticket \X Chat, SendFails(r)
      PROVE  TypeOK'
  <2>1. beat' \in BeatState
    BY <1>7, BeatFields DEF SendFails, BeatState
  <2>2. QED
    BY <1>1, <1>7, <2>1 DEF SendFails, BeatState, PollState
<1>8. QED
  BY <1>2, <1>3, <1>4, <1>5, <1>6, <1>7 DEF Faults

LEMMA TypeStep == TypeOK /\ [Next]_vars => TypeOK'
<1> SUFFICES ASSUME TypeOK, [Next]_vars
             PROVE  TypeOK'
  OBVIOUS
<1>1. CASE UNCHANGED vars
  BY <1>1 DEF vars, stamps, history, TypeOK, BeatState, PollState
<1>2. CASE Next
  BY <1>2, TypeShop, TypeScan, TypeBeat, TypePoll, TypeFaults DEF Next
<1>3. QED
  BY <1>1, <1>2

\* Every reachable state is well typed; a pass that calls has a ticket left to
\* call (announce), so that no timer is ever stuck in an empty loop.
THEOREM TypeCorrect == Spec => []TypeOK
<1>1. Init => TypeOK
  BY TypeInit
<1>2. TypeOK /\ [Next]_vars => TypeOK'
  BY TypeStep
<1>3. QED
  BY <1>1, <1>2, PTL DEF Spec

-----------------------------------------------------------------------------
(* The invariant, one part at a time.                                      *)

\* Where the loops leave the two timers.
LEMMA LoopEnds ==
  /\ \A rows : Calling(rows).at \in {"calling", "messaging"}
  /\ \A rows : Writing(rows).at \in {"writing", "sleep"}
  /\ \A batch, done : Linking(batch, done).at \in {"linking", "claiming", "sleep"}
  /\ \A batch, done : Linking(batch, done).at # "sleep" => Linking(batch, done).done = done
  /\ \A rows : Calling(rows).at = "calling" => Calling(rows).rows = rows
BY DEF Calling, Writing, Linking, Asleep

\* Nobody but the till, the calendar and linkChat moves what ShopInv speaks of.
LEMMA ShopInvStep ==
  ASSUME TypeOK, ShopInv, Next
  PROVE  ShopInv'
<1> USE DEF ShopInv
<1>1. CASE NextDay
  BY <1>1, ConstantsOK DEF TypeOK, NextDay, stamps
<1>2. ASSUME NEW t \in Ticket, ShopStep(t)
      PROVE  ShopInv'
  <2>1. PICK st \in State : /\ <<shop[t], st>> \in Life
                            /\ st = "OPEN" => Day[t] = today
                            /\ shop' = [shop EXCEPT ![t] = st]
    BY <1>2 DEF ShopStep
  <2>2. st # "absent" /\ (shop[t] = "absent" => st = "OPEN")
    BY <2>1 DEF Life
  <2>3. UNCHANGED <<today, follower>>
    BY <1>2 DEF ShopStep, stamps
  <2>4. QED
    BY <2>1, <2>2, <2>3, ConstantsOK DEF TypeOK
<1>3. ASSUME NEW t \in Ticket, NEW c \in Chat, Scan(t, c)
      PROVE  ShopInv'
  BY <1>3 DEF Scan, stamps
<1>4. CASE BeatStep
  BY <1>4 DEF BeatStep, SelectReady, StampCalled, SelectFollowed, StampTold, Say, Send, stamps
<1>5. ASSUME NEW i, follower' = Attached(i), UNCHANGED <<today, shop>>
      PROVE  ShopInv'
  BY <1>5 DEF Attached, Today, TypeOK
<1>6. CASE PollStep
  <2>1. ASSUME NEW i \in 1..Len(links), Attach(i)
        PROVE  ShopInv'
    BY <2>1, <1>5 DEF Attach
  <2>2. QED
    BY <1>6, <2>1 DEF PollStep, FetchLinks, Answer, Claim, FindTicket, StampAnswered, stamps
<1>7. CASE Faults
  <2>1. CASE ConnectionLost
    <3>1. UNCHANGED <<today, shop>>
      BY <2>1 DEF ConnectionLost
    <3>2. UNCHANGED follower \/ \E i \in poll.batch : follower' = Attached(i)
      BY <2>1 DEF ConnectionLost, Landed
    <3>3. QED
      BY <3>1, <3>2, <1>5
  <2>2. QED
    BY <1>7, <2>1 DEF Faults, AnswerFails, ClaimFails, Killed, SayFails, SendFails, stamps
<1>8. QED
  BY <1>1, <1>2, <1>3, <1>4, <1>6, <1>7 DEF Next

\* A scan found to be of a ticket nobody else follows stays free to attach.
LEMMA FoundInvStep ==
  ASSUME TypeOK, ShopInv, FoundInv, Next
  PROVE  FoundInv'
<1>1. CASE UNCHANGED <<today, follower, links, poll>>
  BY <1>1 DEF FoundInv, Current, CodeIn
<1>2. CASE poll'.at # "found"
  BY <1>2 DEF FoundInv
<1>3. CASE NextDay
  <2>1. today' = today + 1 /\ UNCHANGED <<poll, follower, links>>
    BY <1>3 DEF NextDay, stamps
  <2>2. \A t \in Ticket : Day[t] >= today + 1 => Day[t] >= today
    BY ConstantsOK DEF TypeOK
  <2>3. QED
    BY <2>1, <2>2 DEF FoundInv, Current, CodeIn
<1>4. ASSUME NEW t \in Ticket, NEW c \in Chat, Scan(t, c)
      PROVE  FoundInv'
  <2>1. ASSUME poll.at = "found"
        PROVE  \A i \in poll.batch : links'[i] = links[i]
    <3>1. poll.batch \subseteq 1..Len(links)
      BY <2>1, PollFields DEF TypeOK
    <3>2. [slip |-> t, chat |-> c, claimed |-> FALSE] \in Link
      BY DEF Link
    <3>3. \A i \in 1..Len(links) : links'[i] = links[i]
      BY <1>4, <3>2, AppendProperties DEF Scan, TypeOK
    <3>4. QED
      BY <3>1, <3>3
  <2>2. QED
    BY <1>4, <2>1 DEF Scan, FoundInv, Current, CodeIn, stamps
<1>5. ASSUME NEW i \in 1..Len(links), FindTicket(i)
      PROVE  FoundInv'
  <2> DEFINE row == {t \in Today(CodeIn(i)) : shop[t] \in {"OPEN", "READY"}}
  <2>1. CASE Return(i)
    BY <2>1, <1>2, LoopEnds DEF Return
  <2>2. CASE /\ ~Refused(row, links[i].chat)
             /\ poll' = [poll EXCEPT !.at = "found", !.row = row,
                                     !.ready = \E t \in row : shop[t] = "READY"]
    <3>1. PICK u \in row : follower[u] \in {Nobody, links[i].chat}
      BY <2>2 DEF Refused
    <3>2. u \in Ticket /\ Day[u] = today /\ CodeOf[u] = CodeIn(i)
      BY <3>1 DEF Today
    <3>3. ASSUME NEW t \in Ticket, CodeOf[t] = CodeIn(i), Day[t] >= today
          PROVE  follower[t] \in {Nobody, links[i].chat}
      <4>1. CASE Day[t] = today
        BY <3>1, <3>2, <3>3, <4>1, ConstantsOK
      <4>2. CASE Day[t] > today
        <5>1. ~(Day[t] <= today)
          BY <4>2, ConstantsOK DEF TypeOK
        <5>2. QED
          BY <5>1 DEF ShopInv
      <4>3. QED
        BY <3>3, <4>1, <4>2, ConstantsOK DEF TypeOK
    <3>4. poll'.batch = poll.batch
      BY <1>5, <2>2, PollFields DEF FindTicket, TypeOK
    <3>5. \A j \in poll.batch : Current(j)' => j = i
      <4>1. poll.batch \subseteq 1..Len(links) /\ Current(i)
        BY <1>5, PollFields DEF FindTicket, TypeOK
      <4>2. QED
        BY <3>4, <4>1 DEF Current
    <3>6. UNCHANGED <<today, follower, links>>
      BY <1>5 DEF FindTicket, stamps
    <3>7. QED
      BY <3>3, <3>4, <3>5, <3>6 DEF FoundInv, CodeIn
  <2>3. QED
    BY <1>5, <2>1, <2>2 DEF FindTicket
<1>6. ASSUME NEW t \in Ticket, ShopStep(t)
      PROVE  FoundInv'
  BY <1>1, <1>6 DEF ShopStep, stamps
<1>7. CASE BeatStep
  BY <1>1, <1>7 DEF BeatStep, SelectReady, StampCalled, SelectFollowed, StampTold, Say, Send, stamps
<1>8. CASE PollStep
  <2>1. CASE FetchLinks
    BY <1>2, <2>1, LoopEnds DEF FetchLinks
  <2>2. CASE Answer \/ Claim
    BY <1>2, <2>2, PollFields DEF Answer, Claim, Asleep, TypeOK
  <2>3. ASSUME NEW i \in 1..Len(links), Attach(i) \/ StampAnswered(i)
        PROVE  FoundInv'
    <3>1. CASE Return(i)
      BY <1>2, <3>1, LoopEnds DEF Return
    <3>2. CASE Attach(i) /\ poll' = [poll EXCEPT !.at = "answering"]
      BY <1>2, <3>2, PollFields DEF Attach, TypeOK
    <3>3. QED
      BY <2>3, <3>1, <3>2 DEF Attach, StampAnswered
  <2>4. QED
    BY <1>5, <1>8, <2>1, <2>2, <2>3 DEF PollStep
<1>9. CASE Faults
  <2>1. CASE AnswerFails
    BY <1>2, <2>1, PollFields DEF AnswerFails, TypeOK
  <2>2. CASE ClaimFails \/ Killed
    BY <1>2, <2>2 DEF ClaimFails, Killed, Asleep
  <2>3. CASE ConnectionLost
    <3>1. CASE ScansLost
      BY <1>2, <3>1, LoopEnds DEF ScansLost
    <3>2. CASE UNCHANGED <<poll, follower, told>>
      BY <1>1, <2>3, <3>2 DEF ConnectionLost
    <3>3. QED
      BY <2>3, <3>1, <3>2 DEF ConnectionLost
  <2>4. CASE \/ \E t \in Ticket : SayFails(t)
             \/ \E r \in Ticket \X Chat : SendFails(r)
    BY <1>1, <2>4 DEF SayFails, SendFails, stamps
  <2>5. QED
    BY <1>9, <2>1, <2>2, <2>3, <2>4 DEF Faults
<1>10. QED
  BY <1>3, <1>4, <1>6, <1>7, <1>8, <1>9 DEF Next

\* What is on its way to be called is ready and not stamped.
LEMMA BeatInvStep ==
  ASSUME TypeOK, BeatInv, Next
  PROVE  BeatInv'
<1> USE DEF BeatInv
<1>1. CASE UNCHANGED <<beat, called, shop>>
  BY <1>1
<1>2. CASE beat'.at \notin {"calling", "spoken"}
  BY <1>2
<1>3. ASSUME NEW t \in Ticket, ShopStep(t)
      PROVE  BeatInv'
  <2>1. UNCHANGED <<beat, called>>
    BY <1>3 DEF ShopStep, stamps
  <2>2. \A u \in Ticket : shop[u] \in {"READY", "CLOSED"} => shop'[u] \in {"READY", "CLOSED"}
    BY <1>3 DEF ShopStep, Life, TypeOK
  <2>3. beat.at \in {"calling", "spoken"} => beat.rows \subseteq Ticket
    BY BeatFields DEF TypeOK
  <2>4. QED
    BY <2>1, <2>2, <2>3
<1>4. CASE SelectReady
  <2>1. PICK rows \in UpTo(CallLimit, ToCall) : beat' = Calling(rows)
    BY <1>4 DEF SelectReady
  <2>2. \A t \in rows : ~called[t] /\ shop[t] \in {"READY", "CLOSED"}
    BY DEF UpTo, ToCall
  <2>3. QED
    BY <1>4, <2>1, <2>2, LoopEnds DEF SelectReady, stamps
<1>5. ASSUME NEW t \in Ticket, Say(t) \/ SayFails(t)
      PROVE  BeatInv'
  BY <1>5 DEF Say, SayFails, stamps
<1>6. CASE StampCalled
  <2>1. beat.rows \subseteq Ticket
    BY <1>6, BeatFields DEF StampCalled, TypeOK
  <2>2. \A t \in beat.rows \ {beat.now} : ~called'[t] /\ shop'[t] \in {"READY", "CLOSED"}
    BY <1>6, <2>1 DEF StampCalled, TypeOK
  <2>3. QED
    BY <1>6, <2>2, LoopEnds DEF StampCalled
<1>7. CASE SelectFollowed \/ StampTold
  BY <1>2, <1>7, LoopEnds DEF SelectFollowed, StampTold
<1>8. ASSUME NEW r \in Ticket \X Chat, Send(r) \/ SendFails(r)
      PROVE  BeatInv'
  BY <1>2, <1>8 DEF Send, SendFails
<1>9. CASE BeatStep
  BY <1>4, <1>5, <1>6, <1>7, <1>8, <1>9 DEF BeatStep
<1>10. CASE PollStep
  BY <1>1, <1>10 DEF PollStep, FetchLinks, Answer, Claim, FindTicket, Attach, StampAnswered, stamps
<1>11. CASE Faults
  <2>1. CASE AnswerFails \/ ClaimFails
    BY <1>1, <2>1 DEF AnswerFails, ClaimFails, stamps
  <2>2. CASE ConnectionLost
    BY <1>1, <1>2, <2>2 DEF ConnectionLost, BeatLost, Asleep
  <2>3. CASE Killed
    BY <1>2, <2>3 DEF Killed, Asleep
  <2>4. QED
    BY <1>5, <1>8, <1>11, <2>1, <2>2, <2>3 DEF Faults
<1>12. CASE NextDay \/ \E t \in Ticket, c \in Chat : Scan(t, c)
  BY <1>1, <1>12 DEF NextDay, Scan, stamps
<1>13. QED
  BY <1>3, <1>9, <1>10, <1>11, <1>12 DEF Next

\* A ticket called before its last fault is stamped, or about to be.
LEMMA CallsInvStep ==
  ASSUME TypeOK, BeatInv, CallsInv, Next
  PROVE  CallsInv'
<1> USE DEF CallsInv
<1>1. CASE UNCHANGED <<calls, called, beat, shop, faults>>
  BY <1>1
<1>2. ASSUME NEW t \in Ticket, ShopStep(t)
      PROVE  CallsInv'
  <2>1. UNCHANGED <<calls, called, beat, faults>>
    BY <1>2 DEF ShopStep, stamps, history
  <2>2. \A u \in Ticket : shop[u] \in {"READY", "CLOSED"} => shop'[u] \in {"READY", "CLOSED"}
    BY <1>2 DEF ShopStep, Life, TypeOK
  <2>3. QED
    BY <2>1, <2>2
<1>3. CASE beat.at # "spoken" /\ UNCHANGED <<calls, called, shop, faults>>
  BY <1>3
<1>4. CASE Fault /\ UNCHANGED <<calls, called, shop>>
  <2>1. faults \in Nat /\ faults' = faults + 1 /\ calls \in [Ticket -> Nat]
    BY <1>4, ConstantsOK DEF Fault, TypeOK
  <2>2. \A t \in Ticket : calls'[t] <= faults'
    BY <1>4, <2>1
  <2>3. \A t \in Ticket : calls'[t] <= 1 + faults' /\ ~(calls'[t] > faults')
    BY <1>4, <2>1, <2>2
  <2>4. QED
    BY <1>4, <2>3
<1>5. ASSUME NEW t \in Ticket, Say(t)
      PROVE  CallsInv'
  <2>1. /\ calls' = [calls EXCEPT ![t] = @ + 1]
        /\ beat' = [at |-> "spoken", rows |-> beat.rows, now |-> t]
        /\ UNCHANGED <<called, shop, faults>>
        /\ beat.at = "calling" /\ t \in beat.rows
    BY <1>5 DEF Say, stamps
  <2>2. ~called[t] /\ shop[t] \in {"READY", "CLOSED"}
    BY <2>1 DEF BeatInv
  <2>3. calls \in [Ticket -> Nat] /\ faults \in Nat
    BY ConstantsOK DEF TypeOK
  <2>4. calls[t] \in Nat /\ calls[t] <= faults
    BY <2>1, <2>2, <2>3
  <2>5. calls'[t] = calls[t] + 1 /\ \A u \in Ticket \ {t} : calls'[u] = calls[u]
    BY <2>1, <2>3
  <2>6. calls'[t] <= 1 + faults' /\ beat'.at = "spoken" /\ beat'.now = t /\ shop'[t] \in {"READY", "CLOSED"}
    BY <2>1, <2>2, <2>3, <2>4, <2>5
  <2>7. ASSUME NEW u \in Ticket \ {t}
        PROVE  /\ calls'[u] <= 1 + faults'
               /\ calls'[u] > faults' => called'[u]
               /\ calls'[u] > 0 => shop'[u] \in {"READY", "CLOSED"}
    BY <2>1, <2>5
  <2>8. QED
    BY <2>6, <2>7
<1>6. CASE StampCalled
  BY <1>6 DEF StampCalled, TypeOK, history
<1>7. CASE SelectReady \/ SelectFollowed \/ StampTold
  BY <1>3, <1>7 DEF SelectReady, SelectFollowed, StampTold, stamps, history
<1>8. ASSUME NEW r \in Ticket \X Chat, Send(r)
      PROVE  CallsInv'
  BY <1>3, <1>8 DEF Send, stamps
<1>9. CASE BeatStep
  BY <1>5, <1>6, <1>7, <1>8, <1>9 DEF BeatStep
<1>10. CASE PollStep
  BY <1>1, <1>10 DEF PollStep, FetchLinks, Answer, Claim, FindTicket, Attach, StampAnswered,
                     Return, stamps, history
<1>11. CASE Faults
  BY <1>4, <1>11 DEF Faults, AnswerFails, ClaimFails, ConnectionLost, Killed, SayFails, SendFails,
                     stamps, history
<1>12. CASE NextDay \/ \E t \in Ticket, c \in Chat : Scan(t, c)
  BY <1>1, <1>12 DEF NextDay, Scan, stamps, history
<1>13. QED
  BY <1>2, <1>9, <1>10, <1>11, <1>12 DEF Next

\* A scan enters the list of those to claim when linkChat returned, and no other
\* way (link).
LEMMA ClaimInvStep ==
  ASSUME TypeOK, ClaimInv, Next
  PROVE  ClaimInv'
<1> USE DEF ClaimInv
<1>1. CASE UNCHANGED <<links, applied>> /\ (poll'.at # "sleep" => poll'.done \subseteq applied)
  BY <1>1
<1>2. CASE UNCHANGED <<poll, links, applied>>
  BY <1>2
<1>3. ASSUME NEW i \in 1..Len(links), Return(i), poll.at # "sleep", UNCHANGED links
      PROVE  ClaimInv'
  <2>1. /\ applied' = applied \cup {i}
        /\ poll'.at # "sleep" => poll'.done = poll.done \cup {i}
    BY <1>3, LoopEnds DEF Return
  <2>2. QED
    BY <1>3, <2>1
<1>4. ASSUME NEW done, done \subseteq applied, links' = Claimed(done), poll'.at = "sleep",
             UNCHANGED applied
      PROVE  ClaimInv'
  <2>1. Len(links') = Len(links)
    BY <1>4, ClaimedType
  <2>2. ASSUME NEW i \in 1..Len(links), links'[i].claimed
        PROVE  links[i].claimed \/ i \in done
    BY <1>4, <2>2 DEF Claimed
  <2>3. QED
    BY <1>4, <2>1, <2>2
<1>5. ASSUME NEW t \in Ticket, NEW c \in Chat, Scan(t, c)
      PROVE  ClaimInv'
  <2> DEFINE l == [slip |-> t, chat |-> c, claimed |-> FALSE]
  <2>1. l \in Link /\ links' = Append(links, l) /\ UNCHANGED <<poll, applied>>
    BY <1>5 DEF Link, Scan, history
  <2>2. /\ Len(links') = Len(links) + 1 /\ Len(links) \in Nat
        /\ links'[Len(links) + 1] = l
        /\ \A i \in 1..Len(links) : links'[i] = links[i]
    BY <2>1, AppendProperties, LenProperties DEF TypeOK
  <2>3. ASSUME NEW i \in 1..Len(links'), links'[i].claimed
        PROVE  i \in 1..Len(links) /\ links[i].claimed
    BY <2>2, <2>3
  <2>4. QED
    BY <2>1, <2>3
<1>6. CASE FetchLinks
  BY <1>1, <1>6, LoopEnds DEF FetchLinks, history
<1>7. CASE Answer \/ AnswerFails
  <2>1. poll'.done = poll.done /\ poll.at = "answering"
    BY <1>7, PollFields DEF Answer, AnswerFails, TypeOK
  <2>2. QED
    BY <1>1, <1>7, <2>1 DEF Answer, AnswerFails, history
<1>8. CASE Claim \/ ClaimFails
  <2>1. poll.done \subseteq applied /\ poll'.at = "sleep" /\ UNCHANGED applied
    BY <1>8 DEF Claim, ClaimFails, Asleep, history
  <2>2. links' \in {links, Claimed(poll.done)}
    BY <1>8 DEF Claim, ClaimFails
  <2>3. QED
    BY <1>1, <1>4, <2>1, <2>2
<1>9. ASSUME NEW i \in 1..Len(links), FindTicket(i) \/ Attach(i) \/ StampAnswered(i)
      PROVE  ClaimInv'
  <2>1. CASE Return(i)
    BY <1>3, <1>9, <2>1 DEF FindTicket, Attach, StampAnswered
  <2>2. CASE ~Return(i)
    <3>1. poll.at \in {"linking", "found"} /\ UNCHANGED <<links, applied>>
      BY <1>9, <2>2 DEF FindTicket, Attach, StampAnswered
    <3>2. poll'.done = poll.done
      BY <1>9, <2>2, <3>1, PollFields DEF FindTicket, Attach, StampAnswered, TypeOK
    <3>3. QED
      BY <1>1, <3>1, <3>2
  <2>3. QED
    BY <2>1, <2>2
<1>10. CASE PollStep
  BY <1>6, <1>7, <1>8, <1>9, <1>10 DEF PollStep
<1>11. CASE Faults
  <2>1. CASE ConnectionLost
    <3>1. CASE ScansLost
      <4>1. PICK rest : poll' = Linking(rest, poll.done)
        BY <3>1 DEF ScansLost
      <4>2. poll.at # "sleep" /\ UNCHANGED <<links, applied>>
        BY <2>1, <3>1 DEF ConnectionLost, ScansLost, history
      <4>3. poll'.at # "sleep" => poll'.done = poll.done
        BY <4>1, LoopEnds
      <4>4. QED
        BY <1>1, <4>2, <4>3
    <3>2. CASE UNCHANGED poll
      BY <1>2, <2>1, <3>2 DEF ConnectionLost, history
    <3>3. QED
      BY <2>1, <3>1, <3>2 DEF ConnectionLost
  <2>2. CASE Killed
    BY <1>1, <2>2 DEF Killed, Asleep, history
  <2>3. CASE \/ \E t \in Ticket : SayFails(t)
             \/ \E r \in Ticket \X Chat : SendFails(r)
    BY <1>2, <2>3 DEF SayFails, SendFails, history
  <2>4. QED
    BY <1>7, <1>8, <1>11, <2>1, <2>2, <2>3 DEF Faults
<1>12. CASE BeatStep
  BY <1>2, <1>12 DEF BeatStep, SelectReady, StampCalled, SelectFollowed, StampTold, Say, Send, history
<1>13. CASE NextDay \/ \E t \in Ticket : ShopStep(t)
  BY <1>2, <1>13 DEF NextDay, ShopStep, history
<1>14. QED
  BY <1>5, <1>10, <1>11, <1>12, <1>13 DEF Next

LEMMA AnnouncerInvInit == Init => AnnouncerInv
BY ConstantsOK DEF Init, AnnouncerInv, ShopInv, FoundInv, BeatInv, CallsInv, ClaimInv, Asleep

LEMMA AnnouncerInvCorrect == Spec => [](TypeOK /\ AnnouncerInv)
<1>1. AnnouncerInv /\ UNCHANGED vars => AnnouncerInv'
  BY DEF AnnouncerInv, ShopInv, FoundInv, BeatInv, CallsInv, ClaimInv, Current, CodeIn,
         vars, stamps, history
<1>2. TypeOK /\ AnnouncerInv /\ [Next]_vars => TypeOK' /\ AnnouncerInv'
  BY <1>1, TypeStep, ShopInvStep, FoundInvStep, BeatInvStep, CallsInvStep, ClaimInvStep
     DEF AnnouncerInv
<1>3. QED
  BY <1>2, TypeInit, AnnouncerInvInit, PTL DEF Spec

-----------------------------------------------------------------------------
(* What the parts add up to.                                               *)

\* announce: a customer is called once, and once more at most for every time the
\* announcer was interrupted, and never before the goods are ready.
THEOREM CalledOnceAndWhenReady == Spec => []CalledOncePerFault
<1>1. AnnouncerInv => CalledOncePerFault
  BY DEF AnnouncerInv, CallsInv, CalledOncePerFault
<1>2. QED
  BY <1>1, AnnouncerInvCorrect, PTL

\* link: the server is never told to forget a scan that did not go through.
THEOREM ClaimedScansWereApplied == Spec => []ClaimedWasApplied
<1>1. AnnouncerInv => ClaimedWasApplied
  BY DEF AnnouncerInv, ClaimInv, ClaimedWasApplied
<1>2. QED
  BY <1>1, AnnouncerInvCorrect, PTL

\* linkChat: a ticket followed on one phone is never handed to another, although
\* the UPDATE goes by the date at its own time and does not look at the follower.
THEOREM FollowerNeverReplaced == Spec => FollowerKept
<1> DEFINE Kept == \A t \in Ticket : follower[t] # Nobody => follower'[t] = follower[t]
<1>1. ASSUME TypeOK, AnnouncerInv, Next
      PROVE  Kept
  <2>1. CASE UNCHANGED follower
    BY <2>1
  <2>2. ASSUME NEW i \in poll.batch, poll.at = "found", Current(i), follower' = Attached(i)
        PROVE  Kept
    <3>1. ASSUME NEW t \in Today(CodeIn(i))
          PROVE  follower[t] \in {Nobody, links[i].chat}
      <4>1. t \in Ticket /\ Day[t] = today /\ CodeOf[t] = CodeIn(i)
        BY DEF Today
      <4>2. Day[t] >= today
        BY <4>1, ConstantsOK DEF TypeOK
      <4>3. QED
        BY <1>1, <2>2, <4>1, <4>2 DEF AnnouncerInv, FoundInv
    <3>2. QED
      BY <2>2, <3>1 DEF Attached
  <2>3. UNCHANGED follower \/ \E i \in poll.batch :
          poll.at = "found" /\ Current(i) /\ follower' = Attached(i)
    <3>1. CASE PollStep
      BY <3>1 DEF PollStep, FetchLinks, Answer, Claim, FindTicket, Attach, StampAnswered, Current, stamps
    <3>2. CASE Faults
      BY <3>2 DEF Faults, AnswerFails, ClaimFails, ConnectionLost, Landed, Killed, SayFails,
                  SendFails, stamps
    <3>3. CASE BeatStep
      BY <3>3 DEF BeatStep, SelectReady, StampCalled, SelectFollowed, StampTold, Say, Send, stamps
    <3>4. QED
      BY <1>1, <3>1, <3>2, <3>3 DEF Next, NextDay, ShopStep, Scan, stamps
  <2>4. QED
    BY <2>1, <2>2, <2>3
<1>2. TypeOK /\ AnnouncerInv /\ [Next]_vars => [Kept]_vars
  BY <1>1
<1>3. QED
  BY <1>2, AnnouncerInvCorrect, PTL DEF Spec, FollowerKept
=============================================================================
