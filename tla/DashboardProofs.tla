-------------------------- MODULE DashboardProofs --------------------------
(***************************************************************************)
(* Proofs about the web dashboard, for every number of presses, pushes,     *)
(* questions, entries, sales, uploads and faults.                          *)
(***************************************************************************)
EXTENDS MCDashboard, FiniteSetTheorems, SequenceTheorems, TLAPS

-----------------------------------------------------------------------------
(* Forms.                                                                  *)

LEMMA FormFacts ==
  ASSUME NEW p \in DOMAIN FormOf
  PROVE  /\ FormOf[p].needs # {}
         /\ FormOf[p].needs \cap FormOf[p].clears # {}
  BY DEF FormOf, AdjustTab, GrnTab, GrnPaymentsTab, PosSale, AddPerson, AddPhoto

\* The requests of one entry that wait for the server are finitely many.
LEMMA TriesFinite ==
  ASSUME PagesTypeOK, NEW e \in Entry
  PROVE  IsFiniteSet(SentTries(e)) /\ Cardinality(SentTries(e)) \in Nat
<1>1. SentTries(e) \subseteq 1..MaxSend
  BY DEF PagesTypeOK, SentTries
<1>2. IsFiniteSet(1..MaxSend)
  BY WebPagesConstantsOK, FS_Interval
<1>3. IsFiniteSet(SentTries(e))
  BY <1>1, <1>2, FS_Subset
<1>4. QED
  BY <1>3, FS_CardinalityType

FormTypes ==
  /\ entries \in Nat /\ entry \in Nat /\ busy \in BOOLEAN
  /\ sends \in [Entry -> Nat] /\ recorded \in [Entry -> Nat] /\ broken \in [Entry -> Nat]
  /\ \A q \in posts : q \in [entry : Entry, try : Nat, at : {"sent", "done"}, here : BOOLEAN]

LEMMA FormTypesHold ==
  ASSUME PagesTypeOK
  PROVE  FormTypes
  BY WebPagesConstantsOK DEF PagesTypeOK, FormTypes, Entry

FormInv == EntryInv /\ PostInv /\ BlankInv

LEMMA OpenForms ==
  ASSUME PagesTypeOK, FormInv, NEW p \in Part, Open(p)
  PROVE  FormInv'
<1>0. FormTypes
  BY FormTypesHold
<1>a. \A r \in posts : LET q == [r EXCEPT !.here = FALSE]
                        IN q.entry = r.entry /\ q.try = r.try /\ q.at = r.at /\ ~q.here
  BY <1>0 DEF FormTypes
<1>b. posts' = {[q EXCEPT !.here = FALSE] : q \in {q \in posts : q.at = "sent"}}
  BY DEF Open
<1>c. \A q \in posts' : /\ ~q.here /\ q.at = "sent"
                        /\ \E r \in posts : /\ r.at = "sent" /\ q.entry = r.entry /\ q.try = r.try
                                            /\ q = [r EXCEPT !.here = FALSE]
  BY <1>a, <1>b
<1>d. \A r \in posts : r.at = "sent" =>
        \E q \in posts' : q.at = "sent" /\ q.entry = r.entry /\ q.try = r.try
  BY <1>a, <1>b
<1>1. \A e \in Entry : SentTries(e)' = SentTries(e)
  <2> SUFFICES ASSUME NEW e \in Entry
               PROVE  SentTries(e)' = SentTries(e)
    OBVIOUS
  <2>1. ASSUME NEW x \in SentTries(e)'
        PROVE  x \in SentTries(e)
    <3>1. PICK q \in posts' : q.entry = e /\ q.at = "sent" /\ x = q.try
      BY <2>1 DEF SentTries
    <3>2. PICK r \in posts : r.at = "sent" /\ q.entry = r.entry /\ q.try = r.try
      BY <1>c
    <3>3. QED
      BY <3>1, <3>2 DEF SentTries
  <2>2. ASSUME NEW x \in SentTries(e)
        PROVE  x \in SentTries(e)'
    <3>1. PICK r \in posts : r.entry = e /\ r.at = "sent" /\ x = r.try
      BY <2>2 DEF SentTries
    <3>2. PICK q \in posts' : q.at = "sent" /\ q.entry = r.entry /\ q.try = r.try
      BY <3>1, <1>d
    <3>3. QED
      BY <3>1, <3>2 DEF SentTries
  <2>3. QED
    BY <2>1, <2>2
<1>2. EntryInv'
  <2> SUFFICES ASSUME NEW e \in Entry
               PROVE  /\ Counted(e)' <= 1 + broken'[e] /\ Counted(e)' <= sends'[e]
                      /\ e # entry'
                      /\ e > entries' => sends'[e] = 0
    BY DEF EntryInv, Entry
  <2>1. Counted(e)' = Counted(e)
    BY <1>1 DEF Counted, Open
  <2>2. entry' = 0 /\ UNCHANGED <<entries, sends, broken>>
    BY DEF Open, Blank
  <2>3. QED
    BY <2>1, <2>2 DEF FormInv, EntryInv, Entry
<1>3. PostInv'
  <2>1. sends' = sends
    BY DEF Open
  <2>2. \A r, t \in posts : r.entry = t.entry /\ r.try = t.try => r = t
    BY DEF FormInv, PostInv
  <2>3. \A q, u \in posts' : q.entry = u.entry /\ q.try = u.try => q = u
    <3> SUFFICES ASSUME NEW q \in posts', NEW u \in posts', q.entry = u.entry, q.try = u.try
                 PROVE  q = u
      OBVIOUS
    <3>1. PICK r \in posts : q.entry = r.entry /\ q.try = r.try /\ q = [r EXCEPT !.here = FALSE]
      BY <1>c
    <3>2. PICK t \in posts : u.entry = t.entry /\ u.try = t.try /\ u = [t EXCEPT !.here = FALSE]
      BY <1>c
    <3>3. r = t
      BY <3>1, <3>2, <2>2
    <3>4. QED
      BY <3>1, <3>2, <3>3
  <2>4. \A q \in posts' : q.try <= sends[q.entry]
    BY <1>c DEF FormInv, PostInv
  <2>5. \A q \in posts' : q.at # "done" /\ ~q.here
    BY <1>c
  <2>6. QED
    BY <2>1, <2>3, <2>4, <2>5 DEF PostInv
<1>4. BlankInv'
  <2>1. filled' = {} /\ on' = p
    BY DEF Open
  <2>2. QED
    BY <2>1, FormFacts DEF BlankInv, IsForm
<1>5. QED
  BY <1>2, <1>3, <1>4 DEF FormInv

LEMMA FillForms ==
  ASSUME PagesTypeOK, FormInv, NEW f, Fill(f)
  PROVE  FormInv'
<1>0. FormTypes
  BY FormTypesHold
<1>1. \A e \in Entry : Counted(e)' = Counted(e)
  BY DEF Fill, SentTries, Counted
<1>2. UNCHANGED <<on, sends, busy, posts, recorded, broken>> /\ IsForm
  BY DEF Fill
<1>3. (entry = 0 /\ entries < MaxEntry /\ entries' = entries + 1 /\ entry' = entries + 1)
      \/ (entry # 0 /\ entries' = entries /\ entry' = entry)
  BY DEF Fill, Blank
<1>4. EntryInv'
  <2> SUFFICES ASSUME NEW e \in Entry
               PROVE  /\ Counted(e)' <= 1 + broken'[e] /\ Counted(e)' <= sends'[e]
                      /\ (e = entry' /\ ~busy') => Counted(e)' <= broken'[e]
                      /\ e > entries' => sends'[e] = 0
    BY DEF EntryInv
  <2>1. /\ Counted(e) <= 1 + broken[e] /\ Counted(e) <= sends[e]
        /\ (e = entry /\ ~busy) => Counted(e) <= broken[e]
        /\ e > entries => sends[e] = 0
    BY DEF FormInv, EntryInv
  <2>2. Counted(e)' = Counted(e)
    BY <1>1
  <2>3. e \in Nat /\ entries \in Nat /\ sends[e] \in Nat /\ broken[e] \in Nat
    BY <1>0 DEF Entry, FormTypes
  <2>4. Counted(e) \in Nat
    <3>1. recorded[e] \in Nat
      BY <1>0 DEF FormTypes
    <3>2. QED
      BY <3>1, TriesFinite DEF Counted
  <2>5. CASE entry = 0 /\ entries' = entries + 1 /\ entry' = entries + 1
    BY <2>1, <2>2, <2>3, <2>4, <2>5, <1>2
  <2>6. CASE entry # 0 /\ entries' = entries /\ entry' = entry
    BY <2>1, <2>2, <2>6, <1>2
  <2>7. QED
    BY <2>5, <2>6, <1>3
<1>5. PostInv'
  <2>1. \A q \in posts : q.here => entry # 0
    BY <1>0 DEF FormInv, PostInv, FormTypes, Entry
  <2>2. \A q \in posts : q.here => entry' = entry
    BY <2>1, <1>3
  <2>3. IsForm'
    BY <1>2 DEF IsForm
  <2>4. QED
    BY <2>2, <2>3, <1>2 DEF FormInv, PostInv
<1>6. BlankInv'
  <2>1. entry' # 0
    BY <1>3, <1>0 DEF FormTypes
  <2>2. QED
    BY <2>1 DEF BlankInv, Blank
<1>7. QED
  BY <1>4, <1>5, <1>6 DEF FormInv

LEMMA SubmitForms ==
  ASSUME PagesTypeOK, FormInv, Submit
  PROVE  FormInv' /\ entry \in Entry
<1> DEFINE n == [entry |-> entry, try |-> sends[entry] + 1, at |-> "sent", here |-> TRUE]
<1>0. FormTypes
  BY FormTypesHold
<1>1. entry \in Entry
  <2>1. entry # 0
    BY DEF Submit, FormInv, BlankInv, Blank
  <2>2. QED
    BY <2>1, WebPagesConstantsOK DEF PagesTypeOK, Entry
<1>2. sends' = [sends EXCEPT ![entry] = @ + 1] /\ sends'[entry] = sends[entry] + 1
  BY <1>0, <1>1 DEF Submit, FormTypes
<1>3. posts' = posts \cup {n}
  BY <1>2 DEF Submit
<1>4. UNCHANGED <<on, filled, entry, entries, recorded, broken>> /\ ~busy /\ busy' = TRUE /\ IsForm
  BY <1>0 DEF Submit, FormTypes
<1>5. n.entry = entry /\ n.try = sends[entry] + 1 /\ n.at = "sent" /\ n.here
  OBVIOUS
<1> HIDE DEF n
<1>6. \A q \in posts : q.entry \in Entry /\ q.try \in Nat /\ q.try <= sends[q.entry] /\ ~q.here
  BY <1>0, <1>4 DEF FormTypes, FormInv, PostInv
<1>7. sends[entry] \in Nat
  BY <1>0, <1>1 DEF FormTypes
<1>8. EntryInv'
  <2> SUFFICES ASSUME NEW e \in Entry
               PROVE  /\ Counted(e)' <= 1 + broken'[e] /\ Counted(e)' <= sends'[e]
                      /\ e > entries' => sends'[e] = 0
    BY <1>4 DEF EntryInv
  <2>1. /\ Counted(e) <= 1 + broken[e] /\ Counted(e) <= sends[e]
        /\ (e = entry /\ ~busy) => Counted(e) <= broken[e]
        /\ e > entries => sends[e] = 0
    BY DEF FormInv, EntryInv
  <2>2. IsFiniteSet(SentTries(e)) /\ Cardinality(SentTries(e)) \in Nat
    BY TriesFinite
  <2>3. recorded[e] \in Nat /\ broken[e] \in Nat /\ sends[e] \in Nat
    BY <1>0 DEF FormTypes
  <2>4. CASE e = entry
    <3>1. SentTries(e)' = SentTries(e) \cup {sends[entry] + 1}
      BY <1>3, <1>5, <2>4 DEF SentTries
    <3>2. sends[entry] + 1 \notin SentTries(e)
      BY <1>6, <1>7, <2>4 DEF SentTries
    <3>3. Cardinality(SentTries(e)') = Cardinality(SentTries(e)) + 1
      BY <3>1, <3>2, <2>2, FS_AddElement
    <3>4. Counted(e)' = Counted(e) + 1
      BY <3>3, <2>2, <2>3, <1>4 DEF Counted
    <3>5. Counted(e) \in Nat
      BY <2>2, <2>3 DEF Counted
    <3>6. ~(e > entries)
      BY <2>4 DEF PagesTypeOK, Entry
    <3>7. QED
      BY <3>4, <3>5, <3>6, <2>1, <2>3, <2>4, <1>2, <1>4
  <2>5. CASE e # entry
    <3>1. SentTries(e)' = SentTries(e)
      BY <1>3, <1>5, <2>5 DEF SentTries
    <3>2. Counted(e)' = Counted(e) /\ sends'[e] = sends[e]
      BY <3>1, <1>2, <1>4, <2>5, <1>0 DEF Counted, FormTypes
    <3>3. QED
      BY <3>2, <2>1, <1>4
  <2>6. QED
    BY <2>4, <2>5
<1>9. PostInv'
  <2>1. \A q \in posts' : q.try <= sends'[q.entry]
    <3> SUFFICES ASSUME NEW q \in posts'
                 PROVE  q.try <= sends'[q.entry]
      OBVIOUS
    <3>1. CASE q = n
      BY <3>1, <1>5, <1>2, <1>7
    <3>2. CASE q \in posts
      <4>1. sends[q.entry] \in Nat /\ sends'[q.entry] \in {sends[q.entry], sends[q.entry] + 1}
        BY <1>0, <1>2, <1>6, <3>2 DEF FormTypes
      <4>2. QED
        BY <4>1, <1>6, <3>2
    <3>3. QED
      BY <3>1, <3>2, <1>3
  <2>2. \A q \in posts' : q.here => busy' /\ IsForm' /\ q.entry = entry'
    BY <1>3, <1>4, <1>5, <1>6 DEF IsForm
  <2>3. \A q \in posts' : q.at = "done" => q.here
    BY <1>3, <1>5 DEF FormInv, PostInv
  <2>4. \A q \in posts : ~(q.entry = n.entry /\ q.try = n.try)
    BY <1>5, <1>6, <1>7
  <2>5. \A q, r \in posts' : (q.entry = r.entry /\ q.try = r.try) \/ (q.here /\ r.here) => q = r
    BY <2>4, <1>3, <1>6 DEF FormInv, PostInv
  <2>6. QED
    BY <2>1, <2>2, <2>3, <2>5 DEF PostInv
<1>10. BlankInv'
  BY <1>1, <1>4 DEF BlankInv, Blank, Entry
<1>11. QED
  BY <1>1, <1>8, <1>9, <1>10 DEF FormInv

\* The request served or refused is one try less at the server.
LEMMA OneTryLess ==
  ASSUME PagesTypeOK, PostInv, NEW q \in posts, q.at = "sent",
         NEW D, posts' = (posts \ {q}) \cup D, \A d \in D : d.at = "done"
  PROVE  /\ Cardinality(SentTries(q.entry)') = Cardinality(SentTries(q.entry)) - 1
         /\ \A e \in Entry : e # q.entry => SentTries(e)' = SentTries(e)
<1>0. q.entry \in Entry
  BY FormTypesHold DEF FormTypes
<1>1. q.try \in SentTries(q.entry)
  BY DEF SentTries
<1>2. \A r \in posts : r.entry = q.entry /\ r.try = q.try => r = q
  BY DEF PostInv
<1>3. SentTries(q.entry)' = SentTries(q.entry) \ {q.try}
  <2>1. ASSUME NEW x \in SentTries(q.entry) \ {q.try}
        PROVE  x \in SentTries(q.entry)'
    BY <2>1 DEF SentTries
  <2>2. ASSUME NEW x \in SentTries(q.entry)'
        PROVE  x \in SentTries(q.entry) \ {q.try}
    <3>1. PICK r \in posts' : r.entry = q.entry /\ r.at = "sent" /\ x = r.try
      BY <2>2 DEF SentTries
    <3>2. r \in posts /\ r # q
      BY <3>1
    <3>3. QED
      BY <3>1, <3>2, <1>2 DEF SentTries
  <2>3. QED
    BY <2>1, <2>2
<1>4. Cardinality(SentTries(q.entry) \ {q.try}) = Cardinality(SentTries(q.entry)) - 1
  BY <1>0, <1>1, TriesFinite, FS_RemoveElement
<1>5. \A e \in Entry : e # q.entry => SentTries(e)' = SentTries(e)
  BY DEF SentTries
<1>6. QED
  BY <1>3, <1>4, <1>5

\* What the entries' part of the invariant says of one of them.
LEMMA EntryFacts ==
  ASSUME PagesTypeOK, FormInv, NEW e \in Entry
  PROVE  /\ Counted(e) <= 1 + broken[e] /\ Counted(e) <= sends[e]
         /\ e = entry /\ ~busy => Counted(e) <= broken[e]
         /\ e > entries => sends[e] = 0
         /\ Counted(e) = recorded[e] + Cardinality(SentTries(e))
         /\ {Counted(e), recorded[e], broken[e], sends[e], Cardinality(SentTries(e))} \subseteq Nat
<1>1. {recorded[e], broken[e], sends[e], Cardinality(SentTries(e))} \subseteq Nat
  BY FormTypesHold, TriesFinite DEF FormTypes
<1>2. QED
  BY <1>1 DEF FormInv, EntryInv, Counted

\* A request that is gone, and what takes its place, keep what is said of requests.
LEMMA FewerPosts ==
  ASSUME PostInv, NEW q \in posts, NEW D, posts' = (posts \ {q}) \cup D,
         \A d, c \in D : d = c,
         \A d \in D : /\ d.entry = q.entry /\ d.try = q.try
                      /\ d.here => q.here
                      /\ d.at = "done" => d.here,
         UNCHANGED <<sends, on>>,
         UNCHANGED <<entry, busy>> \/ \A r \in posts' : ~r.here
  PROVE  PostInv'
<1>1. \A r \in posts' : r.try <= sends'[r.entry]
  BY DEF PostInv
<1>2. \A r \in posts' : r.here => busy' /\ IsForm' /\ r.entry = entry'
  BY DEF PostInv, IsForm
<1>3. \A r \in posts' : r.at = "done" => r.here
  BY DEF PostInv
<1>4. \A r, t \in posts' : (r.entry = t.entry /\ r.try = t.try) \/ (r.here /\ t.here) => r = t
  BY DEF PostInv
<1>5. QED
  BY <1>1, <1>2, <1>3, <1>4 DEF PostInv

LEMMA RecordForms ==
  ASSUME PagesTypeOK, FormInv, NEW q \in posts, Record(q)
  PROVE  FormInv' /\ recorded[q.entry] + 1 <= sends[q.entry]
<1> DEFINE D == IF q.here THEN {[q EXCEPT !.at = "done"]} ELSE {}
<1>0. FormTypes
  BY FormTypesHold
<1>1. q.entry \in Entry /\ q.at = "sent"
  BY <1>0 DEF FormTypes, Record
<1>2. posts' = (posts \ {q}) \cup D
  BY DEF Record
<1>3. \A d \in D : d.entry = q.entry /\ d.try = q.try /\ d.at = "done" /\ d.here /\ q.here
  BY <1>0 DEF FormTypes
<1>4. \A d, c \in D : d = c
  OBVIOUS
<1> HIDE DEF D
<1>5. UNCHANGED <<on, filled, entry, entries, sends, busy, broken>>
  BY DEF Record
<1>6. recorded' = [recorded EXCEPT ![q.entry] = @ + 1]
  BY DEF Record
<1>7. /\ Cardinality(SentTries(q.entry)') = Cardinality(SentTries(q.entry)) - 1
      /\ \A e \in Entry : e # q.entry => SentTries(e)' = SentTries(e)
  BY <1>1, <1>2, <1>3, OneTryLess DEF FormInv
<1>8. \A e \in Entry : Counted(e)' = Counted(e)
  <2> SUFFICES ASSUME NEW e \in Entry
               PROVE  Counted(e)' = Counted(e)
    OBVIOUS
  <2>1. recorded[e] \in Nat /\ Cardinality(SentTries(e)) \in Nat
    BY EntryFacts
  <2>2. recorded'[e] = IF e = q.entry THEN recorded[e] + 1 ELSE recorded[e]
    BY <1>0, <1>6 DEF FormTypes
  <2>3. QED
    BY <1>7, <2>1, <2>2 DEF Counted
<1>9. EntryInv'
  BY <1>5, <1>8 DEF FormInv, EntryInv
<1>10. PostInv'
  <2>1. q.here => busy
    BY DEF FormInv, PostInv
  <2>2. QED
    BY <1>2, <1>3, <1>4, <1>5, <2>1, FewerPosts DEF FormInv
<1>11. BlankInv'
  BY <1>5 DEF FormInv, BlankInv, IsForm
<1>12. recorded[q.entry] + 1 <= sends[q.entry]
  <2>1. SentTries(q.entry) # {}
    BY <1>1 DEF SentTries
  <2>2. Cardinality(SentTries(q.entry)) # 0
    BY <1>1, <2>1, TriesFinite, FS_EmptySet
  <2>3. QED
    BY <1>1, <2>2, EntryFacts
<1>13. QED
  BY <1>9, <1>10, <1>11, <1>12 DEF FormInv

LEMMA AcceptedForms ==
  ASSUME PagesTypeOK, FormInv, NEW q \in posts, Accepted(q)
  PROVE  FormInv'
<1> DEFINE D == {}
<1>0. FormTypes
  BY FormTypesHold
<1>1. q.at = "done" /\ D = {} /\ posts' = (posts \ {q}) \cup D
  BY DEF Accepted
<1> HIDE DEF D
<1>2. q.here /\ IsForm /\ \A r \in posts : r.here => r = q
  BY <1>1 DEF FormInv, PostInv
<1>3. UNCHANGED <<on, entries, sends, recorded, broken>> /\ entry' = 0 /\ busy' = FALSE
  BY DEF Accepted, Blank
<1>4. \A e \in Entry : Counted(e)' = Counted(e)
  BY <1>1, <1>3 DEF Counted, SentTries
<1>5. EntryInv'
  BY <1>3, <1>4 DEF FormInv, EntryInv, Entry
<1>6. PostInv'
  <2>1. \A r \in posts' : ~r.here
    BY <1>1, <1>2
  <2>2. QED
    BY <1>1, <1>2, <1>3, <2>1, FewerPosts DEF FormInv
<1>7. BlankInv'
  <2>1. filled' = filled \ FormOf[on].clears
    BY DEF Accepted
  <2>2. FormOf[on].needs \cap FormOf[on].clears # {}
    BY <1>2, FormFacts DEF IsForm
  <2>3. QED
    BY <1>3, <2>1, <2>2 DEF BlankInv
<1>8. QED
  BY <1>5, <1>6, <1>7 DEF FormInv

LEMMA RefusedForms ==
  ASSUME PagesTypeOK, FormInv, NEW q \in posts, Refused(q)
  PROVE  FormInv'
<1> DEFINE D == {}
<1>0. FormTypes
  BY FormTypesHold
<1>1. q.entry \in Entry /\ q.at = "sent" /\ q.here /\ D = {} /\ posts' = (posts \ {q}) \cup D
  BY <1>0 DEF FormTypes, Refused
<1> HIDE DEF D
<1>2. q.entry = entry /\ IsForm /\ \A r \in posts : r.here => r = q
  BY <1>1 DEF FormInv, PostInv
<1>3. UNCHANGED <<on, entry, entries, sends, recorded, broken>> /\ busy' = FALSE
  BY DEF Refused
<1>4. /\ Cardinality(SentTries(q.entry)') = Cardinality(SentTries(q.entry)) - 1
      /\ \A e \in Entry : e # q.entry => SentTries(e)' = SentTries(e)
  BY <1>1, OneTryLess DEF FormInv
<1>5. EntryInv'
  <2> SUFFICES ASSUME NEW e \in Entry
               PROVE  /\ Counted(e)' <= 1 + broken'[e] /\ Counted(e)' <= sends'[e]
                      /\ e = entry' => Counted(e)' <= broken'[e]
                      /\ e > entries' => sends'[e] = 0
    BY <1>3 DEF EntryInv
  <2>1. /\ Counted(e) <= 1 + broken[e] /\ Counted(e) <= sends[e]
        /\ e > entries => sends[e] = 0
        /\ Counted(e) = recorded[e] + Cardinality(SentTries(e))
        /\ {Counted(e), recorded[e], broken[e], sends[e], Cardinality(SentTries(e))} \subseteq Nat
    BY EntryFacts
  <2>2. CASE e = entry
    <3>1. Counted(e)' = Counted(e) - 1
      BY <1>2, <1>3, <1>4, <2>1, <2>2 DEF Counted
    <3>2. QED
      BY <3>1, <2>1, <1>3
  <2>3. CASE e # entry
    <3>1. Counted(e)' = Counted(e)
      BY <1>2, <1>3, <1>4, <2>3 DEF Counted
    <3>2. QED
      BY <3>1, <2>1, <2>3, <1>3
  <2>4. QED
    BY <2>2, <2>3
<1>6. PostInv'
  <2>1. \A r \in posts' : ~r.here
    BY <1>1, <1>2
  <2>2. QED
    BY <1>1, <1>2, <1>3, <2>1, FewerPosts DEF FormInv
<1>7. BlankInv'
  <2>1. filled' \in {{}, filled}
    BY DEF Refused
  <2>2. FormOf[on].needs # {}
    BY <1>2, FormFacts DEF IsForm
  <2>3. QED
    BY <1>3, <2>1, <2>2 DEF FormInv, BlankInv, IsForm
<1>8. QED
  BY <1>5, <1>6, <1>7 DEF FormInv

LEMMA BreakForms ==
  ASSUME PagesTypeOK, FormInv, NEW q \in posts, ConnectionBreaks(q)
  PROVE  FormInv'
<1> DEFINE D == IF q.at = "sent" THEN {[q EXCEPT !.here = FALSE]} ELSE {}
<1>0. FormTypes
  BY FormTypesHold
<1>1. q.entry \in Entry /\ q.here /\ posts' = (posts \ {q}) \cup D
  BY <1>0 DEF FormTypes, ConnectionBreaks
<1>2. \A d \in D : d.entry = q.entry /\ d.try = q.try /\ d.at = "sent" /\ ~d.here /\ q.at = "sent"
  BY <1>0 DEF FormTypes
<1>3. \A d, c \in D : d = c
  OBVIOUS
<1>4. q.at = "sent" => \E d \in D : d.entry = q.entry /\ d.try = q.try /\ d.at = "sent"
  BY <1>0 DEF FormTypes
<1> HIDE DEF D
<1>5. q.entry = entry /\ IsForm /\ \A r \in posts : r.here => r = q
  BY <1>1 DEF FormInv, PostInv
<1>6. UNCHANGED <<on, entry, entries, sends, recorded>> /\ busy' = FALSE
  BY DEF ConnectionBreaks
<1>7. \A e \in Entry : SentTries(e)' = SentTries(e)
  <2> SUFFICES ASSUME NEW e \in Entry
               PROVE  SentTries(e)' = SentTries(e)
    OBVIOUS
  <2>1. ASSUME NEW x \in SentTries(e)'
        PROVE  x \in SentTries(e)
    BY <2>1, <1>1, <1>2 DEF SentTries
  <2>2. ASSUME NEW x \in SentTries(e)
        PROVE  x \in SentTries(e)'
    <3>1. PICK r \in posts : r.entry = e /\ r.at = "sent" /\ x = r.try
      BY <2>2 DEF SentTries
    <3>2. PICK t \in posts' : t.entry = e /\ t.at = "sent" /\ x = t.try
      BY <3>1, <1>1, <1>4
    <3>3. QED
      BY <3>2 DEF SentTries
  <2>3. QED
    BY <2>1, <2>2
<1>8. EntryInv'
  <2> SUFFICES ASSUME NEW e \in Entry
               PROVE  /\ Counted(e)' <= 1 + broken'[e] /\ Counted(e)' <= sends'[e]
                      /\ e = entry' => Counted(e)' <= broken'[e]
                      /\ e > entries' => sends'[e] = 0
    BY <1>6 DEF EntryInv
  <2>1. /\ Counted(e) <= 1 + broken[e] /\ Counted(e) <= sends[e]
        /\ e > entries => sends[e] = 0
        /\ {Counted(e), broken[e]} \subseteq Nat
    BY EntryFacts
  <2>2. broken'[e] = IF e = entry THEN broken[e] + 1 ELSE broken[e]
    BY <1>0, <1>5 DEF FormTypes, ConnectionBreaks
  <2>3. Counted(e)' = Counted(e)
    BY <1>6, <1>7 DEF Counted
  <2>4. QED
    BY <1>6, <2>1, <2>2, <2>3
<1>9. PostInv'
  <2>1. \A r \in posts' : ~r.here
    BY <1>1, <1>2, <1>5
  <2>2. QED
    BY <1>1, <1>2, <1>3, <1>5, <1>6, <2>1, FewerPosts DEF FormInv
<1>10. BlankInv'
  <2>1. filled' \in {{}, filled}
    BY DEF ConnectionBreaks
  <2>2. FormOf[on].needs # {}
    BY <1>5, FormFacts DEF IsForm
  <2>3. QED
    BY <1>6, <2>1, <2>2 DEF FormInv, BlankInv, IsForm
<1>11. QED
  BY <1>8, <1>9, <1>10 DEF FormInv

-----------------------------------------------------------------------------
(* Lists.                                                                  *)

ListTypes ==
  /\ on \in Part /\ opened \in 1..MaxOpen
  /\ latest \in 0..MaxQuestion /\ shown \in 0..latest
  /\ air \subseteq 1..latest /\ answers \subseteq (1..latest) \X {"rows", "error"}
  /\ {loading, waiting, overlapped, refused} \subseteq BOOLEAN

ListsInv == ListTypes /\ AirInv /\ ListInv

LEMMA ListTypesHold ==
  ASSUME PagesTypeOK
  PROVE  ListTypes
  BY DEF PagesTypeOK, ListTypes

LEMMA OpenLists ==
  ASSUME ListsInv, NEW p \in Part, Open(p)
  PROVE  ListsInv'
<1>1. (Asks(p) /\ latest' = 1 /\ loading' = TRUE) \/ (~Asks(p) /\ latest' = 0 /\ loading' = FALSE)
  BY DEF Open, Asks
<1>2. air' = 1..latest' /\ answers' = {} /\ shown' = 0 /\ overlapped' = FALSE /\ refused' = FALSE
  BY DEF Open, Blank
<1>3. on' \in Part /\ opened' \in 1..MaxOpen /\ waiting' \in BOOLEAN
  BY WebPagesConstantsOK DEF Open, ListsInv, ListTypes
<1>4. ListTypes'
  <2>1. latest' \in 0..MaxQuestion /\ shown' \in 0..latest'
    BY <1>1, <1>2, WebPagesConstantsOK
  <2>2. {loading', waiting', overlapped', refused'} \subseteq BOOLEAN
    BY <1>1, <1>2, <1>3
  <2>3. air' \subseteq 1..latest' /\ answers' \subseteq (1..latest') \X {"rows", "error"}
    BY <1>2
  <2>4. QED
    BY <1>3, <2>1, <2>2, <2>3 DEF ListTypes
<1>5. AirInv'
  BY <1>2 DEF AirInv
<1>6. Unanswered' = 1..latest'
  BY <1>2 DEF Unanswered
<1>7. ListInv'
  <2>1. CASE latest' = 1 /\ loading' = TRUE
    BY <1>6, <2>1 DEF ListInv
  <2>2. CASE latest' = 0
    BY <1>2, <1>6, <2>2 DEF ListInv
  <2>3. QED
    BY <1>1, <2>1, <2>2
<1>8. QED
  BY <1>4, <1>5, <1>7 DEF ListsInv

LEMMA OpenQuestions ==
  ASSUME ListTypes
  PROVE  Unanswered \subseteq 1..latest
  BY DEF ListTypes, Unanswered

LEMMA AskLists ==
  ASSUME ListsInv, Ask, UNCHANGED <<on, opened, shown, answers>>, waiting' \in BOOLEAN
  PROVE  ListsInv'
<1>1. latest \in Nat /\ latest < MaxQuestion /\ latest' = latest + 1 /\ air' = air \cup {latest + 1}
  BY DEF Ask, ListsInv, ListTypes
<1>2. ListTypes'
  <2>1. latest' \in 0..MaxQuestion /\ shown' \in 0..latest'
    BY <1>1, WebPagesConstantsOK DEF ListsInv, ListTypes
  <2>2. {loading', waiting', overlapped', refused'} \subseteq BOOLEAN
    BY DEF Ask
  <2>3. 1..latest \subseteq 1..latest'
    BY <1>1
  <2>4. air' \subseteq 1..latest'
    BY <1>1, <2>3 DEF ListsInv, ListTypes
  <2>5. answers' \subseteq (1..latest') \X {"rows", "error"}
    BY <2>3 DEF ListsInv, ListTypes
  <2>6. QED
    BY <2>1, <2>2, <2>4, <2>5 DEF ListsInv, ListTypes
<1>3. AirInv'
  BY <1>1 DEF ListsInv, ListTypes, AirInv
<1>4. Unanswered' = Unanswered \cup {latest'}
  BY <1>1 DEF Unanswered
<1>5. ListInv'
  BY <1>4 DEF ListInv, Ask
<1>6. QED
  BY <1>2, <1>3, <1>5 DEF ListsInv

LEMMA OwnRowsLists ==
  ASSUME ListsInv, OwnRows, waiting' \in BOOLEAN
  PROVE  ListsInv'
<1>1. latest \in Nat /\ latest < MaxQuestion /\ latest' = latest + 1 /\ shown' = latest + 1
  BY DEF OwnRows, ListsInv, ListTypes
<1>2. ListTypes'
  <2>1. latest' \in 0..MaxQuestion /\ shown' \in 0..latest'
    BY <1>1, WebPagesConstantsOK
  <2>2. {loading', waiting', overlapped', refused'} \subseteq BOOLEAN
    BY DEF OwnRows, ListsInv, ListTypes
  <2>3. 1..latest \subseteq 1..latest'
    BY <1>1
  <2>4. air' \subseteq 1..latest' /\ answers' \subseteq (1..latest') \X {"rows", "error"}
    BY <2>3 DEF OwnRows, ListsInv, ListTypes
  <2>5. on' \in Part /\ opened' \in 1..MaxOpen
    BY DEF OwnRows, ListsInv, ListTypes
  <2>6. QED
    BY <2>1, <2>2, <2>4, <2>5 DEF ListTypes
<1>3. AirInv' /\ Unanswered' = Unanswered
  BY DEF ListsInv, AirInv, OwnRows, Unanswered
<1>4. ListInv'
  BY <1>1, <1>3 DEF ListInv, OwnRows
<1>5. QED
  BY <1>2, <1>3, <1>4 DEF ListsInv

LEMMA ServeLists ==
  ASSUME ListsInv, NEW q, ServeList(q)
  PROVE  ListsInv'
<1>1. PICK what \in {"rows", "error"} : answers' = answers \cup {<<q, what>>}
  BY DEF ServeList
<1>2. q \in air /\ air' = air \ {q} /\ UNCHANGED <<on, opened, latest, shown, loading, waiting, overlapped, refused>>
  BY DEF ServeList
<1>3. \A a \in answers : a[1] # q
  BY <1>2 DEF ListsInv, AirInv
<1>4. ListTypes'
  BY <1>1, <1>2 DEF ListsInv, ListTypes
<1>5. AirInv'
  BY <1>1, <1>2, <1>3 DEF ListsInv, AirInv
<1>6. Unanswered' = Unanswered
  <2>1. {a[1] : a \in answers'} = {a[1] : a \in answers} \cup {q}
    <3>1. <<q, what>>[1] = q
      OBVIOUS
    <3>2. QED
      BY <1>1, <3>1
  <2>2. QED
    BY <1>2, <2>1 DEF Unanswered
<1>7. ListInv'
  BY <1>2, <1>6 DEF ListsInv, ListInv
<1>8. QED
  BY <1>4, <1>5, <1>7 DEF ListsInv

\* An answer that arrives is no longer open; it was the only one, if none was overlapped.
LEMMA Arrives ==
  ASSUME ListsInv, NEW q, NEW what, <<q, what>> \in answers,
         answers' = answers \ {<<q, what>>}, UNCHANGED air
  PROVE  /\ AirInv' /\ q \in 1..latest
         /\ Unanswered' = Unanswered \ {q}
         /\ ~overlapped => q = latest /\ Unanswered' = {}
<1>1. q \in Unanswered /\ q \notin air /\ \A a \in answers : a[1] = q => a = <<q, what>>
  BY DEF ListsInv, AirInv, Unanswered
<1>2. Unanswered' = Unanswered \ {q}
  BY <1>1 DEF Unanswered
<1>3. AirInv'
  BY DEF ListsInv, AirInv
<1>4. ~overlapped => Unanswered \subseteq {latest}
  BY DEF ListsInv, ListInv
<1>5. QED
  BY <1>1, <1>2, <1>3, <1>4, OpenQuestions DEF ListsInv

LEMMA RowsLists ==
  ASSUME ListsInv, NEW q, Rows(q)
  PROVE  ListsInv'
<1>1. /\ <<q, "rows">> \in answers /\ answers' = answers \ {<<q, "rows">>}
      /\ shown' = q /\ loading' = FALSE
      /\ UNCHANGED <<on, opened, latest, air, waiting, overlapped, refused>>
  BY DEF Rows
<1>2. /\ AirInv' /\ q \in 1..latest
      /\ ~overlapped => q = latest /\ Unanswered' = {}
  BY <1>1, Arrives
<1>3. ListTypes'
  <2>1. shown' \in 0..latest'
    BY <1>1, <1>2 DEF ListsInv, ListTypes
  <2>2. {loading', waiting', overlapped', refused'} \subseteq BOOLEAN
    BY <1>1 DEF ListsInv, ListTypes
  <2>3. answers' \subseteq (1..latest') \X {"rows", "error"}
    BY <1>1 DEF ListsInv, ListTypes
  <2>4. QED
    BY <1>1, <2>1, <2>2, <2>3 DEF ListsInv, ListTypes
<1>4. ListInv'
  BY <1>1, <1>2 DEF ListInv
<1>5. QED
  BY <1>2, <1>3, <1>4 DEF ListsInv

LEMMA ErrorLists ==
  ASSUME ListsInv, NEW q, Error(q)
  PROVE  ListsInv'
<1>1. /\ <<q, "error">> \in answers /\ answers' = answers \ {<<q, "error">>}
      /\ shown' \in {shown, 0} /\ loading' = FALSE /\ refused' = (refused \/ q = latest)
      /\ UNCHANGED <<on, opened, latest, air, waiting, overlapped>>
  BY DEF Error, Blank
<1>2. /\ AirInv' /\ q \in 1..latest
      /\ ~overlapped => q = latest /\ Unanswered' = {}
  BY <1>1, Arrives
<1>3. ListTypes'
  <2>1. shown' \in 0..latest'
    BY <1>1, <1>2 DEF ListsInv, ListTypes
  <2>2. {loading', waiting', overlapped', refused'} \subseteq BOOLEAN
    BY <1>1 DEF ListsInv, ListTypes
  <2>3. answers' \subseteq (1..latest') \X {"rows", "error"}
    BY <1>1 DEF ListsInv, ListTypes
  <2>4. QED
    BY <1>1, <2>1, <2>2, <2>3 DEF ListsInv, ListTypes
<1>4. ListInv'
  BY <1>1, <1>2 DEF ListInv
<1>5. QED
  BY <1>2, <1>3, <1>4 DEF ListsInv

\* The steps of a list, and those that leave it alone.
LEMMA SameLists ==
  ASSUME ListsInv, UNCHANGED <<on, opened, listVars>>
  PROVE  ListsInv'
  BY DEF ListsInv, ListTypes, AirInv, ListInv, Unanswered, listVars

-----------------------------------------------------------------------------
(* The pages.                                                              *)

\* The forms' part of the type invariant.
FieldsOK  == IsForm => filled \subseteq FormOf[on].needs
CountsOK  == entries \in 0..MaxEntry /\ entry \in 0..entries /\ busy \in BOOLEAN
PostsOK   == posts \subseteq [entry : Entry, try : 1..MaxSend, at : {"sent", "done"}, here : BOOLEAN]
HistoryOK == /\ sends \in [Entry -> 0..MaxSend] /\ recorded \in [Entry -> 0..MaxSend]
             /\ broken \in [Entry -> 0..MaxBroken]

LEMMA TypeParts ==
  /\ PagesTypeOK => ListTypes /\ FieldsOK /\ CountsOK /\ PostsOK /\ HistoryOK
  /\ ListTypes /\ FieldsOK /\ CountsOK /\ PostsOK /\ HistoryOK => PagesTypeOK
  BY DEF PagesTypeOK, ListTypes, FieldsOK, CountsOK, PostsOK, HistoryOK

\* A request whose answer, or whose page, is another is of the same kind.
LEMMA PostAltered ==
  ASSUME PostsOK, NEW q \in posts
  PROVE  /\ [q EXCEPT !.here = FALSE] \in [entry : Entry, try : 1..MaxSend, at : {"sent", "done"}, here : BOOLEAN]
         /\ [q EXCEPT !.at = "done"] \in [entry : Entry, try : 1..MaxSend, at : {"sent", "done"}, here : BOOLEAN]
  BY DEF PostsOK

LEMMA FormTypeNext ==
  ASSUME PagesTypeOK, FormInv, PagesNext
  PROVE  FieldsOK' /\ CountsOK' /\ PostsOK' /\ HistoryOK'
<1> USE TypeParts
<1>1. ASSUME NEW p \in Part, Open(p)
      PROVE  FieldsOK' /\ CountsOK' /\ PostsOK' /\ HistoryOK'
  <2>1. FieldsOK'
    BY <1>1 DEF FieldsOK, Open
  <2>2. CountsOK'
    <3>1. entries' = entries /\ (entry' = 0 \/ entry' = entry) /\ busy' = FALSE
      BY <1>1 DEF Open, Blank
    <3>2. 0 \in 0..entries
      BY WebPagesConstantsOK DEF CountsOK
    <3>3. QED
      BY <3>1, <3>2 DEF CountsOK
  <2>3. PostsOK'
    <3>1. posts' = {[q EXCEPT !.here = FALSE] : q \in {q \in posts : q.at = "sent"}}
      BY <1>1 DEF Open
    <3>2. ASSUME NEW r \in posts'
          PROVE  r \in [entry : Entry, try : 1..MaxSend, at : {"sent", "done"}, here : BOOLEAN]
      <4>1. PICK q \in posts : r = [q EXCEPT !.here = FALSE]
        BY <3>1, <3>2
      <4>2. QED
        BY <4>1, PostAltered
    <3>3. QED
      BY <3>2 DEF PostsOK
  <2>4. HistoryOK'
    BY <1>1 DEF HistoryOK, Open
  <2>5. QED
    BY <2>1, <2>2, <2>3, <2>4
<1>2. ASSUME NEW f \in FormOf[on].needs, IsForm, Fill(f)
      PROVE  FieldsOK' /\ CountsOK' /\ PostsOK' /\ HistoryOK'
  <2>1. FieldsOK'
    BY <1>2 DEF FieldsOK, Fill, IsForm
  <2>2. CountsOK'
    BY <1>2, WebPagesConstantsOK DEF CountsOK, Fill
  <2>3. PostsOK' /\ HistoryOK'
    BY <1>2 DEF PostsOK, HistoryOK, Fill
  <2>4. QED
    BY <2>1, <2>2, <2>3
<1>3. ASSUME Submit
      PROVE  FieldsOK' /\ CountsOK' /\ PostsOK' /\ HistoryOK'
  <2>1. entry \in Entry
    BY <1>3, SubmitForms
  <2>2. sends[entry] \in 0..MaxSend /\ sends[entry] < MaxSend /\ sends' = [sends EXCEPT ![entry] = @ + 1]
    BY <1>3, <2>1 DEF HistoryOK, Submit
  <2>3. sends[entry] + 1 \in 1..MaxSend /\ sends'[entry] = sends[entry] + 1
    BY <2>1, <2>2, WebPagesConstantsOK DEF HistoryOK
  <2>4. HistoryOK'
    BY <1>3, <2>1, <2>2, <2>3 DEF HistoryOK, Submit
  <2>5. posts' = posts \cup {[entry |-> entry, try |-> sends'[entry], at |-> "sent", here |-> TRUE]}
    BY <1>3 DEF Submit
  <2>6. PostsOK'
    <3>1. sends'[entry] \in 1..MaxSend
      BY <2>3
    <3>2. [entry |-> entry, try |-> sends'[entry], at |-> "sent", here |-> TRUE]
            \in [entry : Entry, try : 1..MaxSend, at : {"sent", "done"}, here : BOOLEAN]
      BY <2>1, <3>1
    <3>3. QED
      BY <2>5, <3>2 DEF PostsOK
  <2>7. FieldsOK' /\ CountsOK'
    BY <1>3 DEF FieldsOK, CountsOK, Submit, IsForm
  <2>8. QED
    BY <2>4, <2>6, <2>7
<1>4. ASSUME NEW q \in posts, Record(q)
      PROVE  FieldsOK' /\ CountsOK' /\ PostsOK' /\ HistoryOK'
  <2>1. q.entry \in Entry /\ recorded[q.entry] + 1 <= sends[q.entry]
    BY <1>4, RecordForms, FormTypesHold DEF FormTypes
  <2>2. recorded[q.entry] + 1 \in 0..MaxSend
    BY <2>1, WebPagesConstantsOK DEF HistoryOK
  <2>3. HistoryOK'
    BY <1>4, <2>1, <2>2 DEF HistoryOK, Record
  <2>4. posts' = (posts \ {q}) \cup (IF q.here THEN {[q EXCEPT !.at = "done"]} ELSE {})
    BY <1>4 DEF Record
  <2>5. PostsOK'
    BY <2>4, PostAltered DEF PostsOK
  <2>6. FieldsOK' /\ CountsOK'
    BY <1>4 DEF FieldsOK, CountsOK, Record, IsForm
  <2>7. QED
    BY <2>3, <2>5, <2>6
<1>5. ASSUME NEW q \in posts, Accepted(q) \/ Refused(q)
      PROVE  FieldsOK' /\ CountsOK' /\ PostsOK' /\ HistoryOK'
  <2>1. FieldsOK'
    BY <1>5 DEF FieldsOK, Accepted, Refused, IsForm
  <2>2. CountsOK'
    <3>1. entries' = entries /\ (entry' = 0 \/ entry' = entry) /\ busy' = FALSE
      BY <1>5 DEF Accepted, Refused, Blank
    <3>2. 0 \in 0..entries
      BY WebPagesConstantsOK DEF CountsOK
    <3>3. QED
      BY <3>1, <3>2 DEF CountsOK
  <2>3. PostsOK' /\ HistoryOK'
    BY <1>5 DEF PostsOK, HistoryOK, Accepted, Refused
  <2>4. QED
    BY <2>1, <2>2, <2>3
<1>6. ASSUME NEW q \in posts, ConnectionBreaks(q)
      PROVE  FieldsOK' /\ CountsOK' /\ PostsOK' /\ HistoryOK'
  <2>1. q.entry \in Entry
    BY FormTypesHold DEF FormTypes
  <2>2. broken[q.entry] + 1 \in 0..MaxBroken
    BY <1>6, <2>1, WebPagesConstantsOK DEF HistoryOK, ConnectionBreaks
  <2>3. HistoryOK'
    BY <1>6, <2>1, <2>2 DEF HistoryOK, ConnectionBreaks
  <2>4. posts' = (posts \ {q}) \cup (IF q.at = "sent" THEN {[q EXCEPT !.here = FALSE]} ELSE {})
    BY <1>6 DEF ConnectionBreaks
  <2>5. PostsOK'
    BY <2>4, PostAltered DEF PostsOK
  <2>6. FieldsOK' /\ CountsOK'
    BY <1>6 DEF FieldsOK, CountsOK, ConnectionBreaks, IsForm
  <2>7. QED
    BY <2>3, <2>5, <2>6
<1>7. ASSUME UNCHANGED <<on, formVars>>
      PROVE  FieldsOK' /\ CountsOK' /\ PostsOK' /\ HistoryOK'
  BY <1>7 DEF FieldsOK, CountsOK, PostsOK, HistoryOK, IsForm, formVars
<1>8. ASSUME AskByButton \/ AskByPager \/ AskFreely \/ Type \/ AskAfterTyping \/ ClearSearch \/ MoveCard
             \/ \E q \in 1..MaxQuestion : ServeList(q) \/ Rows(q) \/ Error(q)
      PROVE  UNCHANGED <<on, formVars>>
  BY <1>8 DEF AskByButton, AskByPager, AskFreely, Type, AskAfterTyping, ClearSearch, MoveCard,
              OwnRows, ServeList, Rows, Error
<1>9. QED
  BY <1>1, <1>2, <1>3, <1>4, <1>5, <1>6, <1>7, <1>8 DEF PagesNext

PagesSafe == PagesTypeOK /\ PagesInv

LEMMA SafeParts ==
  /\ PagesSafe => PagesTypeOK /\ ListsInv /\ FormInv
  /\ PagesTypeOK /\ ListsInv /\ FormInv => PagesSafe
  BY ListTypesHold DEF PagesSafe, PagesInv, ListsInv, FormInv

LEMMA PagesSafeInit ==
  ASSUME PagesInit
  PROVE  PagesSafe
<1>1. (Asks(on) /\ latest = 1 /\ loading = TRUE) \/ (~Asks(on) /\ latest = 0 /\ loading = FALSE)
  BY DEF PagesInit, Asks
<1>2. /\ air = 1..latest /\ answers = {} /\ shown = 0 /\ overlapped = FALSE /\ refused = FALSE
      /\ on \in Part /\ opened = 1 /\ waiting \in BOOLEAN
  BY DEF PagesInit, Blank
<1>3. ListTypes
  <2>1. latest \in 0..MaxQuestion /\ shown \in 0..latest /\ opened \in 1..MaxOpen
    BY <1>1, <1>2, WebPagesConstantsOK
  <2>2. {loading, waiting, overlapped, refused} \subseteq BOOLEAN
    BY <1>1, <1>2
  <2>3. QED
    BY <1>2, <2>1, <2>2 DEF ListTypes
<1>4. AirInv
  BY <1>2 DEF AirInv
<1>5. ListInv
  <2>1. Unanswered = 1..latest
    BY <1>2 DEF Unanswered
  <2>2. CASE latest = 1 /\ loading = TRUE
    BY <2>1, <2>2 DEF ListInv
  <2>3. CASE latest = 0
    BY <1>2, <2>1, <2>3 DEF ListInv
  <2>4. QED
    BY <1>1, <2>2, <2>3
<1>6. /\ filled = {} /\ entry = 0 /\ entries = 0 /\ busy = FALSE
      /\ posts = {} /\ sends = [e \in Entry |-> 0]
      /\ recorded = [e \in Entry |-> 0] /\ broken = [e \in Entry |-> 0]
  BY DEF PagesInit, Blank
<1>7. FieldsOK /\ CountsOK /\ PostsOK
  <2>1. FieldsOK /\ PostsOK
    BY <1>6 DEF FieldsOK, PostsOK
  <2>2. 0 \in 0..MaxEntry /\ 0 \in 0..0
    BY WebPagesConstantsOK
  <2>3. QED
    BY <1>6, <2>1, <2>2 DEF CountsOK
<1>8. HistoryOK
  BY <1>6, WebPagesConstantsOK DEF HistoryOK
<1>9. EntryInv
  <2>1. \A e \in Entry : SentTries(e) = {}
    BY <1>6 DEF SentTries
  <2>2. Cardinality({}) = 0
    BY FS_EmptySet
  <2>3. \A e \in Entry : Counted(e) = 0
    BY <1>6, <2>1, <2>2 DEF Counted
  <2>4. QED
    BY <1>6, <2>3 DEF EntryInv
<1>10. PostInv
  BY <1>6 DEF PostInv
<1>11. BlankInv
  BY <1>6, FormFacts DEF BlankInv, IsForm
<1>12. QED
  BY <1>3, <1>4, <1>5, <1>7, <1>8, <1>9, <1>10, <1>11, SafeParts, TypeParts DEF ListsInv, FormInv

LEMMA PagesSafeNext ==
  ASSUME PagesSafe, PagesNext
  PROVE  PagesSafe'
<1>0. PagesTypeOK /\ ListsInv /\ FormInv
  BY SafeParts
<1>1. ListsInv'
  <2>1. ASSUME NEW p \in Part, Open(p)
        PROVE  ListsInv'
    BY <1>0, <2>1, OpenLists
  <2>2. ASSUME AskByButton \/ AskByPager \/ AskFreely
        PROVE  ListsInv'
    <3>1. Ask /\ UNCHANGED <<on, opened, shown, answers, waiting>>
      BY <2>2 DEF AskByButton, AskByPager, AskFreely
    <3>2. waiting' \in BOOLEAN
      BY <1>0, <3>1 DEF ListsInv, ListTypes
    <3>3. QED
      BY <1>0, <3>1, <3>2, AskLists
  <2>3. ASSUME AskAfterTyping
        PROVE  ListsInv'
    BY <1>0, <2>3, AskLists DEF AskAfterTyping
  <2>4. ASSUME Type
        PROVE  ListsInv'
    <3>1. ListTypes'
      BY <1>0, <2>4 DEF Type, ListsInv, ListTypes
    <3>2. AirInv' /\ ListInv'
      BY <1>0, <2>4 DEF Type, ListsInv, AirInv, ListInv, Unanswered
    <3>3. QED
      BY <3>1, <3>2 DEF ListsInv
  <2>5. ASSUME ClearSearch
        PROVE  ListsInv'
    BY <1>0, <2>5, OwnRowsLists DEF ClearSearch
  <2>6. ASSUME MoveCard
        PROVE  ListsInv'
    <3>1. OwnRows /\ waiting' \in BOOLEAN
      BY <1>0, <2>6 DEF MoveCard, ListsInv, ListTypes
    <3>2. QED
      BY <1>0, <3>1, OwnRowsLists
  <2>7. ASSUME NEW q \in 1..MaxQuestion, ServeList(q) \/ Rows(q) \/ Error(q)
        PROVE  ListsInv'
    BY <1>0, <2>7, ServeLists, RowsLists, ErrorLists
  <2>8. ASSUME NEW f, Fill(f)
        PROVE  ListsInv'
    BY <1>0, <2>8, SameLists DEF Fill
  <2>9. ASSUME Submit
        PROVE  ListsInv'
    BY <1>0, <2>9, SameLists DEF Submit
  <2>10. ASSUME NEW q \in posts, Record(q) \/ Accepted(q) \/ Refused(q) \/ ConnectionBreaks(q)
         PROVE  ListsInv'
    BY <1>0, <2>10, SameLists DEF Record, Accepted, Refused, ConnectionBreaks
  <2>11. QED
    BY <2>1, <2>2, <2>3, <2>4, <2>5, <2>6, <2>7, <2>8, <2>9, <2>10 DEF PagesNext
<1>2. FormInv'
  <2>1. ASSUME NEW p \in Part, Open(p)
        PROVE  FormInv'
    BY <1>0, <2>1, OpenForms
  <2>2. ASSUME AskByButton \/ AskByPager \/ AskFreely \/ Type \/ AskAfterTyping \/ ClearSearch \/ MoveCard
               \/ \E q \in 1..MaxQuestion : ServeList(q) \/ Rows(q) \/ Error(q)
        PROVE  FormInv'
    <3>1. UNCHANGED <<on, formVars>>
      BY <2>2 DEF AskByButton, AskByPager, AskFreely, Type, AskAfterTyping, ClearSearch, MoveCard,
                  OwnRows, ServeList, Rows, Error
    <3>2. QED
      BY <1>0, <3>1 DEF FormInv, EntryInv, PostInv, BlankInv, Counted, SentTries, IsForm, formVars
  <2>3. ASSUME NEW f, Fill(f)
        PROVE  FormInv'
    BY <1>0, <2>3, FillForms
  <2>4. ASSUME Submit
        PROVE  FormInv'
    BY <1>0, <2>4, SubmitForms
  <2>5. ASSUME NEW q \in posts, Record(q) \/ Accepted(q) \/ Refused(q) \/ ConnectionBreaks(q)
        PROVE  FormInv'
    BY <1>0, <2>5, RecordForms, AcceptedForms, RefusedForms, BreakForms
  <2>6. QED
    BY <2>1, <2>2, <2>3, <2>4, <2>5 DEF PagesNext
<1>3. PagesTypeOK'
  <2>1. FieldsOK' /\ CountsOK' /\ PostsOK' /\ HistoryOK'
    BY <1>0, FormTypeNext
  <2>2. ListTypes'
    BY <1>1 DEF ListsInv
  <2>3. QED
    BY <2>1, <2>2 DEF PagesTypeOK, ListTypes, FieldsOK, CountsOK, PostsOK, HistoryOK
<1>4. QED
  BY <1>1, <1>2, <1>3 DEF PagesSafe, PagesInv, ListsInv, FormInv

-----------------------------------------------------------------------------
(* The receipt and its number.                                             *)

\* A sequence with one more at its end.
LEMMA OneMore ==
  ASSUME NEW S, NEW s \in Seq(S), NEW v
  PROVE  /\ Append(s, v) \in Seq(ToSet(Append(s, v)))
         /\ Len(Append(s, v)) = Len(s) + 1
         /\ DOMAIN Append(s, v) = DOMAIN s \cup {Len(s) + 1} /\ Len(s) + 1 \notin DOMAIN s
         /\ \A i \in DOMAIN s : Append(s, v)[i] = s[i]
         /\ ToSet(Append(s, v)) = ToSet(s) \cup {v}
<1> DEFINE t == Append(s, v)
<1>1. s \in Seq(S \cup {v})
  BY SeqMonotonic
<1>2. /\ t \in Seq(S \cup {v}) /\ Len(t) = Len(s) + 1
      /\ \A i \in 1..Len(s) : t[i] = s[i]
      /\ t[Len(s) + 1] = v
  BY <1>1, AppendProperties
<1> HIDE DEF t
<1>3. Len(s) \in Nat /\ DOMAIN s = 1..Len(s) /\ DOMAIN t = 1..(Len(s) + 1)
  BY <1>1, <1>2, LenProperties
<1>4. DOMAIN t = DOMAIN s \cup {Len(s) + 1} /\ Len(s) + 1 \notin DOMAIN s
  BY <1>3
<1>5. \A i \in DOMAIN s : t[i] = s[i]
  BY <1>2, <1>3
<1>6. ToSet(t) = ToSet(s) \cup {v}
  BY <1>2, <1>4, <1>5 DEF ToSet
<1>7. t \in Seq(ToSet(t))
  BY <1>2, SeqOfRange DEF Range, ToSet
<1>8. QED
  BY <1>2, <1>4, <1>5, <1>6, <1>7 DEF t

\* A sequence with one entry replaced.
LEMMA Replaced ==
  ASSUME NEW S, NEW s \in Seq(S), NEW i \in DOMAIN s, NEW v
  PROVE  /\ [s EXCEPT ![i] = v] \in Seq(ToSet([s EXCEPT ![i] = v]))
         /\ DOMAIN [s EXCEPT ![i] = v] = DOMAIN s
         /\ \A j \in DOMAIN s : j # i => [s EXCEPT ![i] = v][j] = s[j]
<1> DEFINE t == [s EXCEPT ![i] = v]
<1>1. s \in Seq(S \cup {v})
  BY SeqMonotonic
<1>2. i \in 1..Len(s)
  BY <1>1, LenProperties
<1>3. t \in Seq(S \cup {v})
  BY <1>1, <1>2, ExceptSeq
<1>4. DOMAIN t = DOMAIN s /\ \A j \in DOMAIN s : j # i => t[j] = s[j]
  OBVIOUS
<1> HIDE DEF t
<1>5. t \in Seq(ToSet(t))
  BY <1>3, SeqOfRange DEF Range, ToSet
<1>6. QED
  BY <1>4, <1>5 DEF t

LEMMA SalesInvInit ==
  ASSUME JobsInit
  PROVE  SalesInv
<1>1. sales = <<>> /\ printed = <<>> /\ receipt = NoReceipt
  BY DEF JobsInit
<1>2. ToSet(printed) = {}
  BY <1>1 DEF ToSet
<1>3. NoReceipt.no = 0
  BY DEF NoReceipt
<1>4. sales \in Seq(ToSet(sales)) /\ printed \in Seq(ToSet(printed))
  BY <1>1, EmptySeq
<1>5. QED
  BY <1>1, <1>2, <1>3, <1>4 DEF SalesInv, ReceiptInv, OwnNumber

LEMMA SalesInvNext ==
  ASSUME SalesInv, SaleStep
  PROVE  SalesInv'
<1> USE DEF SalesInv
<1>0. /\ sales \in Seq(ToSet(sales)) /\ printed \in Seq(ToSet(printed))
      /\ DOMAIN receipt = {"sale", "no", "mixed"}
      /\ receipt # NoReceipt => receipt.sale \in Sale /\ (receipt.mixed \/ polling \subseteq {receipt.sale})
      /\ \A r \in {receipt} \cup ToSet(printed) : r.no # 0 => r.sale \in Sale /\ (r.no = sales[r.sale] \/ r.mixed)
      /\ NoReceipt.no = 0 /\ DOMAIN NoReceipt = {"sale", "no", "mixed"}
  BY DEF ReceiptInv, OwnNumber, NoReceipt
<1> SUFFICES /\ sales' \in Seq(ToSet(sales')) /\ printed' \in Seq(ToSet(printed'))
             /\ DOMAIN receipt' = {"sale", "no", "mixed"}
             /\ receipt' # NoReceipt => receipt'.sale \in DOMAIN sales' /\ (receipt'.mixed \/ polling' \subseteq {receipt'.sale})
             /\ \A r \in {receipt'} \cup ToSet(printed') : r.no # 0 => r.sale \in DOMAIN sales' /\ (r.no = sales'[r.sale] \/ r.mixed)
  BY DEF ReceiptInv, OwnNumber, NoReceipt, Sale, ToSet
<1> USE DEF Sale
<1>1. CASE CompleteSale
  <2> DEFINE n == Len(sales) + 1
  <2>1. /\ sales' = Append(sales, 0) /\ UNCHANGED printed
        /\ receipt' = [sale |-> Len(sales'), no |-> 0, mixed |-> polling # {}]
        /\ polling' = polling \cup {Len(sales')}
    BY <1>1 DEF CompleteSale
  <2>2. /\ sales' \in Seq(ToSet(sales')) /\ Len(sales') = n
        /\ DOMAIN sales' = DOMAIN sales \cup {n}
        /\ \A i \in DOMAIN sales : sales'[i] = sales[i]
    BY <1>0, <2>1, OneMore
  <2> HIDE DEF n
  <2>3. receipt'.sale = n /\ receipt'.no = 0 /\ receipt'.mixed = (polling # {})
    BY <2>1, <2>2
  <2>4. receipt'.sale \in DOMAIN sales' /\ (receipt'.mixed \/ polling' \subseteq {receipt'.sale})
    BY <2>1, <2>2, <2>3
  <2>5. \A r \in ToSet(printed) : r.no # 0 => r.sale \in DOMAIN sales' /\ (r.no = sales'[r.sale] \/ r.mixed)
    BY <1>0, <2>2
  <2>6. QED
    BY <1>0, <2>1, <2>2, <2>3, <2>4, <2>5
<1>2. CASE PrintOnOfficePrinter
  <2>1. printed' = Append(printed, receipt) /\ UNCHANGED <<sales, receipt, polling>>
    BY <1>2 DEF PrintOnOfficePrinter
  <2>2. printed' \in Seq(ToSet(printed')) /\ ToSet(printed') = ToSet(printed) \cup {receipt}
    BY <1>0, <2>1, OneMore
  <2>3. QED
    BY <1>0, <2>1, <2>2
<1>3. CASE NewSale
  BY <1>0, <1>3 DEF NewSale
<1>4. ASSUME NEW s \in DOMAIN sales, WriteSale(s)
      PROVE  /\ sales' \in Seq(ToSet(sales')) /\ UNCHANGED <<printed, receipt, polling>>
             /\ DOMAIN sales' = DOMAIN sales
             /\ \A r \in {receipt} \cup ToSet(printed) : r.no # 0 => r.no = sales'[r.sale] \/ r.mixed
  <2>1. PICK v : sales' = [sales EXCEPT ![s] = v]
    BY <1>4 DEF WriteSale
  <2>2. /\ sales' \in Seq(ToSet(sales')) /\ DOMAIN sales' = DOMAIN sales
        /\ \A j \in DOMAIN sales : j # s => sales'[j] = sales[j]
    BY <1>0, <2>1, Replaced
  <2>3. sales[s] = 0 /\ UNCHANGED <<printed, receipt, polling>>
    BY <1>4 DEF WriteSale
  <2>4. QED
    BY <1>0, <2>2, <2>3
<1>5. ASSUME NEW s \in polling, NumberArrives(s)
      PROVE  /\ DOMAIN receipt' = {"sale", "no", "mixed"} /\ UNCHANGED <<sales, printed>>
             /\ receipt' # NoReceipt => receipt'.sale \in DOMAIN sales /\ (receipt'.mixed \/ polling' \subseteq {receipt'.sale})
             /\ receipt'.no # 0 => receipt'.sale \in DOMAIN sales /\ (receipt'.no = sales[receipt'.sale] \/ receipt'.mixed)
  <2>1. polling' = polling \ {s} /\ UNCHANGED <<sales, printed>>
    BY <1>5 DEF NumberArrives
  <2>2. CASE receipt = NoReceipt
    BY <1>0, <1>5, <2>1, <2>2 DEF NumberArrives
  <2>3. CASE receipt # NoReceipt
    <3>1. receipt' = [receipt EXCEPT !.no = sales[s]]
      BY <1>5, <2>3 DEF NumberArrives
    <3>2. /\ DOMAIN receipt' = {"sale", "no", "mixed"} /\ receipt'.no = sales[s]
          /\ receipt'.sale = receipt.sale /\ receipt'.mixed = receipt.mixed
      BY <1>0, <3>1
    <3>3. receipt.sale \in DOMAIN sales /\ (receipt.mixed \/ s = receipt.sale)
      BY <1>0, <2>3
    <3>4. QED
      BY <1>0, <2>1, <2>3, <3>2, <3>3
  <2>4. QED
    BY <2>2, <2>3
<1>6. ASSUME NEW s \in polling, NumberAwaitedTooLong(s)
      PROVE  UNCHANGED <<sales, receipt, printed>> /\ polling' \subseteq polling
  BY <1>6 DEF NumberAwaitedTooLong
<1>7. QED
  BY <1>0, <1>1, <1>2, <1>3, <1>4, <1>5, <1>6 DEF SaleStep

-----------------------------------------------------------------------------
(* The upload of the history.                                              *)

\* What the invariant says of one loop.
Watched(w) ==
  /\ w \in [kind : {"resumed", "started"}, was : Status, run : Nat, amid : BOOLEAN]
  /\ w.amid \/ w.run <= posted \/ (w.was.mark = status.mark /\ w.run <= done + 1)

MirrorTypes ==
  /\ {status, known} \subseteq Status /\ opening \in [at : {"status", "queue", "over"}, was : Status]
  /\ {done, queued, posted, said.run} \subseteq Nat /\ posted <= done + 1 /\ base \in NoRun..MaxMark

LEMMA MirrorParts == MirrorInv <=> MirrorTypes /\ CompleteMeansOwnRun /\ \A w \in watches : Watched(w)
  BY DEF MirrorInv, WatchInv, MirrorTypes, Watched

LEMMA StatusFacts ==
  /\ Garbled \in Status /\ Fresh \in Status
  /\ \A st \in Status : st.mark \in Int /\ st.paused \in BOOLEAN
  /\ \A st \in Status :
       /\ [st EXCEPT !.paused = TRUE] \in Status /\ [st EXCEPT !.paused = TRUE].mark = st.mark
       /\ [st EXCEPT !.paused = FALSE] \in Status /\ [st EXCEPT !.paused = FALSE].mark = st.mark
  /\ \A st \in Status : \A d \in (st.mark + 1)..MaxMark : [st EXCEPT !.mark = d] \in Status
<1>1. MaxMark \in Nat
  BY WebJobsConstantsOK
<1>2. Garbled \in Status /\ Fresh \in Status
  BY <1>1 DEF Garbled, Fresh, Null, Status
<1>3. \A st \in Status : st.mark \in Int /\ st.mark >= -1 /\ st.paused \in BOOLEAN
  BY <1>1 DEF Status
<1>4. \A st \in Status :
       /\ [st EXCEPT !.paused = TRUE] \in Status /\ [st EXCEPT !.paused = TRUE].mark = st.mark
       /\ [st EXCEPT !.paused = FALSE] \in Status /\ [st EXCEPT !.paused = FALSE].mark = st.mark
  BY DEF Status
<1>5. ASSUME NEW st \in Status, NEW d \in (st.mark + 1)..MaxMark
      PROVE  [st EXCEPT !.mark = d] \in Status
  <2>1. d \in -1..MaxMark
    BY <1>1, <1>3
  <2>2. QED
    BY <2>1 DEF Status
<1>6. QED
  BY <1>2, <1>3, <1>4, <1>5

LEMMA MirrorInvInit ==
  ASSUME JobsInit
  PROVE  MirrorInv
<1>1. /\ status = Fresh /\ queued \in 0..1 /\ done = 0 /\ posted = 0
      /\ known = Fresh /\ opening = [at |-> "status", was |-> Fresh]
      /\ watches = {} /\ said = Silence
  BY DEF JobsInit
<1>2. said.run = 0 /\ said.text = ""
  BY <1>1 DEF Silence
<1>3. MirrorTypes
  <2>1. status \in Status /\ known \in Status /\ opening \in [at : {"status", "queue", "over"}, was : Status]
    BY <1>1, StatusFacts
  <2>2. done \in Nat /\ queued \in Nat /\ posted \in Nat /\ said.run \in Nat /\ posted <= done + 1
    <3>1. queued \in 0..1 /\ done = 0 /\ posted = 0 /\ said.run = 0
      BY <1>1, <1>2
    <3>2. QED
      BY <3>1
  <2>3. base \in NoRun..MaxMark
    BY WebJobsConstantsOK DEF JobsInit, NoRun
  <2>4. QED
    BY <2>1, <2>2, <2>3 DEF MirrorTypes
<1>4. QED
  BY <1>1, <1>2, <1>3, MirrorParts DEF CompleteMeansOwnRun

\* What was said stands, as long as the date that was posted does.
LEMMA SaidStands ==
  ASSUME CompleteMeansOwnRun, MirrorTypes, said' = said, posted' \in Nat, posted <= posted'
  PROVE  CompleteMeansOwnRun'
<1>1. said.run <= posted => said.run <= posted'
  BY DEF MirrorTypes
<1>2. QED
  BY <1>1, Zenon DEF CompleteMeansOwnRun

\* A loop that begins now.
LEMMA WatchBegins ==
  ASSUME MirrorTypes, NEW kind \in {"resumed", "started"}, NEW was \in Status, NEW run \in Nat
  PROVE  Watched(Watch(kind, was, run))
<1> DEFINE w == Watch(kind, was, run)
<1>1. /\ w.was = was /\ w.run = run
      /\ w.amid = (was.mark # status.mark \/ run > done + 1)
      /\ w \in [kind : {"resumed", "started"}, was : Status, run : Nat, amid : BOOLEAN]
  BY DEF Watch
<1>2. done \in Nat
  BY DEF MirrorTypes
<1>3. QED
  BY <1>1, <1>2 DEF Watched

\* What the page says of an answer.
LEMMA JudgedWell ==
  ASSUME MirrorInv, NEW w \in watches, NEW got \in Status,
         got.mark = w.was.mark \/ got.mark = status.mark \/ got = Garbled,
         Judged(w, got), UNCHANGED posted
  PROVE  CompleteMeansOwnRun' /\ said'.run \in Nat /\ watches' \subseteq watches
<1>1. Watched(w) /\ said.run \in Nat /\ CompleteMeansOwnRun
  BY MirrorParts DEF MirrorTypes
<1>2. CASE got.mark # w.was.mark \/ got.paused
  <2>1. /\ said' = [text |-> IF got.paused THEN "paused" ELSE "batch complete",
                    run |-> w.run, amid |-> w.amid \/ got = Garbled]
        /\ watches' = watches \ {w}
    BY <1>2 DEF Judged
  <2>2. /\ said'.text = (IF got.paused THEN "paused" ELSE "batch complete")
        /\ said'.run = w.run /\ said'.amid = (w.amid \/ got = Garbled)
    BY <2>1
  <2>3. w.run \in Nat
    BY <1>1 DEF Watched
  <2>4. ~got.paused => w.run <= posted \/ w.amid \/ got = Garbled
    BY <1>1, <1>2 DEF Watched
  <2>5. QED
    BY <2>1, <2>2, <2>3, <2>4 DEF CompleteMeansOwnRun
<1>3. CASE ~(got.mark # w.was.mark \/ got.paused)
  BY <1>1, <1>3 DEF Judged, CompleteMeansOwnRun
<1>4. QED
  BY <1>2, <1>3

LEMMA MirrorInvNext ==
  ASSUME MirrorInv, MirrorStep
  PROVE  MirrorInv'
<1>0. MirrorTypes /\ CompleteMeansOwnRun /\ \A w \in watches : Watched(w)
  BY MirrorParts
<1>a. /\ done \in Nat /\ queued \in Nat /\ posted \in Nat /\ said.run \in Nat /\ posted <= done + 1
      /\ status \in Status /\ known \in Status
      /\ base \in NoRun..MaxMark
      /\ opening.was \in Status /\ opening \in [at : {"status", "queue", "over"}, was : Status]
  BY <1>0 DEF MirrorTypes
<1>c. done \in Nat /\ queued \in Nat /\ posted \in Nat /\ said.run \in Nat /\ posted <= done + 1
  BY <1>a
<1>b. \A w \in watches :
        /\ w \in [kind : {"resumed", "started"}, was : Status, run : Nat, amid : BOOLEAN]
        /\ w.run \in Nat
        /\ w.amid \/ w.run <= posted \/ (w.was.mark = status.mark /\ w.run <= done + 1)
  BY <1>0 DEF Watched
<1> SUFFICES MirrorTypes' /\ CompleteMeansOwnRun' /\ \A w \in watches' : Watched(w)'
  BY DEF MirrorInv, WatchInv, MirrorTypes, Watched
<1>1. CASE BeginRun
  <2>1. done' \in {done, done + 1} /\ UNCHANGED <<status, queued, posted, known, opening, watches, said>>
    BY <1>1 DEF BeginRun, watchVars
  <2>2. \A w \in watches : Watched(w)'
    BY <1>a, <1>b, <2>1 DEF Watched
  <2>3. base' \in NoRun..MaxMark
    <3>1. base' \in {base, status.mark}
      BY <1>1 DEF BeginRun
    <3>2. status.mark \in -1..MaxMark
      BY <1>a DEF Status
    <3>3. QED
      BY <1>a, <3>1, <3>2 DEF NoRun
  <2>4. MirrorTypes'
    <3>1. done' \in Nat /\ queued' \in Nat /\ posted' \in Nat /\ posted' <= done' + 1
      <4>1. posted' = posted /\ (done' = done \/ done' = done + 1) /\ queued' \in Nat
        BY <1>c, <2>1
      <4>2. QED
        BY <1>c, <4>1
    <3>2. said'.run \in Nat
      <4>1. 0 \in Nat
        OBVIOUS
      <4>2. QED
        BY <1>c, <4>1, <2>1, Zenon
    <3>3. status' \in Status /\ known' \in Status /\ opening' \in [at : {"status", "queue", "over"}, was : Status]
      BY <1>a, <2>1
    <3>4. base' \in NoRun..MaxMark
      BY <1>a, <2>1, <2>3
    <3>5. QED
      BY <3>1, <3>2, <3>3, <3>4 DEF MirrorTypes
  <2>5. CompleteMeansOwnRun'
    BY <1>0, <1>a, <2>1, SaidStands
  <2>6. QED
    BY <2>1, <2>2, <2>4, <2>5
<1>2. CASE PostWatermark
  <2>1. PICK d \in (base + 1)..MaxMark : status' = [status EXCEPT !.mark = d]
    BY <1>2 DEF PostWatermark
  <2>2. posted' = done + 1 /\ posted <= done /\ UNCHANGED <<queued, done, base, known, opening, watches, said>>
    BY <1>2 DEF PostWatermark, watchVars
  <2>3. status' \in Status
    <3>1. d \in -1..MaxMark
      BY <1>a, WebJobsConstantsOK DEF NoRun
    <3>2. QED
      BY <1>a, <2>1, <3>1 DEF Status
  <2>4. \A w \in watches : Watched(w)'
    BY <1>a, <1>b, <2>2 DEF Watched
  <2>5. MirrorTypes'
    BY <1>a, <2>2, <2>3 DEF MirrorTypes
  <2>6. CompleteMeansOwnRun'
    BY <1>0, <1>a, <2>2, SaidStands
  <2>7. QED
    BY <2>2, <2>4, <2>5, <2>6
<1>3. CASE EndRun
  <2>1. done' \in {done, done + 1} /\ UNCHANGED <<status, posted, known, opening, watches, said>>
    BY <1>3 DEF EndRun, watchVars
  <2>2. queued' \in Nat /\ base' \in NoRun..MaxMark
    <3>1. queued' \in {queued, queued + 1} /\ base' = NoRun
      BY <1>3, <1>a DEF EndRun
    <3>2. QED
      BY <1>a, <3>1, WebJobsConstantsOK DEF NoRun
  <2>3. \A w \in watches : Watched(w)'
    BY <1>a, <1>b, <2>1 DEF Watched
  <2>4. MirrorTypes'
    <3>1. done' \in Nat /\ queued' \in Nat /\ posted' \in Nat /\ posted' <= done' + 1
      <4>1. posted' = posted /\ (done' = done \/ done' = done + 1) /\ queued' \in Nat
        BY <1>c, <2>1, <2>2
      <4>2. QED
        BY <1>c, <4>1
    <3>2. said'.run \in Nat
      <4>1. 0 \in Nat
        OBVIOUS
      <4>2. QED
        BY <1>c, <4>1, <2>1, <2>2, Zenon
    <3>3. status' \in Status /\ known' \in Status /\ opening' \in [at : {"status", "queue", "over"}, was : Status]
      BY <1>a, <2>1, <2>2
    <3>4. base' \in NoRun..MaxMark
      BY <1>a, <2>1, <2>2
    <3>5. QED
      BY <3>1, <3>2, <3>3, <3>4 DEF MirrorTypes
  <2>5. CompleteMeansOwnRun'
    BY <1>0, <1>a, <2>1, SaidStands
  <2>6. QED
    BY <2>1, <2>3, <2>4, <2>5
<1>4. CASE NightlyMirror
  <2>1. PICK d \in (status.mark + 1)..MaxMark : status' = [status EXCEPT !.mark = d]
    BY <1>4 DEF NightlyMirror
  <2>2. watches' = {[w EXCEPT !.amid = TRUE] : w \in watches} /\ UNCHANGED <<queued, done, base, posted, known, opening, said>>
    BY <1>4 DEF NightlyMirror, runVars
  <2>3. status' \in Status
    BY <1>a, <2>1, StatusFacts
  <2>4. \A w \in watches' : Watched(w)'
    <3>1. ASSUME NEW w \in watches
          PROVE  /\ [w EXCEPT !.amid = TRUE] \in [kind : {"resumed", "started"}, was : Status, run : Nat, amid : BOOLEAN]
                 /\ [w EXCEPT !.amid = TRUE].amid
      BY <1>b
    <3>2. QED
      BY <2>2, <3>1 DEF Watched
  <2>5. MirrorTypes' /\ CompleteMeansOwnRun'
    BY <1>0, <1>a, <2>2, <2>3 DEF MirrorTypes, CompleteMeansOwnRun
  <2>6. QED
    BY <2>4, <2>5
<1>5. CASE LoadMirrorStatus
  <2>1. known' \in {status, Garbled} /\ opening' = [at |-> "queue", was |-> known']
        /\ UNCHANGED <<status, queued, done, base, posted, watches, said>>
    BY <1>5 DEF LoadMirrorStatus, Answer, runVars
  <2>2. known' \in Status
    BY <1>a, <2>1, StatusFacts
  <2>3. \A w \in watches : Watched(w)'
    BY <1>b, <2>1 DEF Watched
  <2>4. MirrorTypes' /\ CompleteMeansOwnRun'
    BY <1>0, <1>a, <2>1, <2>2 DEF MirrorTypes, CompleteMeansOwnRun
  <2>5. QED
    BY <2>1, <2>3, <2>4
<1>6. CASE ResumeIfActive
  <2>1. opening' = [opening EXCEPT !.at = "over"] /\ UNCHANGED <<status, queued, done, base, posted, known>>
    BY <1>6 DEF ResumeIfActive, runVars
  <2>2. opening' \in [at : {"status", "queue", "over"}, was : Status]
    BY <1>a, <2>1
  <2>3. (watches' = watches /\ said' = said)
        \/ (watches' = watches \cup {Watch("resumed", opening.was, done + 1)} /\ said' = Silence)
    BY <1>6 DEF ResumeIfActive
  <2>4. Watched(Watch("resumed", opening.was, done + 1))
    BY <1>0, <1>a, WatchBegins
  <2>5. \A w : Watched(w) => Watched(w)'
    BY <2>1 DEF Watched
  <2>6. said'.run \in Nat /\ CompleteMeansOwnRun'
    <3>1. CASE said' = said
      BY <1>0, <1>a, <2>1, <3>1, SaidStands
    <3>2. CASE said' = Silence
      BY <3>2 DEF Silence, CompleteMeansOwnRun
    <3>3. QED
      BY <2>3, <3>1, <3>2
  <2>7. MirrorTypes'
    BY <1>a, <2>1, <2>2, <2>6 DEF MirrorTypes
  <2>8. QED
    BY <1>0, <2>3, <2>4, <2>5, <2>6, <2>7
<1>7. CASE StartMirrorBatch
  <2>1. /\ status' = [status EXCEPT !.paused = FALSE] /\ queued' = queued + 1 /\ said' = Silence
        /\ watches' = watches \cup {Watch("started", known, queued')}
        /\ UNCHANGED <<done, base, posted, known, opening>>
    BY <1>7 DEF StartMirrorBatch
  <2>2. status' \in Status /\ status'.mark = status.mark /\ queued' \in Nat
    <3>1. queued' \in Nat
      <4>1. queued' \in {queued, queued + 1}
        BY <2>1
      <4>2. QED
        BY <4>1, <1>a
    <3>2. QED
      BY <1>a, <2>1, <3>1, StatusFacts
  <2>3. Watched(Watch("started", known, queued'))
    BY <1>0, <1>a, <2>2, WatchBegins
  <2>4. \A w : Watched(w) => Watched(w)'
    BY <2>1, <2>2 DEF Watched
  <2>5. said'.run = 0 /\ CompleteMeansOwnRun'
    BY <2>1 DEF Silence, CompleteMeansOwnRun
  <2>6. MirrorTypes'
    BY <1>a, <2>1, <2>2, <2>5 DEF MirrorTypes
  <2>7. QED
    BY <1>0, <2>1, <2>3, <2>4, <2>5, <2>6
<1>8. CASE StartFails
  <2>1. /\ status' = [status EXCEPT !.paused = FALSE] /\ queued' \in {queued, queued + 1}
        /\ said' = [Silence EXCEPT !.text = "could not queue"]
        /\ UNCHANGED <<done, base, posted, known, opening, watches>>
    BY <1>8 DEF StartFails
  <2>2. status' \in Status /\ status'.mark = status.mark /\ queued' \in Nat
    <3>1. queued' \in Nat
      <4>1. queued' \in {queued, queued + 1}
        BY <2>1
      <4>2. QED
        BY <4>1, <1>a
    <3>2. QED
      BY <1>a, <2>1, <3>1, StatusFacts
  <2>3. said'.run = 0 /\ said'.text = "could not queue"
    BY <2>1 DEF Silence
  <2>4. \A w \in watches' : Watched(w)'
    BY <1>0, <2>1, <2>2 DEF Watched
  <2>5. MirrorTypes'
    <3>1. done' \in Nat /\ queued' \in Nat /\ posted' \in Nat /\ posted' <= done' + 1
      BY <1>c, <2>1, <2>2, <2>3
    <3>2. said'.run \in Nat
      <4>1. 0 \in Nat
        OBVIOUS
      <4>2. QED
        BY <1>c, <4>1, <2>1, <2>2, <2>3, Zenon
    <3>3. status' \in Status /\ known' \in Status /\ opening' \in [at : {"status", "queue", "over"}, was : Status]
      BY <1>a, <2>1, <2>2, <2>3
    <3>4. base' \in NoRun..MaxMark
      BY <1>a, <2>1, <2>3
    <3>5. QED
      BY <3>1, <3>2, <3>3, <3>4 DEF MirrorTypes
  <2>6. CompleteMeansOwnRun'
    BY <2>3 DEF CompleteMeansOwnRun
  <2>7. QED
    BY <2>4, <2>5, <2>6
<1>9. CASE PauseMirror
  <2>1. /\ status' = [status EXCEPT !.paused = TRUE] /\ known' = status'
        /\ said' = [Silence EXCEPT !.text = "pause requested"]
        /\ UNCHANGED <<queued, done, base, posted, opening, watches>>
    BY <1>9 DEF PauseMirror, runVars
  <2>2. status' \in Status /\ status'.mark = status.mark
    BY <1>a, <2>1, StatusFacts
  <2>3. said'.run = 0 /\ said'.text = "pause requested"
    BY <2>1 DEF Silence
  <2>4. \A w \in watches' : Watched(w)'
    BY <1>0, <2>1, <2>2 DEF Watched
  <2>5. MirrorTypes'
    <3>1. done' \in Nat /\ queued' \in Nat /\ posted' \in Nat /\ posted' <= done' + 1
      BY <1>c, <2>1, <2>2, <2>3
    <3>2. said'.run \in Nat
      <4>1. 0 \in Nat
        OBVIOUS
      <4>2. QED
        BY <1>c, <4>1, <2>1, <2>2, <2>3, Zenon
    <3>3. status' \in Status /\ known' \in Status /\ opening' \in [at : {"status", "queue", "over"}, was : Status]
      BY <1>a, <2>1, <2>2, <2>3
    <3>4. base' \in NoRun..MaxMark
      BY <1>a, <2>1, <2>3
    <3>5. QED
      BY <3>1, <3>2, <3>3, <3>4 DEF MirrorTypes
  <2>6. CompleteMeansOwnRun'
    BY <2>3 DEF CompleteMeansOwnRun
  <2>7. QED
    BY <2>4, <2>5, <2>6
<1>10. ASSUME NEW w \in watches, PollProgress(w) \/ PollUnanswered(w)
       PROVE  MirrorTypes' /\ CompleteMeansOwnRun' /\ \A v \in watches' : Watched(v)'
  <2>1. PICK got : /\ got = known' /\ got \in {status, Garbled, w.was} /\ Judged(w, got)
                   /\ UNCHANGED <<status, queued, done, base, posted, opening>>
    BY <1>10 DEF PollProgress, PollUnanswered, Answer, runVars
  <2>2. got \in Status /\ (got.mark = w.was.mark \/ got.mark = status.mark \/ got = Garbled)
    BY <1>a, <1>b, <2>1, StatusFacts
  <2>3. CompleteMeansOwnRun' /\ said'.run \in Nat /\ watches' \subseteq watches
    BY <2>1, <2>2, JudgedWell
  <2>4. \A v : Watched(v) => Watched(v)'
    BY <2>1 DEF Watched
  <2>5. MirrorTypes'
    <3>1. done' \in Nat /\ queued' \in Nat /\ posted' \in Nat /\ posted' <= done' + 1
      BY <1>c, <2>1, <2>2, <2>3
    <3>2. said'.run \in Nat
      <4>1. 0 \in Nat
        OBVIOUS
      <4>2. QED
        BY <1>c, <4>1, <2>1, <2>2, <2>3, Zenon
    <3>3. status' \in Status /\ known' \in Status /\ opening' \in [at : {"status", "queue", "over"}, was : Status]
      BY <1>a, <2>1, <2>2, <2>3
    <3>4. base' \in NoRun..MaxMark
      BY <1>a, <2>1, <2>3
    <3>5. QED
      BY <3>1, <3>2, <3>3, <3>4 DEF MirrorTypes
  <2>6. QED
    BY <1>0, <2>3, <2>4, <2>5
<1>11. ASSUME NEW w \in watches, WatchedTooLong(w)
       PROVE  MirrorTypes' /\ CompleteMeansOwnRun' /\ \A v \in watches' : Watched(v)'
  <2>1. /\ watches' = watches \ {w} /\ UNCHANGED <<status, queued, done, base, posted, known, opening>>
        /\ said' \in {said, [Silence EXCEPT !.text = "timed out"]}
    BY <1>11 DEF WatchedTooLong, runVars
  <2>2. [Silence EXCEPT !.text = "timed out"].run = 0 /\ [Silence EXCEPT !.text = "timed out"].text = "timed out"
    BY DEF Silence
  <2>3. \A v : Watched(v) => Watched(v)'
    BY <2>1 DEF Watched
  <2>4. said'.run \in Nat /\ CompleteMeansOwnRun'
    <3>1. CASE said' = said
      BY <1>0, <1>a, <2>1, <3>1, SaidStands
    <3>2. CASE said' = [Silence EXCEPT !.text = "timed out"]
      <4>1. said'.run = 0 /\ said'.text = "timed out"
        BY <2>2, <3>2
      <4>2. 0 \in Nat
        OBVIOUS
      <4>3. CompleteMeansOwnRun'
        BY <4>1 DEF CompleteMeansOwnRun
      <4>4. QED
        BY <4>1, <4>2, <4>3, Zenon
    <3>3. QED
      BY <2>1, <3>1, <3>2
  <2>5. MirrorTypes'
    BY <1>a, <2>1, <2>4 DEF MirrorTypes
  <2>6. QED
    BY <1>0, <2>1, <2>3, <2>4, <2>5
<1>12. QED
  BY <1>1, <1>2, <1>3, <1>4, <1>5, <1>6, <1>7, <1>8, <1>9, <1>10, <1>11 DEF MirrorStep

-----------------------------------------------------------------------------
(* The refresh.                                                            *)

LEMMA RefreshInvInit == Init => RefreshInv
  BY DEF Init, RefreshInv, RefreshedAfterPress, NoCycle, NoPress, IdlePost

\* The steps that neither press, nor read, send or write a day's figures.
LEMMA RefreshInvKeeps ==
  ASSUME RefreshInv, UNCHANGED <<asked, post, snaps>>,
         page' = page \/ page' = NoPress,
         DOMAIN cycle' = DOMAIN cycle,
         cycle'.seen \in {0, cycle.seen}, cycle'.at = "built" => cycle'.at = cycle.at /\ cycle'.seen = cycle.seen
  PROVE  RefreshInv'
<1>1. asked \in Nat /\ page.press \in 0..asked /\ page.seen \in 0..asked /\ cycle.seen \in 0..asked
  BY DEF RefreshInv
<1>2. cycle'.seen \in 0..asked
  BY <1>1
<1>3. CASE page' = page
  BY <1>1, <1>2, <1>3 DEF RefreshInv, RefreshedAfterPress
<1>4. CASE page' = NoPress
  <2>1. page'.at = "idle" /\ page'.press = 0 /\ page'.seen = 0 /\ page'.amid = FALSE
    BY <1>4 DEF NoPress
  <2>2. \A n \in 0..asked : n >= 0
    BY <1>1
  <2>3. QED
    BY <1>1, <1>2, <1>4, <2>1, <2>2 DEF RefreshInv, RefreshedAfterPress
<1>5. QED
  BY <1>3, <1>4

\* A request of POST /sync/metrics that changes on its way, is sent or is lost.
LEMMA RefreshInvPosts ==
  ASSUME RefreshInv, NEW k \in Post, NEW new, post' = [post EXCEPT ![k] = new],
         DOMAIN new = DOMAIN IdlePost, new.seen \in 0..asked,
         ~page.amid /\ new.at # "idle" => new.seen >= page.press,
         DOMAIN cycle' = DOMAIN cycle, cycle'.seen \in {0, cycle.seen}, cycle'.at # "built" \/ cycle' = cycle,
         UNCHANGED <<asked, page>>,
         DOMAIN snaps' \subseteq DOMAIN snaps, \A i \in DOMAIN snaps' : snaps'[i] = snaps[i]
  PROVE  RefreshInv'
<1>1. \A l \in Post : post'[l] = IF l = k THEN new ELSE post[l]
  BY DEF RefreshInv
<1>2. DOMAIN post' = Post
  BY DEF RefreshInv
<1>3. asked \in Nat /\ cycle'.seen \in 0..asked
  BY DEF RefreshInv
<1>4. \A l \in Post : DOMAIN post'[l] = DOMAIN IdlePost /\ post'[l].seen \in 0..asked
  BY <1>1 DEF RefreshInv
<1>5. ~page.amid => \A l \in Post : post'[l].at # "idle" => post'[l].seen >= page.press
  BY <1>1 DEF RefreshInv
<1>6. cycle'.at = "built" /\ ~page.amid => cycle'.seen >= page.press
  BY DEF RefreshInv
<1>7. QED
  BY <1>2, <1>3, <1>4, <1>5, <1>6 DEF RefreshInv, RefreshedAfterPress

LEMMA RefreshInvNext ==
  ASSUME RefreshInv, [Next]_vars
  PROVE  RefreshInv'
<1> USE DEF shopVars, askVars, agentVars, serverVars
<1>0. /\ asked \in Nat /\ page.press \in 0..asked /\ page.seen \in 0..asked /\ cycle.seen \in 0..asked
      /\ DOMAIN page = DOMAIN NoPress /\ DOMAIN cycle = DOMAIN NoCycle /\ DOMAIN post = Post
      /\ \A k \in Post : DOMAIN post[k] = DOMAIN IdlePost /\ post[k].seen \in 0..asked
  BY DEF RefreshInv
<1> DEFINE Aside == /\ UNCHANGED <<asked, post, snaps>>
                    /\ page' = page \/ page' = NoPress
                    /\ DOMAIN cycle' = DOMAIN cycle
                    /\ cycle'.seen \in {0, cycle.seen}
                    /\ cycle'.at = "built" => cycle'.at = cycle.at /\ cycle'.seen = cycle.seen
<1>1. Aside => RefreshInv'
  BY RefreshInvKeeps
<1>2. CASE Sell \/ NextDay \/ RefreshTimesOut \/ UNCHANGED vars
  <2>1. UNCHANGED <<asked, post, snaps, cycle>> /\ (page' = page \/ page' = NoPress)
    BY <1>2 DEF Sell, NextDay, RefreshTimesOut, vars
  <2>2. QED
    BY <1>1, <2>1
<1>3. CASE TakeRefresh
  <2>1. UNCHANGED <<asked, post, snaps, page>>
    BY <1>3 DEF TakeRefresh
  <2>2. DOMAIN cycle' = DOMAIN NoCycle /\ cycle'.seen = 0 /\ cycle'.at = "taken"
    BY <1>3 DEF TakeRefresh, NoCycle
  <2>3. QED
    BY <1>0, <1>1, <2>1, <2>2
<1>4. CASE ReadProducts \/ ReadProductsFails
  <2>1. PICK qty, counted, again : Reading(qty, counted, again)
    BY <1>4 DEF ReadProducts, ReadProductsFails
  <2>2. UNCHANGED <<asked, post, snaps, page>>
    BY <2>1 DEF Reading
  <2>3. DOMAIN cycle' = DOMAIN cycle /\ cycle'.seen = cycle.seen /\ cycle'.at = "read"
    BY <1>0, <2>1 DEF Reading, NoCycle
  <2>4. QED
    BY <1>1, <2>2, <2>3
<1>5. CASE SkipProducts \/ BuildMetricsFails \/ PushMetricsFails \/ SyncProducts \/ SyncProductsFails
  <2>1. UNCHANGED <<asked, post, snaps, page>>
    BY <1>5 DEF SkipProducts, BuildMetricsFails, PushMetricsFails, SyncProducts, SyncProductsFails
  <2>2. DOMAIN cycle' = DOMAIN cycle /\ cycle'.seen = cycle.seen /\ cycle'.at # "built"
    BY <1>0, <1>5 DEF SkipProducts, BuildMetricsFails, PushMetricsFails, SyncProducts, SyncProductsFails, NoCycle
  <2>3. QED
    BY <1>1, <2>1, <2>2
<1>6. CASE SaveCheckpoint \/ AgentDies
  <2>1. UNCHANGED <<asked, post, snaps, page>> /\ cycle' = NoCycle
    BY <1>6 DEF SaveCheckpoint, AgentDies
  <2>2. DOMAIN cycle' = DOMAIN cycle /\ cycle'.seen = 0 /\ cycle'.at = "idle"
    BY <1>0, <2>1 DEF NoCycle
  <2>3. QED
    BY <1>1, <2>1, <2>2
<1>7. CASE BuildMetrics
  <2>1. UNCHANGED <<asked, post, snaps, page>>
    BY <1>7 DEF BuildMetrics
  <2>2. DOMAIN cycle' = DOMAIN cycle /\ cycle'.seen = asked
    BY <1>0, <1>7 DEF BuildMetrics, NoCycle
  <2>3. asked \in 0..asked /\ asked >= page.press
    BY <1>0
  <2>4. QED
    BY <2>1, <2>2, <2>3 DEF RefreshInv, RefreshedAfterPress
<1>8. CASE Press
  <2>1. /\ asked' = asked + 1 /\ UNCHANGED <<cycle, post, snaps>>
        /\ page' = [NoPress EXCEPT !.at = "waiting", !.press = asked',
                            !.amid = cycle.at = "built" \/ \E k \in Post : post[k].at # "idle"]
    BY <1>8 DEF Press
  <2>2. /\ DOMAIN page' = DOMAIN NoPress
        /\ page'.at = "waiting" /\ page'.press = asked + 1 /\ page'.seen = 0
        /\ page'.amid = (cycle.at = "built" \/ \E k \in Post : post[k].at # "idle")
    BY <2>1 DEF NoPress
  <2>3. \A n \in 0..asked : n \in 0..(asked + 1) /\ ~(n >= asked + 1)
    BY <1>0
  <2>4. 0 \in 0..(asked + 1) /\ asked + 1 \in 0..(asked + 1) /\ asked + 1 \in Nat
    BY <1>0
  <2>5. ~page'.amid => /\ cycle'.at # "built"
                       /\ \A k \in Post : post'[k].at = "idle"
    BY <2>1, <2>2
  <2>6. \A i \in DOMAIN snaps' : /\ {snaps'[i].seen, snaps'[i].stamp} \subseteq 0..(asked + 1)
                                 /\ ~(snaps'[i].stamp >= page'.press)
    BY <2>1, <2>2, <2>3 DEF RefreshInv
  <2>7. RefreshedAfterPress'
    BY <2>2 DEF RefreshedAfterPress
  <2>8. QED
    BY <1>0, <2>1, <2>2, <2>3, <2>4, <2>5, <2>6, <2>7 DEF RefreshInv
<1>9. CASE Request
  <2>1. asked' = asked + 1 /\ UNCHANGED <<cycle, post, snaps>> /\ (page' = page \/ page' = NoPress)
    BY <1>9 DEF Request
  <2>2. \A n \in 0..asked : n \in 0..(asked + 1) /\ n >= 0
    BY <1>0
  <2>3. asked + 1 \in Nat /\ 0 \in 0..(asked + 1)
    BY <1>0
  <2>4. CASE page' = page
    BY <1>0, <2>1, <2>2, <2>3, <2>4 DEF RefreshInv, RefreshedAfterPress
  <2>5. CASE page' = NoPress
    <3>1. page'.at = "idle" /\ page'.press = 0 /\ page'.seen = 0 /\ page'.amid = FALSE
      BY <2>5 DEF NoPress
    <3>2. QED
      BY <1>0, <2>1, <2>2, <2>3, <2>5, <3>1 DEF RefreshInv, RefreshedAfterPress
  <2>6. QED
    BY <2>1, <2>4, <2>5
<1>10. CASE PollLatest
  <2>1. PICK i \in Newest : /\ snaps[i].stamp >= page.press
                            /\ page' = [page EXCEPT !.at = "fresh", !.seen = snaps[i].seen]
    BY <1>10 DEF PollLatest
  <2>2. i \in DOMAIN snaps /\ UNCHANGED <<asked, cycle, post, snaps>>
    BY <1>10 DEF Newest, PollLatest
  <2>3. /\ DOMAIN page' = DOMAIN page /\ page'.press = page.press /\ page'.amid = page.amid
        /\ page'.seen = snaps[i].seen
    BY <1>0, <2>1 DEF NoPress
  <2>4. snaps[i].seen \in 0..asked /\ (~page.amid => snaps[i].seen >= page.press)
    BY <2>1, <2>2 DEF RefreshInv
  <2>5. RefreshedAfterPress'
    BY <2>3, <2>4 DEF RefreshedAfterPress
  <2>6. QED
    BY <1>0, <2>2, <2>3, <2>4, <2>5 DEF RefreshInv
<1>11. ASSUME NEW k \in Post, PushMetrics(k)
       PROVE  RefreshInv'
  <2> DEFINE new == [IdlePost EXCEPT !.at = "checked", !.day = cycle.day, !.figure = cycle.figure, !.seen = cycle.seen]
  <2>1. post' = [post EXCEPT ![k] = new] /\ UNCHANGED <<asked, page, snaps>> /\ cycle.at = "built"
    BY <1>11 DEF PushMetrics
  <2>2. DOMAIN new = DOMAIN IdlePost /\ new.seen = cycle.seen
    BY DEF IdlePost
  <2>3. DOMAIN cycle' = DOMAIN cycle /\ cycle'.seen = 0 /\ cycle'.at = "sent"
    BY <1>0, <1>11 DEF PushMetrics, NoCycle
  <2>4. ~page.amid => new.seen >= page.press
    BY <2>1, <2>2 DEF RefreshInv
  <2> HIDE DEF new
  <2>5. QED
    BY <1>0, <2>1, <2>2, <2>3, <2>4, RefreshInvPosts
<1>12. ASSUME NEW k \in Post, OldPush(k)
       PROVE  RefreshInv'
  <2> DEFINE new == [at |-> "checked", day |-> today, figure |-> moved[today], old |-> TRUE, seen |-> asked]
  <2>1. /\ post' = post \/ post' = [post EXCEPT ![k] = new]
        /\ UNCHANGED <<asked, page, snaps, cycle>>
    BY <1>12 DEF OldPush
  <2>2. DOMAIN new = DOMAIN IdlePost /\ new.seen = asked
    BY DEF IdlePost
  <2>3. asked \in 0..asked /\ asked >= page.press
    BY <1>0
  <2> HIDE DEF new
  <2>4. CASE post' = post
    BY <1>1, <2>1, <2>4
  <2>5. CASE post' = [post EXCEPT ![k] = new]
    BY <2>1, <2>2, <2>3, <2>5, RefreshInvPosts
  <2>6. QED
    BY <2>1, <2>4, <2>5
<1>13. ASSUME NEW k \in Post, DeleteDay(k)
       PROVE  RefreshInv'
  <2> DEFINE new == [post[k] EXCEPT !.at = "deleted"]
  <2>1. /\ post' = [post EXCEPT ![k] = new] /\ post[k].at = "checked" /\ UNCHANGED <<asked, page, cycle>>
        /\ DOMAIN snaps' \subseteq DOMAIN snaps /\ \A i \in DOMAIN snaps' : snaps'[i] = snaps[i]
    BY <1>13 DEF DeleteDay
  <2>2. DOMAIN new = DOMAIN IdlePost /\ new.seen = post[k].seen
    BY <1>0 DEF IdlePost
  <2>3. new.seen \in 0..asked /\ (~page.amid => new.seen >= page.press)
    BY <2>1, <2>2 DEF RefreshInv
  <2> HIDE DEF new
  <2>4. QED
    BY <2>1, <2>2, <2>3, RefreshInvPosts
<1>14. ASSUME NEW k \in Post, PostDies(k)
       PROVE  RefreshInv'
  <2>1. post' = [post EXCEPT ![k] = IdlePost] /\ UNCHANGED <<asked, page, snaps>>
    BY <1>14 DEF PostDies
  <2>2. IdlePost.seen = 0 /\ IdlePost.at = "idle" /\ 0 \in 0..asked
    BY <1>0 DEF IdlePost
  <2>3. DOMAIN cycle' = DOMAIN cycle /\ cycle'.seen = cycle.seen /\ (cycle' = cycle \/ cycle'.at = "answered")
    BY <1>0, <1>14 DEF PostDies, NoCycle
  <2>4. QED
    BY <2>1, <2>2, <2>3, RefreshInvPosts
<1>15. ASSUME NEW k \in Post, CreateSnapshot(k)
       PROVE  RefreshInv'
  <2> DEFINE row == [day |-> post[k].day, figure |-> post[k].figure, old |-> post[k].old,
                     seen |-> post[k].seen, stamp |-> asked]
  <2>1. /\ post[k].at = "deleted" /\ post' = [post EXCEPT ![k] = IdlePost] /\ UNCHANGED <<asked, page>>
        /\ snaps' = [i \in DOMAIN snaps \cup {After(snaps)} |-> IF i = After(snaps) THEN row ELSE snaps[i]]
    BY <1>15 DEF CreateSnapshot
  <2>2. \A i \in DOMAIN snaps' : snaps'[i] = row \/ (i \in DOMAIN snaps /\ snaps'[i] = snaps[i])
    BY <2>1
  <2>3. row.seen = post[k].seen /\ row.stamp = asked
    OBVIOUS
  <2> HIDE DEF row
  <2>4. asked \in 0..asked
    BY <1>0
  <2>5. row.seen \in 0..asked /\ (~page.amid => row.seen >= page.press)
    BY <2>1, <2>3 DEF RefreshInv
  <2>6. \A i \in DOMAIN snaps' : /\ {snaps'[i].seen, snaps'[i].stamp} \subseteq 0..asked
                                 /\ ~page.amid => (snaps'[i].stamp >= page.press => snaps'[i].seen >= page.press)
    BY <2>2, <2>3, <2>4, <2>5 DEF RefreshInv
  <2>7. DOMAIN cycle' = DOMAIN cycle /\ cycle'.seen = cycle.seen /\ (cycle' = cycle \/ cycle'.at = "answered")
    BY <1>0, <1>15 DEF CreateSnapshot, NoCycle
  <2>8. \A l \in Post : post'[l] = IF l = k THEN IdlePost ELSE post[l]
    BY <1>0, <2>1
  <2>9. IdlePost.seen = 0 /\ IdlePost.at = "idle" /\ 0 \in 0..asked /\ DOMAIN post' = Post
    BY <1>0, <2>1 DEF IdlePost
  <2>10. \A l \in Post : /\ DOMAIN post'[l] = DOMAIN IdlePost /\ post'[l].seen \in 0..asked
                         /\ ~page.amid => (post'[l].at # "idle" => post'[l].seen >= page.press)
    BY <2>8, <2>9 DEF RefreshInv
  <2>11. cycle'.at = "built" => cycle'.at = cycle.at
    BY <2>7
  <2>12. QED
    BY <1>0, <2>1, <2>6, <2>7, <2>9, <2>10, <2>11 DEF RefreshInv, RefreshedAfterPress
<1>16. QED
  BY <1>2, <1>3, <1>4, <1>5, <1>6, <1>7, <1>8, <1>9, <1>10, <1>11, <1>12, <1>13, <1>14, <1>15
  DEF Next, AgentStep, AgentFault, PostStep

-----------------------------------------------------------------------------
(* The stock.                                                              *)

\* The movements of finitely many days are finitely many.
LEMMA MovementsFinite ==
  ASSUME NEW f \in [Day -> Nat]
  PROVE  IsFiniteSet(Movements(f)) /\ Total(f) \in Nat
<1> DEFINE S == {{d} \X (1..f[d]) : d \in Day}
           g == [d \in Day |-> {d} \X (1..f[d])]
<1>1. IsFiniteSet(Day)
  BY SyncConstantsOK, FS_Interval DEF Day
<1>2. g \in Surjection(Day, S)
  BY DEF Surjection
<1>3. IsFiniteSet(S)
  BY <1>1, <1>2, FS_Surjection
<1>4. \A T \in S : IsFiniteSet(T)
  <2>1. ASSUME NEW d \in Day
        PROVE  IsFiniteSet({d} \X (1..f[d]))
    <3>0. 1 \in Int /\ f[d] \in Int
      OBVIOUS
    <3>1. IsFiniteSet({d}) /\ IsFiniteSet(1..f[d])
      BY <3>0, FS_Singleton, FS_Interval
    <3>2. QED
      BY <3>1, FS_Product
  <2>2. QED
    BY <2>1
<1>5. IsFiniteSet(UNION S)
  BY <1>3, <1>4, FS_UNION
<1>6. QED
  BY <1>5, FS_CardinalityType DEF Movements, Total

\* When nothing but today differs, and nothing of today was counted yet, today's movements
\* are what is missing from the total.
LEMMA TotalAdds ==
  ASSUME NEW f \in [Day -> Nat], NEW g \in [Day -> Nat], NEW t \in Day,
         f[t] = 0, \A d \in Day \ {t} : g[d] = f[d]
  PROVE  Total(g) = Total(f) + g[t]
<1> DEFINE T == {t} \X (1..g[t])
<1>1. Movements(g) = Movements(f) \cup T
  <2>1. \A x \in Movements(g) : x \in Movements(f) \cup T
    BY DEF Movements
  <2>2. \A x \in Movements(f) : x \in Movements(g)
    <3>1. ASSUME NEW d \in Day, NEW x \in {d} \X (1..f[d])
          PROVE  x \in Movements(g)
      <4>1. d # t
        BY <3>1
      <4>2. QED
        BY <3>1, <4>1 DEF Movements
    <3>2. QED
      BY <3>1 DEF Movements
  <2>3. \A x \in T : x \in Movements(g)
    BY DEF Movements
  <2>4. QED
    BY <2>1, <2>2, <2>3
<1>2. Movements(f) \cap T = {}
  <2>1. ASSUME NEW d \in Day, NEW x \in {d} \X (1..f[d]), x \in T
        PROVE  FALSE
    <3>1. d = t
      BY <2>1
    <3>2. QED
      BY <2>1, <3>1
  <2>2. QED
    BY <2>1 DEF Movements
<1>3. IsFiniteSet(Movements(f)) /\ Cardinality(Movements(f)) \in Nat
  BY MovementsFinite DEF Total
<1>4. IsFiniteSet(T) /\ Cardinality(T) = g[t]
  <2>1. IsFiniteSet({t}) /\ Cardinality({t}) = 1
    BY FS_Singleton
  <2>2. IsFiniteSet(1..g[t]) /\ Cardinality(1..g[t]) = g[t]
    BY FS_Interval
  <2>3. IsFiniteSet(T) /\ Cardinality(T) = 1 * g[t]
    BY <2>1, <2>2, FS_Product
  <2>4. QED
    BY <2>3
<1>5. Cardinality(Movements(f) \cup T) = Cardinality(Movements(f)) + Cardinality(T) - Cardinality({})
  BY <1>2, <1>3, <1>4, FS_Union
<1>6. Cardinality({}) = 0
  BY FS_EmptySet
<1>7. QED
  BY <1>1, <1>3, <1>4, <1>5, <1>6 DEF Total

\* When a day's count changes, the total changes by as much.
LEMMA TotalMoves ==
  ASSUME NEW f \in [Day -> Nat], NEW t \in Day, NEW n \in Nat
  PROVE  Total([f EXCEPT ![t] = n]) + f[t] = Total(f) + n
<1> DEFINE h == [f EXCEPT ![t] = 0]
           g == [f EXCEPT ![t] = n]
<1>1. h \in [Day -> Nat] /\ g \in [Day -> Nat] /\ h[t] = 0 /\ g[t] = n
  OBVIOUS
<1>2. \A d \in Day \ {t} : g[d] = h[d] /\ f[d] = h[d]
  OBVIOUS
<1> HIDE DEF h, g
<1>3. Total(g) = Total(h) + n
  BY <1>1, <1>2, TotalAdds
<1>4. Total(f) = Total(h) + f[t]
  BY <1>1, <1>2, TotalAdds
<1>5. Total(h) \in Nat /\ f[t] \in Nat
  BY <1>1, MovementsFinite
<1>6. Total(g) + f[t] = Total(f) + n
  BY <1>3, <1>4, <1>5
<1>7. QED
  BY <1>6 DEF g

LEMMA StockInvInit == Init => StockInv
  BY SyncConstantsOK DEF Init, StockInv, Kept, Exact, Within, NoCycle, NoStock, Nothing, NoMoves, None, Day

LEMMA StockInvNext ==
  ASSUME StockInv, RefreshInv, [Next]_vars
  PROVE  StockInv'
<1> USE DEF shopVars, askVars, agentVars, serverVars
<1>0. /\ today \in Day /\ moved \in [Day -> Nat] /\ DOMAIN cycle = DOMAIN NoCycle
      /\ DOMAIN cycle.was = DOMAIN NoStock
  BY DEF StockInv, Kept, RefreshInv
<1>1. /\ Kept(cp, moved) /\ Kept(cycle.was, moved) /\ Within(cycle.stock, moved)
      /\ Exact(cycle.stock) /\ Exact(catalogue)
  BY DEF StockInv
<1>2. ASSUME today' \in Day, moved' \in [Day -> Nat], Kept(cp', moved'), Kept(cycle'.was, moved'),
             Within(cycle'.stock, moved'), Exact(cycle'.stock), Exact(catalogue')
      PROVE  StockInv'
  BY <1>2 DEF StockInv
<1>a. Kept(NoCycle.was, moved) /\ Exact(NoCycle.stock) /\ Within(NoCycle.stock, moved)
  BY <1>0 DEF Kept, Exact, Within, NoCycle, NoStock, Nothing, NoMoves
<1>3. CASE Sell
  <2>1. moved' \in [Day -> Nat] /\ \A d \in Day : moved[d] <= moved'[d]
    BY <1>0, <1>3 DEF Sell
  <2>2. ASSUME NEW c, Kept(c, moved)
        PROVE  Kept(c, moved')
    <3>1. CASE c.stock = None
      BY <2>2, <3>1 DEF Kept
    <3>2. CASE Sums(c.stock, c) /\ Within(c, moved)
      <4>1. Within(c, moved')
        BY <1>0, <2>1, <3>2 DEF Sums, Within
      <4>2. QED
        BY <2>2, <3>2, <4>1 DEF Kept
    <3>3. QED
      BY <2>2, <3>1, <3>2 DEF Kept
  <2>3. UNCHANGED <<today, cp, cycle, catalogue>>
    BY <1>3 DEF Sell
  <2>4. cycle.stock.counted \in [Day -> Nat]
    BY <1>1 DEF Exact, Sums, Nothing, NoMoves
  <2>5. Within(cycle.stock, moved')
    BY <1>0, <1>1, <2>1, <2>4 DEF Within
  <2>6. QED
    BY <1>0, <1>1, <1>2, <2>1, <2>2, <2>3, <2>5
<1>4. CASE NextDay
  <2>1. today + 1 \in Day
    BY <1>0, <1>4, SyncConstantsOK DEF NextDay, Day
  <2>2. QED
    BY <1>0, <1>1, <1>2, <1>4, <2>1 DEF NextDay
<1>5. CASE Press \/ Request \/ PollLatest \/ RefreshTimesOut \/ UNCHANGED vars
  <2>1. UNCHANGED <<today, moved, cp, cycle, catalogue>>
    BY <1>5 DEF Press, Request, PollLatest, RefreshTimesOut, vars
  <2>2. QED
    BY <1>0, <1>1, <1>2, <2>1
<1>6. CASE TakeRefresh
  <2>1. UNCHANGED <<today, moved, cp, catalogue>> /\ cycle'.was = cp /\ cycle'.stock = NoCycle.stock
    BY <1>6 DEF TakeRefresh, NoCycle
  <2>2. QED
    BY <1>0, <1>1, <1>2, <1>a, <2>1
<1>b. ASSUME NEW qty, NEW counted, NEW again, Reading(qty, counted, again),
             counted \in [Day -> Nat], again \in Nat, qty = Total(counted) + again,
             \A d \in Day : counted[d] <= moved[d]
      PROVE  StockInv'
  <2>1. UNCHANGED <<today, moved, cp, catalogue>> /\ cycle'.was = cycle.was
    BY <1>0, <1>b DEF Reading, NoCycle
  <2>2. cycle'.stock = [qty |-> qty, of |-> moved, counted |-> counted, again |-> again]
    BY <1>0, <1>b DEF Reading, NoCycle
  <2>3. Exact(cycle'.stock) /\ Within(cycle'.stock, moved)
    BY <1>b, <2>2 DEF Exact, Sums, Within
  <2>4. QED
    BY <1>0, <1>1, <1>2, <2>1, <2>3
<1>7. CASE ReadProducts
  <2>1. Reading(StockNow, CountedNow, AgainNow)
    BY <1>7 DEF ReadProducts
  <2>2. CASE cycle.was.stock = None
    <3>1. StockNow = Total(moved) /\ CountedNow = moved /\ AgainNow = 0
      BY <2>2 DEF StockNow, CountedNow, AgainNow
    <3>2. Total(moved) \in Nat /\ \A d \in Day : moved[d] <= moved[d]
      BY <1>0, MovementsFinite
    <3>3. QED
      BY <1>0, <1>b, <2>1, <3>1, <3>2
  <2>3. CASE cycle.was.stock # None
    <3>1. PICK f : f = cycle.was.counted
      OBVIOUS
    <3>2. PICK n : n = cycle.was.again
      OBVIOUS
    <3>3. /\ StockNow = cycle.was.stock + moved[today]
          /\ CountedNow = [f EXCEPT ![today] = moved[today]] /\ AgainNow = n + f[today]
      BY <2>3, <3>1, <3>2 DEF StockNow, CountedNow, AgainNow
    <3>4. /\ f \in [Day -> Nat] /\ n \in Nat /\ cycle.was.stock = Total(f) + n
          /\ \A d \in Day : f[d] <= moved[d]
      BY <1>1, <2>3, <3>1, <3>2 DEF Kept, Sums, Within
    <3>5. PICK g : g = [f EXCEPT ![today] = moved[today]]
      OBVIOUS
    <3>6. g \in [Day -> Nat] /\ \A d \in Day : g[d] <= moved[d]
      BY <1>0, <3>4, <3>5
    <3>7. Total(g) + f[today] = Total(f) + moved[today]
      BY <1>0, <3>4, <3>5, TotalMoves
    <3>8. /\ Total(g) \in Nat /\ Total(f) \in Nat /\ f[today] \in Nat /\ moved[today] \in Nat
      BY <1>0, <3>4, <3>6, MovementsFinite
    <3>9. StockNow = Total(g) + AgainNow /\ AgainNow \in Nat
      BY <3>3, <3>4, <3>7, <3>8
    <3>10. QED
      BY <1>b, <2>1, <3>3, <3>5, <3>6, <3>9
  <2>4. QED
    BY <2>2, <2>3
<1>8. CASE ReadProductsFails
  <2>1. CASE cycle.was.stock # None /\ Reading(cycle.was.stock, cycle.was.counted, cycle.was.again)
    BY <1>1, <1>b, <2>1 DEF Kept, Sums, Within
  <2>2. CASE Reading(0, NoMoves, 0)
    <3>1. NoMoves \in [Day -> Nat] /\ \A d \in Day : NoMoves[d] <= moved[d]
      BY <1>0 DEF NoMoves
    <3>2. Total(NoMoves) = 0
      <4>1. Movements(NoMoves) = {}
        BY DEF Movements, NoMoves
      <4>2. QED
        BY <4>1, FS_EmptySet DEF Total
    <3>3. 0 = Total(NoMoves) + 0
      BY <3>2
    <3>4. QED
      BY <1>b, <2>2, <3>1, <3>3
  <2>3. QED
    BY <1>8, <2>1, <2>2 DEF ReadProductsFails
<1>9. CASE SkipProducts \/ BuildMetrics \/ BuildMetricsFails \/ PushMetricsFails \/ SyncProductsFails
  <2>1. UNCHANGED <<today, moved, cp, catalogue>>
    BY <1>9 DEF SkipProducts, BuildMetrics, BuildMetricsFails, PushMetricsFails, SyncProductsFails
  <2>2. cycle'.was = cycle.was /\ cycle'.stock = cycle.stock
    BY <1>0, <1>9 DEF SkipProducts, BuildMetrics, BuildMetricsFails, PushMetricsFails, SyncProductsFails, NoCycle
  <2>3. QED
    BY <1>0, <1>1, <1>2, <2>1, <2>2
<1>10. CASE SyncProducts
  <2>1. UNCHANGED <<today, moved, cp>> /\ catalogue' \in {catalogue, cycle.stock}
    BY <1>10 DEF SyncProducts
  <2>2. cycle'.was = cycle.was /\ cycle'.stock = cycle.stock
    BY <1>0, <1>10 DEF SyncProducts, NoCycle
  <2>3. QED
    BY <1>0, <1>1, <1>2, <2>1, <2>2
<1>11. CASE SaveCheckpoint
  <2>1. UNCHANGED <<today, moved, catalogue>> /\ cycle' = NoCycle
    BY <1>11 DEF SaveCheckpoint
  <2>2. PICK date :
          \/ cp' = [cycle.was EXCEPT !.date = date]
          \/ /\ cycle.stock.qty > 0
             /\ cp' = [date |-> date, stock |-> cycle.stock.qty, counted |-> cycle.stock.counted,
                       again |-> cycle.stock.again]
    BY <1>11 DEF SaveCheckpoint
  <2>3. CASE cp' = [cycle.was EXCEPT !.date = date]
    <3>1. /\ DOMAIN cp' = DOMAIN NoStock /\ cp'.counted = cycle.was.counted
          /\ cp'.stock = cycle.was.stock /\ cp'.again = cycle.was.again
      BY <1>0, <2>3 DEF NoStock
    <3>2. Kept(cp', moved)
      BY <1>1, <3>1 DEF Kept, Sums, Within
    <3>3. QED
      BY <1>0, <1>1, <1>2, <1>a, <2>1, <3>2
  <2>4. CASE /\ cycle.stock.qty > 0
             /\ cp' = [date |-> date, stock |-> cycle.stock.qty, counted |-> cycle.stock.counted,
                       again |-> cycle.stock.again]
    <3>1. /\ DOMAIN cp' = DOMAIN NoStock /\ cp'.counted = cycle.stock.counted
          /\ cp'.stock = cycle.stock.qty /\ cp'.again = cycle.stock.again
      BY <2>4 DEF NoStock
    <3>2. cycle.stock # Nothing
      BY <2>4 DEF Nothing, None
    <3>3. Sums(cp'.stock, cp') /\ Within(cp', moved)
      BY <1>1, <3>1, <3>2 DEF Exact, Sums, Within
    <3>4. Kept(cp', moved)
      BY <3>1, <3>3 DEF Kept
    <3>5. QED
      BY <1>0, <1>1, <1>2, <1>a, <2>1, <3>4
  <2>5. QED
    BY <2>2, <2>3, <2>4
<1>12. CASE AgentDies
  <2>1. UNCHANGED <<today, moved, cp, catalogue>> /\ cycle' = NoCycle
    BY <1>12 DEF AgentDies
  <2>2. QED
    BY <1>0, <1>1, <1>2, <1>a, <2>1
<1>13. ASSUME NEW k \in Post,
              OldPush(k) \/ PushMetrics(k) \/ DeleteDay(k) \/ CreateSnapshot(k) \/ PostDies(k)
       PROVE  StockInv'
  <2>1. UNCHANGED <<today, moved, cp, catalogue>>
    BY <1>13 DEF OldPush, PushMetrics, DeleteDay, CreateSnapshot, PostDies
  <2>2. cycle'.was = cycle.was /\ cycle'.stock = cycle.stock
    BY <1>0, <1>13 DEF OldPush, PushMetrics, DeleteDay, CreateSnapshot, PostDies, NoCycle
  <2>3. QED
    BY <1>0, <1>1, <1>2, <2>1, <2>2
<1>14. QED
  BY <1>3, <1>4, <1>5, <1>6, <1>7, <1>8, <1>9, <1>10, <1>11, <1>12, <1>13
  DEF Next, AgentStep, AgentFault, PostStep

-----------------------------------------------------------------------------
(* The dashboard.                                                          *)

DashboardSafe == StockInv /\ RefreshInv /\ PagesSafe /\ SalesInv /\ MirrorInv

LEMMA SafeInit == DashboardInit => DashboardSafe
  BY StockInvInit, RefreshInvInit, PagesSafeInit, SalesInvInit, MirrorInvInit DEF DashboardInit, DashboardSafe

LEMMA SafeNext ==
  ASSUME DashboardSafe, [DashboardNext]_<<vars, pageVars, jobVars, scene>>
  PROVE  DashboardSafe'
<1>1. ASSUME UNCHANGED pageVars
      PROVE  PagesSafe'
  BY <1>1 DEF DashboardSafe, PagesSafe, PagesTypeOK, PagesInv, AirInv, ListInv, EntryInv, PostInv, BlankInv,
              Unanswered, Counted, SentTries, IsForm, pageVars, listVars, formVars
<1>2. ASSUME UNCHANGED saleVars
      PROVE  SalesInv'
  BY <1>2 DEF DashboardSafe, SalesInv, ReceiptInv, OwnNumber, Sale, saleVars
<1>3. ASSUME UNCHANGED mirrorVars
      PROVE  MirrorInv'
  BY <1>3 DEF DashboardSafe, MirrorInv, WatchInv, CompleteMeansOwnRun, mirrorVars, runVars, watchVars
<1>r. ASSUME UNCHANGED vars
      PROVE  StockInv' /\ RefreshInv'
  BY <1>r DEF DashboardSafe, StockInv, Kept, Exact, Sums, Within, RefreshInv, RefreshedAfterPress, vars, shopVars, askVars,
              agentVars, serverVars
<1>4. UNCHANGED jobVars => UNCHANGED saleVars /\ UNCHANGED mirrorVars
  BY DEF jobVars
<1>5. SaleStep => UNCHANGED mirrorVars
  BY DEF SaleStep, CompleteSale, PrintOnOfficePrinter, NewSale, WriteSale, NumberArrives, NumberAwaitedTooLong
<1>6. MirrorStep => UNCHANGED saleVars
  BY DEF MirrorStep, BeginRun, PostWatermark, EndRun, NightlyMirror, LoadMirrorStatus, ResumeIfActive,
         StartMirrorBatch, StartFails, PauseMirror, PollProgress, PollUnanswered, WatchedTooLong
<1>7. CASE UNCHANGED <<vars, pageVars, jobVars, scene>>
  BY <1>1, <1>2, <1>3, <1>r, <1>4, <1>7 DEF DashboardSafe
<1>8. CASE Next /\ UNCHANGED <<pageVars, jobVars>>
  BY <1>1, <1>2, <1>3, <1>4, <1>8, StockInvNext, RefreshInvNext DEF DashboardSafe
<1>9. CASE PagesNext /\ UNCHANGED <<vars, jobVars>>
  BY <1>2, <1>3, <1>r, <1>4, <1>9, PagesSafeNext DEF DashboardSafe
<1>10. CASE SaleStep /\ UNCHANGED <<vars, pageVars>>
  BY <1>1, <1>3, <1>r, <1>5, <1>10, SalesInvNext DEF DashboardSafe
<1>11. CASE MirrorStep /\ UNCHANGED <<vars, pageVars>>
  BY <1>1, <1>2, <1>r, <1>6, <1>11, MirrorInvNext DEF DashboardSafe
<1>12. QED
  BY <1>7, <1>8, <1>9, <1>10, <1>11 DEF DashboardNext

\* The invariant that carries the seven results: the pages are typed, and the inductive
\* strengthenings of SyncCycle, of WebPages and of WebJobs hold.
LEMMA SafeAlways == DashboardSpec => []DashboardSafe
  BY SafeInit, SafeNext, PTL DEF DashboardSpec

\* The stock in the catalogue is the sum of movements of the ledger it was read from, each
\* once, and of those that a later reading of their day added again; what else it lacks
\* was made after the last reading of its day (buildProducts in pusher.js).  It is so for
\* every number of days, sales, presses and faults.
THEOREM StockOfTheLedger == DashboardSpec => []StockOffByRereads
<1>1. DashboardSafe => StockOffByRereads
  BY DEF DashboardSafe, StockInv, Exact, Sums, Within, StockOffByRereads
<1>2. QED
  BY <1>1, SafeAlways, PTL

\* A dashboard that says it is refreshed shows figures read after the press, unless figures
\* read before were on their way then (requestRefresh in dashboard/page.tsx, POST /sync/metrics):
\* however many agents, presses and requests overlap, and whatever is lost.
THEOREM FreshIsAfterPress == DashboardSpec => []RefreshedAfterPress
<1>1. DashboardSafe => RefreshedAfterPress
  BY DEF DashboardSafe, RefreshInv
<1>2. QED
  BY <1>1, SafeAlways, PTL

\* What a page holds stays of its kind: no more questions, entries and repetitions than
\* the bounds allow, and no more records of an entry than times it was sent.
THEOREM PagesTyped == DashboardSpec => []PagesTypeOK
<1>1. DashboardSafe => PagesTypeOK
  BY DEF DashboardSafe, PagesSafe
<1>2. QED
  BY <1>1, SafeAlways, PTL

\* A list shows the answer to its last question, unless that was an error, or was asked
\* while an older one was open (the loaders of apps/front; none is cancelled).
THEOREM LastAskedShown == DashboardSpec => []ShownIsLastAsked
<1>1. DashboardSafe => ShownIsLastAsked
  <2> SUFFICES ASSUME DashboardSafe, Settled, ~refused, ~overlapped
               PROVE  shown = latest
    BY DEF ShownIsLastAsked
  <2>1. (Unanswered # {} => loading) /\ (Unanswered = {} => shown = latest)
    BY DEF DashboardSafe, PagesSafe, PagesInv, ListInv
  <2>2. Unanswered = {}
    BY <2>1 DEF Settled
  <2>3. QED
    BY <2>1, <2>2
<1>2. QED
  BY <1>1, SafeAlways, PTL

\* What was entered once is recorded at most once more than connections broke under it
\* (the submit functions of apps/front, POST /sync/pending-changes, POST /pos/sale).
THEOREM RecordsCostBreaks == DashboardSpec => []RecordedTwiceNeedsBreak
<1>1. DashboardSafe => RecordedTwiceNeedsBreak
  <2> SUFFICES ASSUME DashboardSafe, NEW e \in Entry
               PROVE  recorded[e] <= 1 + broken[e]
    BY DEF RecordedTwiceNeedsBreak
  <2>1. PagesTypeOK /\ FormInv
    BY SafeParts DEF DashboardSafe
  <2>2. QED
    BY <2>1, EntryFacts
<1>2. QED
  BY <1>1, SafeAlways, PTL

\* A receipt bears its own number, unless it was made while the number of an earlier one
\* was awaited (syncReceiptNo, newSale and printOnOfficePrinter in dashboard/pos).
THEOREM OwnReceiptNumber == DashboardSpec => []OwnNumber
<1>1. DashboardSafe => OwnNumber
  BY DEF DashboardSafe, SalesInv
<1>2. QED
  BY <1>1, SafeAlways, PTL

\* A batch said to be complete has posted its date, unless another moved the date, the
\* snapshot was not the server's, or an error was taken for a status (startMirrorBatch
\* and resumeIfActive in dashboard/history).
THEOREM OwnRunComplete == DashboardSpec => []CompleteMeansOwnRun
<1>1. DashboardSafe => CompleteMeansOwnRun
  BY DEF DashboardSafe, MirrorInv
<1>2. QED
  BY <1>1, SafeAlways, PTL

\* What the loops of the dashboard leave on a page is of the sale and of the press they
\* were started by (dashboard/pos, dashboard/history), with the exceptions of the two.
THEOREM LoopsKeepToTheirOwn == DashboardSpec => []LoopsTellTheirOwn
<1>1. OwnNumber /\ CompleteMeansOwnRun => LoopsTellTheirOwn
  BY DEF LoopsTellTheirOwn
<1>2. QED
  BY <1>1, OwnReceiptNumber, OwnRunComplete, PTL

=============================================================================
