----------------------------- MODULE TillProofs -----------------------------
(***************************************************************************)
(* Proofs about TillSale, for every set of tills and goods, every tax rate *)
(* and tender, and every number of baskets, lines, FumasV5 receipts and    *)
(* faults; and about TillDesk, for every set of users, rights and          *)
(* databases, and any number of presses, sales and faults.                 *)
(***************************************************************************)
EXTENDS TillSale, TillDesk, FiniteSetTheorems, SequenceTheorems, TLAPS

-----------------------------------------------------------------------------
(* Money.                                                                  *)

\* A quotient of naturals lies where long division puts it.
LEMMA Quotient ==
  ASSUME NEW n \in Nat, NEW d \in Nat, d > 0
  PROVE  /\ n \div d \in Nat
         /\ d * (n \div d) <= n /\ n < d * (n \div d) + d
  OBVIOUS

LEMMA RoundNat ==
  ASSUME NEW n \in Nat, NEW d \in Nat, d > 0
  PROVE  Round(n, d) \in Nat
<1>1. 2 * n + d \in Nat /\ 2 * d \in Nat /\ 2 * d > 0
  OBVIOUS
<1>2. (2 * n + d) \div (2 * d) \in Nat
  BY <1>1, Quotient
<1>3. QED
  BY <1>2 DEF Round

\* The tax taken out of an inclusive price is no more than the price.
LEMMA TaxWithin ==
  ASSUME NEW b \in Nat, NEW v \in Nat
  PROVE  Round(b * v, 100 + v) <= b
<1> DEFINE D == 2 * (100 + v)
           N == 2 * (b * v) + (100 + v)
           Q == N \div D
<1>1. b * v \in Nat /\ N \in Nat /\ D \in Nat /\ D > 0
  OBVIOUS
<1>2. Q \in Nat /\ D * Q <= N
  <2> HIDE DEF N, D
  <2>1. QED
    BY <1>1, Quotient
<1>3. N < D * (b + 1)
  <2>1. D * (b + 1) = 2 * (b * v) + 200 * b + 2 * v + 200
    OBVIOUS
  <2>2. QED
    BY <2>1, <1>1
<1>4. ~ (Q >= b + 1)
  <2> HIDE DEF N, Q
  <2>1. SUFFICES ASSUME Q >= b + 1
                 PROVE  FALSE
    OBVIOUS
  <2>2. PICK r \in Nat : Q = (b + 1) + r
    <3>1. Q - (b + 1) \in Nat /\ Q = (b + 1) + (Q - (b + 1))
      BY <1>2, <2>1
    <3>2. QED
      BY <3>1
  <2> HIDE DEF D
  <2>3. D * Q = D * (b + 1) + D * r
    BY <1>1, <2>2
  <2>4. D * r \in Nat /\ D * (b + 1) \in Nat /\ D * Q \in Nat
    BY <1>1, <1>2, <2>2
  <2>5. QED
    BY <1>1, <1>2, <1>3, <2>3, <2>4
<1>5. QED
  BY <1>2, <1>4 DEF Round

LEMMA VatNat ==
  ASSUME NEW l \in Goods
  PROVE  Vat(l) \in Nat /\ (l.inclusive => Vat(l) <= l.total)
<1> DEFINE b == l.total - l.disc
<1>1. /\ l.total \in Nat /\ l.disc \in Nat /\ l.taxable \in BOOLEAN /\ l.inclusive \in BOOLEAN
      /\ l.disc <= l.total /\ VatRate \in Nat
  BY TillConstantsOK DEF Item
<1>2. b \in Nat /\ b <= l.total /\ 100 + VatRate \in Nat /\ 100 + VatRate > 0
  BY <1>1
<1> HIDE DEF b
<1>3. b * VatRate \in Nat
  BY <1>1, <1>2
<1>4. Round(b * VatRate, 100 + VatRate) \in Nat /\ Round(b * VatRate, 100) \in Nat
  BY <1>2, <1>3, RoundNat
<1>5. Round(b * VatRate, 100 + VatRate) <= b
  BY <1>1, <1>2, TaxWithin
<1>6. Vat(l) = CASE ~ l.taxable -> 0
                 [] l.taxable /\ l.inclusive -> Round(b * VatRate, 100 + VatRate)
                 [] OTHER -> Round(b * VatRate, 100)
  BY DEF Vat, b
<1>7. QED
  BY <1>1, <1>2, <1>4, <1>5, <1>6

\* A line leaves a basket a basket, and its net the credits less the discount.
LEMMA PlusKeeps ==
  ASSUME NEW b \in Bill, NEW l \in Goods
  PROVE  /\ Plus(b, l) \in Bill /\ Plus(b, l).lines > 0
         /\ b.net = b.revenue + b.vat - b.disc =>
              Plus(b, l).net = Plus(b, l).revenue + Plus(b, l).vat - Plus(b, l).disc
<1>1. /\ l.total \in Nat /\ l.disc \in Nat /\ l.cost \in Nat /\ l.inclusive \in BOOLEAN
      /\ l.disc <= l.total
  BY TillConstantsOK DEF Item
<1>2. Vat(l) \in Nat /\ (l.inclusive => Vat(l) <= l.total)
  BY VatNat
<1>3. LineNet(l) \in Nat /\ LineRevenue(l) \in Nat /\ LineNet(l) = LineRevenue(l) + Vat(l) - l.disc
  BY <1>1, <1>2 DEF LineNet, LineRevenue
<1>4. /\ b.net \in Nat /\ b.revenue \in Nat /\ b.vat \in Nat /\ b.disc \in Nat /\ b.cost \in Nat
      /\ b.lines \in Nat
  BY DEF Bill
<1>5. QED
  BY <1>1, <1>2, <1>3, <1>4 DEF Plus, Bill

LEMMA DueNat ==
  ASSUME NEW b, b.net \in Nat
  PROVE  Due(b) \in Nat /\ Due(b) - b.net \in 0..99
<1>1. b.net + 99 \in Nat
  OBVIOUS
<1>2. LET q == (b.net + 99) \div 100
      IN  q \in Nat /\ 100 * q <= b.net + 99 /\ b.net + 99 < 100 * q + 100
  BY <1>1, Quotient
<1>3. Due(b) = ((b.net + 99) \div 100) * 100
  BY DEF Due, Ceiling, Shilling
<1>4. QED
  BY <1>2, <1>3

\* Whatever is tendered, the gap is the rounding up of the total.
LEMMA GapIsRounding ==
  ASSUME NEW b \in Bill, NEW p \in Nat, b.net = b.revenue + b.vat - b.disc
  PROVE  /\ Gap(b, p) \in 0..(Shilling - 1) /\ Due(b) \in Nat
         /\ RoundingDr(b, p) = 0 /\ RoundingCr(b, p) = Gap(b, p)
         /\ Debits(b, p) \in Int /\ Credits(b, p) \in Int
         /\ Debits(b, p) + RoundingDr(b, p) = Credits(b, p) + RoundingCr(b, p)
<1>1. b.net \in Nat /\ b.revenue \in Nat /\ b.vat \in Nat /\ b.disc \in Nat /\ b.cost \in Nat
  BY DEF Bill
<1>2. Due(b) \in Nat /\ Due(b) - b.net \in 0..99
  BY <1>1, DueNat
<1>3. Gap(b, p) = Due(b) - b.net /\ Debits(b, p) \in Int /\ Credits(b, p) \in Int
  BY <1>1, <1>2 DEF Gap, Debits, Credits
<1>4. RoundingDr(b, p) = 0 /\ RoundingCr(b, p) = Gap(b, p)
  BY <1>2, <1>3 DEF RoundingDr, RoundingCr
<1>5. QED
  BY <1>2, <1>3, <1>4 DEF Gap, Shilling

-----------------------------------------------------------------------------
(* Type correctness.                                                       *)

LEMMA TypeInit == Init => TypeOK
BY TillConstantsOK DEF Init, TypeOK, Bill, NoBill

\* What a COMMIT makes visible is a receipt and amounts of money.
LEMMA PostTyped ==
  ASSUME TypeOK, NEW t \in Till, Post(t)
  PROVE  book' \subseteq [no : Nat, deal : Nat] /\ skew' \in Int /\ rounding' \in Nat
<1> DEFINE b == bill[t]
           p == paid[t]
<1>1. b \in Bill /\ p \in Nat /\ no[t] \in Nat /\ deal[t] \in Nat /\ skew \in Int /\ rounding \in Nat
  BY DEF TypeOK
<1>2. b.net \in Nat /\ b.revenue \in Nat /\ b.vat \in Nat /\ b.disc \in Nat /\ b.cost \in Nat
  BY <1>1 DEF Bill
<1>3. Due(b) \in Nat
  BY <1>2, DueNat
<1>4. Debits(b, p) \in Int /\ Credits(b, p) \in Int
  BY <1>1, <1>2, <1>3 DEF Debits, Credits
<1>5. RoundingDr(b, p) \in Nat /\ RoundingCr(b, p) \in Nat
  BY <1>4 DEF RoundingDr, RoundingCr, Gap
<1>6. [no |-> no[t], deal |-> deal[t]] \in [no : Nat, deal : Nat]
  BY <1>1
<1>7. book' \subseteq [no : Nat, deal : Nat]
  BY <1>6 DEF TypeOK, Post
<1>8. QED
  BY <1>1, <1>4, <1>5, <1>7 DEF Post

\* What a call that ends leaves of itself.
LEMMA ReturnedTyped ==
  ASSUME TypeOK, NEW t \in Till, Returned(t)
  PROVE  /\ at' \in [Till -> {"basket", "checked", "bumped", "numbered", "posting"}]
         /\ no' \in [Till -> Nat] /\ paid' \in [Till -> Nat]
BY DEF TypeOK, Returned

LEMMA NextBasketTyped ==
  ASSUME TypeOK, NEW t \in Till, NextBasket(t)
  PROVE  bill' \in [Till -> Bill]
<1>1. NoBill \in Bill
  BY DEF NoBill, Bill
<1>2. QED
  BY <1>1 DEF TypeOK, NextBasket

LEMMA TypeTill ==
  ASSUME TypeOK, NumberInv, NEW t \in Till, TillStep(t)
  PROVE  TypeOK'
<1>1. ASSUME NEW l \in Goods, AddLine(t, l)
      PROVE  TypeOK'
  <2>1. Plus(bill[t], l) \in Bill
    BY PlusKeeps DEF TypeOK
  <2>2. bill' \in [Till -> Bill]
    BY <1>1, <2>1 DEF TypeOK, AddLine
  <2>3. deal' \in [Till -> Nat] /\ deals' \in Nat
    BY <1>1 DEF TypeOK, AddLine
  <2>4. QED
    BY <1>1, <2>2, <2>3 DEF TypeOK, AddLine, bookVars
<1>2. ASSUME NEW o \in Over, Check(t, Due(bill[t]) + o)
      PROVE  TypeOK'
  <2>1. bill[t].net \in Nat /\ o \in Nat
    BY TillConstantsOK DEF TypeOK, Bill
  <2>2. Due(bill[t]) + o \in Nat
    BY <2>1, DueNat
  <2>3. paid' \in [Till -> Nat] /\ at' \in [Till -> {"basket", "checked", "bumped", "numbered", "posting"}]
    BY <1>2, <2>2 DEF TypeOK, Check
  <2>4. QED
    BY <1>2, <2>3 DEF TypeOK, Check, bookVars
<1>3. CASE BumpCounter(t)
  BY <1>3 DEF TypeOK, BumpCounter, bookVars
<1>4. CASE ReadCounter(t)
  BY <1>4 DEF TypeOK, ReadCounter, bookVars
<1>5. CASE InsertHeader(t)
  <2>1. /\ at' \in [Till -> {"basket", "checked", "bumped", "numbered", "posting"}]
        /\ no' \in [Till -> Nat] /\ paid' \in [Till -> Nat] /\ bill' = bill
    BY <1>5, ReturnedTyped DEF TypeOK, InsertHeader, KeepBasket
  <2>2. QED
    BY <1>5, <2>1 DEF TypeOK, InsertHeader, bookVars
<1>6. CASE Commit(t)
  <2>1. /\ at' \in [Till -> {"basket", "checked", "bumped", "numbered", "posting"}]
        /\ no' \in [Till -> Nat] /\ paid' \in [Till -> Nat] /\ bill' \in [Till -> Bill]
    BY <1>6, ReturnedTyped, NextBasketTyped DEF Commit, NextBasket
  <2>2. book' \subseteq [no : Nat, deal : Nat] /\ skew' \in Int /\ rounding' \in Nat
    BY <1>6, PostTyped DEF Commit
  <2>3. QED
    BY <1>6, <2>1, <2>2 DEF TypeOK, Commit
<1>7. CASE SaleFails(t)
  <2>1. /\ at' \in [Till -> {"basket", "checked", "bumped", "numbered", "posting"}]
        /\ no' \in [Till -> Nat] /\ paid' \in [Till -> Nat] /\ bill' \in [Till -> Bill]
    BY <1>7, ReturnedTyped, NextBasketTyped DEF TypeOK, SaleFails, NextBasket, KeepBasket
  <2>2. book' \subseteq [no : Nat, deal : Nat] /\ skew' \in Int /\ rounding' \in Nat
    BY <1>7, PostTyped DEF TypeOK, SaleFails, bookVars
  <2>3. counter' \in Nat /\ holder' \in Till \cup {Nobody}
    <3>1. CASE at[t] = "bumped"
      <4>1. holder = t /\ holder # Nobody
        BY <3>1, TillConstantsOK DEF NumberInv
      <4>2. counter > 0
        BY <4>1 DEF NumberInv
      <4>3. QED
        BY <1>7, <3>1, <4>2 DEF TypeOK, SaleFails
    <3>2. CASE at[t] # "bumped"
      BY <1>7, <3>2 DEF TypeOK, SaleFails
    <3>3. QED
      BY <3>1, <3>2
  <2>4. faults' \in 0..MaxFault
    BY <1>7, TillConstantsOK DEF TypeOK, SaleFails, Fault
  <2>5. QED
    BY <1>7, <2>1, <2>2, <2>3, <2>4 DEF TypeOK, SaleFails
<1>8. QED
  BY <1>1, <1>2, <1>3, <1>4, <1>5, <1>6, <1>7 DEF TillStep, Advance

LEMMA TypeNext == TypeOK /\ NumberInv /\ [Next]_vars => TypeOK'
<1> SUFFICES ASSUME TypeOK, NumberInv, [Next]_vars
             PROVE  TypeOK'
  OBVIOUS
<1>1. ASSUME NEW t \in Till, TillStep(t)
      PROVE  TypeOK'
  BY <1>1, TypeTill
<1>2. CASE LegacyRead
  BY <1>2 DEF TypeOK, LegacyRead, tillVars, bookVars
<1>3. CASE LegacyPrint
  <2>1. [no |-> legacy.read, deal |-> 0] \in [no : Nat, deal : Nat]
    BY DEF TypeOK
  <2>2. book' \subseteq [no : Nat, deal : Nat]
    BY <1>3, <2>1 DEF TypeOK, LegacyPrint
  <2>3. QED
    BY <1>3, <2>2 DEF TypeOK, LegacyPrint, tillVars
<1>4. CASE LockPeriod
  BY <1>4 DEF TypeOK, LockPeriod, tillVars, bookVars
<1>5. CASE UNCHANGED vars
  BY <1>5 DEF TypeOK, vars, tillVars, bookVars
<1>6. QED
  BY <1>1, <1>2, <1>3, <1>4, <1>5 DEF Next

-----------------------------------------------------------------------------
(* Receipt numbers.                                                        *)

LEMMA NumberInit == Init => NumberInv
BY TillConstantsOK DEF Init, NumberInv, NumbersDiffer, HasNumber

LEMMA NumberTill ==
  ASSUME TypeOK, NumberInv, NEW t \in Till, TillStep(t)
  PROVE  NumberInv'
<1> USE TillConstantsOK DEF NumberInv, NumbersDiffer, HasNumber, TypeOK
<1>1. ASSUME NEW l \in Goods, AddLine(t, l)
      PROVE  NumberInv'
  BY <1>1 DEF AddLine
<1>2. ASSUME NEW p, Check(t, p)
      PROVE  NumberInv'
  BY <1>2 DEF Check
<1>3. CASE BumpCounter(t)
  BY <1>3 DEF BumpCounter
<1>4. CASE ReadCounter(t)
  <2>1. holder = t /\ holder # Nobody /\ holder' = Nobody /\ counter' = counter
    BY <1>4 DEF ReadCounter
  <2>2. \A u \in Till \ {t} : at[u] # "bumped" /\ at'[u] = at[u] /\ no'[u] = no[u]
    BY <1>4, <2>1 DEF ReadCounter
  <2>3. at'[t] = "numbered" /\ no'[t] = counter
    BY <1>4 DEF ReadCounter
  <2>4. \A u \in Till \ {t} : HasNumber(u)' => no'[u] < counter
    BY <2>1, <2>2
  <2>5. QED
    BY <2>1, <2>2, <2>3, <2>4
<1>5. CASE InsertHeader(t)
  BY <1>5 DEF InsertHeader, KeepBasket, Returned
<1>6. CASE Commit(t)
  BY <1>6 DEF Commit, NextBasket, Returned
<1>7. CASE SaleFails(t)
  <2>1. at'[t] = "basket" /\ \A u \in Till \ {t} : at'[u] = at[u] /\ no'[u] = no[u]
    BY <1>7 DEF SaleFails, KeepBasket, NextBasket, Returned
  <2>2. CASE at[t] = "bumped"
    <3>1. holder = t /\ holder # Nobody /\ holder' = Nobody /\ counter' = counter - 1
      BY <1>7, <2>2 DEF SaleFails
    <3>2. QED
      BY <2>1, <3>1
  <2>3. CASE at[t] # "bumped"
    <3>1. holder # t /\ holder' = holder /\ counter' = counter
      BY <1>7, <2>3 DEF SaleFails
    <3>2. QED
      BY <2>1, <3>1
  <2>4. QED
    BY <2>2, <2>3
<1>8. QED
  BY <1>1, <1>2, <1>3, <1>4, <1>5, <1>6, <1>7 DEF TillStep, Advance

LEMMA NumberNext == TypeOK /\ NumberInv /\ [Next]_vars => NumberInv'
<1> SUFFICES ASSUME TypeOK, NumberInv, [Next]_vars
             PROVE  NumberInv'
  OBVIOUS
<1>1. ASSUME NEW t \in Till, TillStep(t)
      PROVE  NumberInv'
  BY <1>1, NumberTill
<1>2. CASE LegacyRead \/ LockPeriod \/ UNCHANGED vars
  BY <1>2 DEF NumberInv, NumbersDiffer, HasNumber, LegacyRead, LockPeriod, vars, tillVars, bookVars
<1>3. CASE LegacyPrint
  BY <1>3 DEF NumberInv, NumbersDiffer, HasNumber, LegacyPrint, tillVars, TypeOK
<1>4. QED
  BY <1>1, <1>2, <1>3 DEF Next

-----------------------------------------------------------------------------
(* The journal.                                                            *)

Sales(receipts) == {b \in receipts : b.deal # 0}

LEMMA MoneyInit == Init => MoneyInv
<1> SUFFICES ASSUME Init
             PROVE  MoneyInv
  OBVIOUS
<1>1. NoBill \in Bill /\ NoBill.net = NoBill.revenue + NoBill.vat - NoBill.disc /\ NoBill.lines = 0
  BY DEF NoBill, Bill
<1>2. Gap(NoBill, Due(NoBill)) \in 0..(Shilling - 1)
  <2>1. Due(NoBill) \in Nat
    BY <1>1, DueNat DEF Bill
  <2>2. QED
    BY <1>1, <2>1, GapIsRounding
<1>3. Sales(book) = {}
  BY DEF Init, Sales
<1>4. IsFiniteSet(book) /\ Receipts = 0
  BY <1>3, FS_EmptySet DEF Init, Receipts, Sales
<1>5. QED
  BY <1>1, <1>2, <1>4 DEF Init, MoneyInv, JournalBalances, Shilling

\* A sale that is made visible adds one receipt, of a new number, and less than a
\* shilling to the rounding.
LEMMA PostBalances ==
  ASSUME TypeOK, MoneyInv, NEW t \in Till, at[t] = "posting", Post(t)
  PROVE  /\ skew' = 0 /\ rounding' <= (Shilling - 1) * Receipts'
         /\ IsFiniteSet(book') /\ \A n : Taken(n)' => Taken(n) \/ n = no[t]
<1> DEFINE b == bill[t]
           p == paid[t]
           r == [no |-> no[t], deal |-> deal[t]]
<1>1. b \in Bill /\ p \in Nat /\ skew = 0 /\ rounding \in Nat /\ b.net = b.revenue + b.vat - b.disc
  BY DEF TypeOK, MoneyInv, JournalBalances
<1>2. /\ RoundingDr(b, p) = 0 /\ RoundingCr(b, p) \in 0..(Shilling - 1)
      /\ Debits(b, p) \in Int /\ Credits(b, p) \in Int
      /\ Debits(b, p) + RoundingDr(b, p) = Credits(b, p) + RoundingCr(b, p)
  <2> HIDE DEF b, p
  <2>1. QED
    BY <1>1, GapIsRounding
<1>3. /\ skew' = skew + (Debits(b, p) + RoundingDr(b, p)) - (Credits(b, p) + RoundingCr(b, p))
      /\ rounding' = rounding + RoundingDr(b, p) + RoundingCr(b, p)
  BY DEF Post
<1>4. skew' = 0 /\ rounding' <= rounding + (Shilling - 1)
  BY <1>1, <1>2, <1>3 DEF Shilling
<1>5. book' = book \cup {r} /\ r.deal # 0 /\ r.no = no[t]
  BY DEF Post, MoneyInv
<1>6. r \notin book
  BY DEF MoneyInv, Taken
<1>7. IsFiniteSet(Sales(book))
  <2>1. Sales(book) \subseteq book
    BY DEF Sales
  <2>2. QED
    BY <2>1, FS_Subset DEF MoneyInv
<1>8. Sales(book') = Sales(book) \cup {r} /\ r \notin Sales(book)
  BY <1>5, <1>6 DEF Sales
<1>9. Cardinality(Sales(book')) = Cardinality(Sales(book)) + 1 /\ Cardinality(Sales(book)) \in Nat
  <2> HIDE DEF r
  <2>1. QED
    BY <1>7, <1>8, FS_AddElement, FS_CardinalityType
<1>10. Receipts' = Receipts + 1 /\ Receipts \in Nat
  BY <1>9 DEF Receipts, Sales
<1>11. rounding <= (Shilling - 1) * Receipts
  BY DEF MoneyInv, JournalBalances
<1>12. rounding' <= (Shilling - 1) * Receipts'
  <2>1. rounding' \in Nat
    BY <1>1, <1>2, <1>3 DEF Shilling
  <2>2. QED
    BY <1>1, <1>4, <1>10, <1>11, <2>1 DEF Shilling
<1>13. IsFiniteSet(book')
  BY <1>5, FS_AddElement DEF MoneyInv
<1>14. \A n : Taken(n)' => Taken(n) \/ n = no[t]
  BY <1>5 DEF Taken
<1>15. QED
  BY <1>4, <1>12, <1>13, <1>14

\* What a basket comes to is all that matters of a till that has not posted.
LEMMA BillsBalance ==
  ASSUME NEW b \in Bill, b.net = b.revenue + b.vat - b.disc
  PROVE  Gap(b, Due(b)) \in 0..(Shilling - 1)
<1>1. Due(b) \in Nat
  BY DueNat DEF Bill
<1>2. QED
  BY <1>1, GapIsRounding

LEMMA ReturnedBills ==
  ASSUME TypeOK, MoneyInv, NEW t \in Till, KeepBasket(t) \/ NextBasket(t)
  PROVE  /\ \A u \in Till : bill'[u].net = bill'[u].revenue + bill'[u].vat - bill'[u].disc
         /\ \A u \in Till : at'[u] # "basket" \/ bill'[u].lines > 0 =>
              at[u] # "basket" \/ bill[u].lines > 0
         /\ \A u \in Till : at'[u] = "posting" => u # t /\ at[u] = "posting" /\ no'[u] = no[u]
         /\ \A u \in Till : Gap(bill'[u], Due(bill'[u])) \in 0..(Shilling - 1)
<1>1. NoBill \in Bill /\ NoBill.net = NoBill.revenue + NoBill.vat - NoBill.disc /\ NoBill.lines = 0
  BY DEF NoBill, Bill
<1>2. \A u \in Till : bill'[u] = bill[u] \/ bill'[u] = NoBill
  BY DEF KeepBasket, NextBasket, TypeOK
<1>3. \A u \in Till : bill'[u] \in Bill /\ bill'[u].net = bill'[u].revenue + bill'[u].vat - bill'[u].disc
  BY <1>1, <1>2 DEF TypeOK, MoneyInv
<1>4. /\ at'[t] = "basket"
      /\ \A u \in Till \ {t} : at'[u] = at[u] /\ no'[u] = no[u]
      /\ \A u \in Till : bill'[u].lines > 0 => bill[u].lines > 0
  BY <1>1, <1>2 DEF KeepBasket, NextBasket, Returned, TypeOK
<1>5. \A u \in Till : Gap(bill'[u], Due(bill'[u])) \in 0..(Shilling - 1)
  BY <1>3, BillsBalance
<1>6. QED
  BY <1>3, <1>4, <1>5

LEMMA MoneyTill ==
  ASSUME TypeOK, NumberInv, MoneyInv, NEW t \in Till, TillStep(t)
  PROVE  MoneyInv'
<1>1. ASSUME NEW l \in Goods, AddLine(t, l)
      PROVE  MoneyInv'
  <2>1. bill[t] \in Bill /\ deals \in Nat
    BY DEF TypeOK
  <2>2. /\ Plus(bill[t], l) \in Bill
        /\ Plus(bill[t], l).net = Plus(bill[t], l).revenue + Plus(bill[t], l).vat - Plus(bill[t], l).disc
    BY <2>1, PlusKeeps DEF MoneyInv
  <2>3. \A u \in Till : bill'[u] = IF u = t THEN Plus(bill[t], l) ELSE bill[u]
    BY <1>1 DEF AddLine, TypeOK
  <2>4. \A u \in Till : bill'[u] \in Bill /\ bill'[u].net = bill'[u].revenue + bill'[u].vat - bill'[u].disc
    BY <2>2, <2>3 DEF TypeOK, MoneyInv
  <2>5. \A u \in Till : Gap(bill'[u], Due(bill'[u])) \in 0..(Shilling - 1)
    BY <2>4, BillsBalance
  <2>6. deal'[t] # 0 /\ \A u \in Till \ {t} : deal'[u] = deal[u]
    <3>1. CASE bill[t].lines = 0
      BY <1>1, <3>1, <2>1 DEF AddLine, TypeOK
    <3>2. CASE bill[t].lines # 0
      <4>1. bill[t].lines > 0
        BY <3>2, <2>1 DEF Bill
      <4>2. QED
        BY <1>1, <3>2, <4>1 DEF AddLine, MoneyInv
    <3>3. QED
      BY <3>1, <3>2
  <2>7. \A u \in Till : at'[u] # "basket" \/ bill'[u].lines > 0 => deal'[u] # 0
    BY <1>1, <2>3, <2>6 DEF AddLine, MoneyInv
  <2>8. UNCHANGED <<at, no, book, skew, rounding>>
    BY <1>1 DEF AddLine, bookVars
  <2>9. QED
    BY <2>4, <2>5, <2>7, <2>8 DEF MoneyInv, JournalBalances, Taken, Receipts
<1>2. ASSUME NEW p, Check(t, p)
      PROVE  MoneyInv'
  <2>1. \A u \in Till : at'[u] # "basket" => at[u] # "basket" \/ bill[u].lines > 0
    BY <1>2 DEF Check, TypeOK
  <2>2. \A u \in Till : at'[u] = "posting" => at[u] = "posting"
    BY <1>2 DEF Check, TypeOK
  <2>3. QED
    BY <1>2, <2>1, <2>2 DEF Check, MoneyInv, JournalBalances, bookVars, Taken, Receipts
<1>3. CASE BumpCounter(t) \/ ReadCounter(t)
  <2>1. /\ at[t] # "basket"
        /\ \A u \in Till : at'[u] # "basket" => at[u] # "basket"
        /\ \A u \in Till : at'[u] = "posting" => at[u] = "posting" /\ no'[u] = no[u]
    BY <1>3 DEF BumpCounter, ReadCounter, TypeOK
  <2>2. UNCHANGED <<bill, deal, book, skew, rounding>>
    BY <1>3 DEF BumpCounter, ReadCounter, bookVars
  <2>3. QED
    BY <2>1, <2>2 DEF MoneyInv, JournalBalances, Taken, Receipts
<1>4. CASE InsertHeader(t)
  <2>1. CASE ~ Taken(no[t]) /\ at' = [at EXCEPT ![t] = "posting"] /\ UNCHANGED <<bill, no, paid>>
    <3>1. /\ \A u \in Till : at'[u] # "basket" => at[u] # "basket"
          /\ \A u \in Till : at'[u] = "posting" => at[u] = "posting" \/ ~ Taken(no[u])
      BY <1>4, <2>1 DEF InsertHeader, TypeOK
    <3>2. UNCHANGED <<bill, no, deal, book, skew, rounding>>
      BY <1>4, <2>1 DEF InsertHeader, bookVars
    <3>3. QED
      BY <3>1, <3>2 DEF MoneyInv, JournalBalances, Taken, Receipts
  <2>2. CASE KeepBasket(t)
    <3>1. UNCHANGED <<deal, book, skew, rounding>>
      BY <1>4 DEF InsertHeader, bookVars
    <3>2. QED
      BY <2>2, <3>1, ReturnedBills DEF MoneyInv, JournalBalances, Taken, Receipts
  <2>3. QED
    BY <1>4, <2>1, <2>2 DEF InsertHeader
<1>5. ASSUME at[t] = "posting", Post(t), KeepBasket(t) \/ NextBasket(t), UNCHANGED deal
      PROVE  MoneyInv'
  <2>1. /\ skew' = 0 /\ rounding' <= (Shilling - 1) * Receipts' /\ IsFiniteSet(book')
        /\ \A n : Taken(n)' => Taken(n) \/ n = no[t]
    BY <1>5, PostBalances
  <2>2. \A u \in Till : at'[u] = "posting" => no'[u] = no[u] /\ ~ Taken(no[u]) /\ no[u] # no[t]
    BY <1>5, ReturnedBills DEF MoneyInv, NumberInv, NumbersDiffer, HasNumber
  <2>3. \A u \in Till : at'[u] = "posting" => \A b \in book' : b.no # no'[u]
    BY <2>1, <2>2 DEF Taken
  <2>4. \A u \in Till : at'[u] # "basket" \/ bill'[u].lines > 0 => deal'[u] # 0
    BY <1>5, ReturnedBills DEF MoneyInv
  <2>5. \A u \in Till : /\ bill'[u].net = bill'[u].revenue + bill'[u].vat - bill'[u].disc
                        /\ Gap(bill'[u], Due(bill'[u])) \in 0..(Shilling - 1)
    BY <1>5, ReturnedBills
  <2>6. QED
    BY <2>1, <2>3, <2>4, <2>5 DEF MoneyInv, JournalBalances, Taken
<1>6. CASE Commit(t)
  BY <1>5, <1>6 DEF Commit
<1>7. CASE SaleFails(t)
  <2>1. CASE at[t] = "posting" /\ Post(t)
    BY <1>5, <1>7, <2>1 DEF SaleFails
  <2>2. CASE UNCHANGED bookVars
    <3>1. UNCHANGED <<deal, book, skew, rounding>> /\ (KeepBasket(t) \/ NextBasket(t))
      BY <1>7, <2>2 DEF SaleFails, bookVars
    <3>2. QED
      BY <3>1, ReturnedBills DEF MoneyInv, JournalBalances, Taken, Receipts
  <2>3. QED
    BY <1>7, <2>1, <2>2 DEF SaleFails
<1>8. QED
  BY <1>1, <1>2, <1>3, <1>4, <1>6, <1>7 DEF TillStep, Advance

LEMMA MoneyNext == TypeOK /\ NumberInv /\ MoneyInv /\ [Next]_vars => MoneyInv'
<1> SUFFICES ASSUME TypeOK, NumberInv, MoneyInv, [Next]_vars
             PROVE  MoneyInv'
  OBVIOUS
<1>1. ASSUME NEW t \in Till, TillStep(t)
      PROVE  MoneyInv'
  BY <1>1, MoneyTill
<1>2. CASE LegacyRead \/ LockPeriod \/ UNCHANGED vars
  <2>1. UNCHANGED <<tillVars, bookVars>>
    BY <1>2 DEF LegacyRead, LockPeriod, vars
  <2>2. QED
    BY <2>1 DEF MoneyInv, JournalBalances, Taken, Receipts, tillVars, bookVars
<1>3. CASE LegacyPrint
  <2>1. book' = book \/ book' = book \cup {[no |-> legacy.read, deal |-> 0]}
    BY <1>3 DEF LegacyPrint
  <2>2. UNCHANGED <<bill, at, deal, no, skew, rounding>>
    BY <1>3 DEF LegacyPrint, tillVars
  <2>3. IsFiniteSet(book')
    BY <2>1, FS_AddElement DEF MoneyInv
  <2>4. Receipts' = Receipts
    <3>1. {b \in book' : b.deal # 0} = {b \in book : b.deal # 0}
      BY <2>1
    <3>2. QED
      BY <3>1 DEF Receipts
  <2>5. \A t \in Till : at[t] = "posting" => no[t] # legacy.read
    BY <1>3 DEF LegacyPrint
  <2>6. \A t \in Till : at'[t] = "posting" => \A b \in book' : b.no # no'[t]
    BY <2>1, <2>2, <2>5 DEF Taken, MoneyInv
  <2>7. QED
    BY <2>2, <2>3, <2>4, <2>6 DEF MoneyInv, JournalBalances, Taken
<1>4. QED
  BY <1>1, <1>2, <1>3 DEF Next

-----------------------------------------------------------------------------
LEMMA SaleSafe == Spec => [](TypeOK /\ SaleInv)
<1>1. Init => TypeOK /\ SaleInv
  BY TypeInit, NumberInit, MoneyInit DEF SaleInv
<1>2. TypeOK /\ SaleInv /\ [Next]_vars => (TypeOK /\ SaleInv)'
  BY TypeNext, NumberNext, MoneyNext DEF SaleInv
<1>3. QED
  BY <1>1, <1>2, PTL DEF Spec

\* Every reachable state of the tills is well typed.
THEOREM TypeCorrect == Spec => []TypeOK
BY SaleSafe, PTL

\* Two new tills never hold the same receipt number (the UPDATE of nauto that locks
\* the row until the number is read, nextNumber in fumas-core).
THEOREM TillNumbersDiffer == Spec => []NumbersDiffer
<1>1. SaleInv => NumbersDiffer
  BY DEF SaleInv, NumberInv
<1>2. QED
  BY <1>1, SaleSafe, PTL

\* The new till's entries balance to the cent, whatever is sold, at whatever tax, and
\* whatever fails; a receipt costs less than a shilling of rounding, and no basket is
\* refused as out of balance (buildGlLegs and balanceWithRounding).
THEOREM EntriesBalance == Spec => []JournalBalances
<1>1. SaleInv => JournalBalances
  BY DEF SaleInv, MoneyInv
<1>2. QED
  BY <1>1, SaleSafe, PTL

-----------------------------------------------------------------------------
(* The line.                                                               *)

\* Objects in good order: none has calls waiting that names no database, and of
\* no two calls the one makes the other wrong.
Tidy(d) ==
  /\ d \in Seq(Object) /\ d # <<>>
  /\ \A g \in DOMAIN d : d[g].base = Nothing => d[g].line = <<>>
  /\ Alone(d)

LEMMA Stands ==
  ASSUME NEW d, NEW x
  PROVE  x \in Said(d) <=> \E g \in DOMAIN d : \E i \in DOMAIN d[g].line : x = <<d[g].base, d[g].line[i]>>
BY DEF Said

LEMMA SaidThere ==
  ASSUME NEW d, NEW g \in DOMAIN d, NEW i \in DOMAIN d[g].line
  PROVE  <<d[g].base, d[g].line[i]>> \in Said(d)
BY Stands

LEMMA TidyParts ==
  ASSUME NEW d, Tidy(d)
  PROVE  /\ Len(d) \in Nat \ {0} /\ DOMAIN d = 1..Len(d)
         /\ Len(d) \in DOMAIN d
         /\ \A g \in DOMAIN d : /\ d[g] \in Object /\ d[g].line \in Seq(Call)
                                /\ d[g].base \in Base \cup {Nothing}
                                /\ Len(d[g].line) \in Nat /\ DOMAIN d[g].line = 1..Len(d[g].line)
<1>1. d \in Seq(Object) /\ d # <<>>
  BY DEF Tidy
<1>2. Len(d) \in Nat \ {0} /\ DOMAIN d = 1..Len(d) /\ Len(d) \in DOMAIN d
  BY <1>1, EmptySeq, LenProperties
<1>3. ASSUME NEW g \in DOMAIN d
      PROVE  /\ d[g] \in Object /\ d[g].line \in Seq(Call)
             /\ d[g].base \in Base \cup {Nothing}
             /\ Len(d[g].line) \in Nat /\ DOMAIN d[g].line = 1..Len(d[g].line)
  <2>1. d[g] \in Object
    BY <1>1, <1>2, ElementOfSeq
  <2>2. d[g].line \in Seq(Call) /\ d[g].base \in Base \cup {Nothing}
    BY <2>1 DEF Object
  <2>3. QED
    BY <2>1, <2>2, LenProperties
<1>4. QED
  BY <1>2, <1>3

LEMMA SaidTyped ==
  ASSUME NEW d, Tidy(d), NEW x \in Said(d)
  PROVE  x[1] \in Base /\ x[2] \in Call /\ x = <<x[1], x[2]>>
<1>1. PICK g \in DOMAIN d : \E i \in DOMAIN d[g].line : x = <<d[g].base, d[g].line[i]>>
  BY Stands
<1>2. PICK i \in DOMAIN d[g].line : x = <<d[g].base, d[g].line[i]>>
  BY <1>1
<1>3. d[g].line \in Seq(Call) /\ d[g].base \in Base \cup {Nothing}
  BY TidyParts
<1>4. d[g].line[i] \in Call
  BY <1>3
<1>5. d[g].line # <<>>
  BY <1>2, <1>3, EmptySeq, LenProperties
<1>6. d[g].base # Nothing
  BY <1>5 DEF Tidy
<1>7. QED
  BY <1>2, <1>3, <1>4, <1>6

\* The objects with one call more at the end of a line; an object of no database
\* yet may be given one.
Longer(d, n, b, c) == [d EXCEPT ![n] = [base |-> b, line |-> Append(d[n].line, c), ahead |-> d[n].ahead]]

LEMMA OneMore ==
  ASSUME NEW d, Tidy(d), NEW n \in DOMAIN d, NEW b \in Base, d[n].base \in {b, Nothing},
         NEW c \in Call, \A x \in Said(d) : Apart(c, x[2])
  PROVE  /\ Tidy(Longer(d, n, b, c))
         /\ Len(Longer(d, n, b, c)) = Len(d)
         /\ Longer(d, n, b, c)[n].base = b
         /\ \A g \in DOMAIN d : g # n => Longer(d, n, b, c)[g] = d[g]
         /\ Said(Longer(d, n, b, c)) = Said(d) \cup {<<b, c>>}
<1> DEFINE o == d[n]
           w == [base |-> b, line |-> Append(o.line, c), ahead |-> o.ahead]
           e == [d EXCEPT ![n] = w]
<1>1. Len(d) \in Nat \ {0} /\ DOMAIN d = 1..Len(d) /\ n \in DOMAIN d /\ o \in Object
      /\ o.line \in Seq(Call) /\ o.base \in Base \cup {Nothing}
  BY TidyParts
<1>2. Nothing \notin Base
  BY DeskConstantsOK
<1>3. Longer(d, n, b, c) = e
  BY DEF Longer
<1>5. /\ Append(o.line, c) \in Seq(Call) /\ Len(Append(o.line, c)) = Len(o.line) + 1
      /\ \A i \in DOMAIN o.line : Append(o.line, c)[i] = o.line[i]
      /\ Append(o.line, c)[Len(o.line) + 1] = c
      /\ DOMAIN Append(o.line, c) = 1..(Len(o.line) + 1)
      /\ DOMAIN o.line = 1..Len(o.line) /\ Len(o.line) \in Nat
  BY <1>1
<1>6. w \in Object
  BY <1>1, <1>5 DEF Object
<1>7. /\ e \in Seq(Object) /\ e # <<>> /\ Len(e) = Len(d) /\ DOMAIN e = DOMAIN d
      /\ e[n] = w /\ \A g \in DOMAIN d : g # n => e[g] = d[g]
  <2>1. d \in Seq(Object)
    BY DEF Tidy
  <2>2. e \in Seq(Object) /\ Len(e) = Len(d)
    BY <2>1, <1>1, <1>6, ExceptSeq
  <2>3. QED
    BY <2>2, <1>1, EmptySeq
<1> HIDE DEF e, w
<1>8. w.base = b /\ w.line = Append(o.line, c)
  BY DEF w
<1>9. o.base = Nothing => DOMAIN o.line = {}
  <2>1. o.base = Nothing => o.line = <<>>
    BY <1>1 DEF Tidy
  <2>2. QED
    BY <2>1, <1>5
<1>10. o.base # Nothing => b = o.base
  OBVIOUS
<1>11. Said(e) = Said(d) \cup {<<b, c>>}
  <2>1. ASSUME NEW x \in Said(e)
        PROVE  x \in Said(d) \cup {<<b, c>>}
    <3>1. PICK g \in DOMAIN e : \E i \in DOMAIN e[g].line : x = <<e[g].base, e[g].line[i]>>
      BY <2>1, Stands
    <3>2. PICK i \in DOMAIN e[g].line : x = <<e[g].base, e[g].line[i]>>
      BY <3>1
    <3>3. CASE g # n
      <4>1. e[g] = d[g] /\ g \in DOMAIN d
        BY <3>3, <1>7
      <4>2. QED
        BY <4>1, <3>2, SaidThere
    <3>4. CASE g = n /\ i \in DOMAIN o.line
      <4>1. o.base = b
        BY <3>4, <1>9, <1>10
      <4>2. x = <<o.base, o.line[i]>>
        BY <4>1, <3>4, <3>2, <1>7, <1>8, <1>5
      <4>3. QED
        BY <4>2, <3>4, <1>1, SaidThere
    <3>5. CASE g = n /\ i \notin DOMAIN o.line
      <4>1. i = Len(o.line) + 1
        BY <3>5, <3>2, <1>7, <1>8, <1>5
      <4>2. QED
        BY <4>1, <3>5, <3>2, <1>7, <1>8, <1>5
    <3>6. QED
      BY <3>3, <3>4, <3>5
  <2>2. ASSUME NEW x \in Said(d)
        PROVE  x \in Said(e)
    <3>1. PICK g \in DOMAIN d : \E i \in DOMAIN d[g].line : x = <<d[g].base, d[g].line[i]>>
      BY <2>2, Stands
    <3>2. PICK i \in DOMAIN d[g].line : x = <<d[g].base, d[g].line[i]>>
      BY <3>1
    <3>3. CASE g # n
      BY <3>3, <3>2, <1>7, SaidThere
    <3>4. CASE g = n
      <4>1. e[g].base = d[g].base /\ i \in DOMAIN e[g].line /\ e[g].line[i] = d[g].line[i]
        BY <3>4, <3>2, <1>5, <1>7, <1>8, <1>9, <1>10
      <4>2. QED
        BY <4>1, <3>2, <1>7, SaidThere
    <3>5. QED
      BY <3>3, <3>4
  <2>3. <<b, c>> \in Said(e)
    <3>1. n \in DOMAIN e /\ Len(o.line) + 1 \in DOMAIN e[n].line
          /\ <<e[n].base, e[n].line[Len(o.line) + 1]>> = <<b, c>>
      BY <1>1, <1>5, <1>7, <1>8
    <3>2. QED
      BY <3>1, SaidThere
  <2>4. QED
    BY <2>1, <2>2, <2>3
<1>12. \A g \in DOMAIN e : e[g].base = Nothing => e[g].line = <<>>
  BY <1>2, <1>7, <1>8 DEF Tidy
<1>13. Alone(e)
  <2> SUFFICES ASSUME NEW g \in DOMAIN e, NEW h \in DOMAIN e,
                      NEW i \in DOMAIN e[g].line, NEW j \in DOMAIN e[h].line,
                      <<g, i>> # <<h, j>>
               PROVE  Apart(e[g].line[i], e[h].line[j])
    BY DEF Alone
  <2>1. ASSUME NEW k \in DOMAIN e, NEW m \in DOMAIN e[k].line
        PROVE  \/ k = n /\ m = Len(o.line) + 1 /\ e[k].line[m] = c
               \/ k \in DOMAIN d /\ m \in DOMAIN d[k].line /\ e[k].line[m] = d[k].line[m]
    <3>1. CASE k # n
      BY <3>1, <1>7
    <3>2. CASE k = n
      BY <3>2, <2>1, <1>7, <1>8, <1>5, <1>1
    <3>3. QED
      BY <3>1, <3>2
  <2>2. ASSUME NEW k \in DOMAIN d, NEW m \in DOMAIN d[k].line
        PROVE  Apart(c, d[k].line[m]) /\ Apart(d[k].line[m], c)
    <3>1. <<d[k].base, d[k].line[m]>> \in Said(d)
      BY SaidThere
    <3>2. Apart(c, d[k].line[m])
      BY <3>1
    <3>3. QED
      BY <3>2 DEF Apart
  <2>3. CASE g \in DOMAIN d /\ i \in DOMAIN d[g].line /\ e[g].line[i] = d[g].line[i]
    <3>1. CASE h \in DOMAIN d /\ j \in DOMAIN d[h].line /\ e[h].line[j] = d[h].line[j]
      BY <3>1, <2>3 DEF Tidy, Alone
    <3>2. CASE h = n /\ j = Len(o.line) + 1 /\ e[h].line[j] = c
      BY <3>2, <2>2, <2>3
    <3>3. QED
      BY <2>1, <3>1, <3>2
  <2>4. CASE g = n /\ i = Len(o.line) + 1 /\ e[g].line[i] = c
    <3>1. CASE h \in DOMAIN d /\ j \in DOMAIN d[h].line /\ e[h].line[j] = d[h].line[j]
      BY <3>1, <2>2, <2>4
    <3>2. CASE h = n /\ j = Len(o.line) + 1 /\ e[h].line[j] = c
      BY <3>2, <2>4
    <3>3. QED
      BY <2>1, <3>1, <3>2
  <2>5. QED
    BY <2>1, <2>3, <2>4
<1>14. Tidy(e)
  BY <1>7, <1>12, <1>13 DEF Tidy
<1>15. e[n].base = b
  BY <1>7, <1>8
<1>16. QED
  BY <1>3, <1>7, <1>11, <1>14, <1>15

\* database(): what asking for something more does to the objects.
LEMMA PutIn ==
  ASSUME conf \in Base, NEW d, Tidy(d), NEW c \in Call,
         \A x \in Said(d) : Apart(c, x[2])
  PROVE  /\ Tidy(Put(d, c))
         /\ Len(Put(d, c)) = Len(d)
         /\ \E b \in Base : /\ b = IF d[Len(d)].base = Nothing THEN conf ELSE d[Len(d)].base
                            /\ Put(d, c)[Len(d)].base = b
                            /\ Said(Put(d, c)) = Said(d) \cup {<<b, c>>}
<1> DEFINE n == Len(d)
           b == IF d[n].base = Nothing THEN conf ELSE d[n].base
<1>1. n \in DOMAIN d /\ d[n] \in Object /\ d[n].base \in Base \cup {Nothing}
  BY TidyParts
<1>2. b \in Base /\ d[n].base \in {b, Nothing}
  BY <1>1
<1>3. Put(d, c) = Longer(d, n, b, c)
  <2>1. d[n] = [base |-> d[n].base, line |-> d[n].line, ahead |-> d[n].ahead]
    BY <1>1 DEF Object
  <2>2. Put(d, c) = [d EXCEPT ![n].line = Append(@, c), ![n].base = IF @ = Nothing THEN conf ELSE @]
    BY DEF Put
  <2>3. QED
    BY <2>1, <2>2, <1>1 DEF Longer
<1>4. b = IF d[Len(d)].base = Nothing THEN conf ELSE d[Len(d)].base
  OBVIOUS
<1> HIDE DEF b, n
<1>5. /\ Tidy(Longer(d, n, b, c)) /\ Len(Longer(d, n, b, c)) = Len(d)
      /\ Longer(d, n, b, c)[n].base = b
      /\ Said(Longer(d, n, b, c)) = Said(d) \cup {<<b, c>>}
  BY <1>1, <1>2, OneMore
<1>6. n = Len(d)
  BY DEF n
<1>7. QED
  BY <1>2, <1>3, <1>4, <1>5, <1>6

\* What the head of a line leaves behind.
LEMMA MovingOn ==
  ASSUME Tidy(desk), NEW g \in DOMAIN desk, desk[g].line # <<>>
  PROVE  /\ Tidy(MovedOn(g)) /\ Len(MovedOn(g)) = Len(desk)
         /\ \A h \in DOMAIN desk : MovedOn(g)[h].base = desk[h].base
         /\ desk[g].base \in Base /\ Head1(g) \in Call
         /\ Said(desk) = Said(MovedOn(g)) \cup {<<desk[g].base, Head1(g)>>}
         /\ \A x \in Said(MovedOn(g)) : Apart(Head1(g), x[2])
<1> DEFINE o == desk[g]
           a == IF o.ahead > 0 THEN o.ahead - 1 ELSE o.ahead
           w == [base |-> o.base, line |-> Tail(o.line), ahead |-> a]
           e == [desk EXCEPT ![g] = w]
<1>1. Len(desk) \in Nat \ {0} /\ DOMAIN desk = 1..Len(desk) /\ o \in Object
      /\ o.line \in Seq(Call) /\ o.base \in Base \cup {Nothing}
  BY TidyParts
<1>2. o = [base |-> o.base, line |-> o.line, ahead |-> o.ahead] /\ o.ahead \in Nat \cup {-1}
  BY <1>1 DEF Object
<1>3. MovedOn(g) = e
  <2>1. MovedOn(g) = [desk EXCEPT ![g] = [o EXCEPT !.line = Tail(o.line), !.ahead = a]]
    BY <1>1 DEF MovedOn
  <2>2. [o EXCEPT !.line = Tail(o.line), !.ahead = a] = w
    <3>1. PICK bb \in Base \cup {Nothing}, ll \in Seq(Call), aa \in Nat \cup {-1} :
            o = [base |-> bb, line |-> ll, ahead |-> aa]
      BY <1>1 DEF Object
    <3> HIDE DEF o, a
    <3>2. ASSUME NEW t, NEW q
          PROVE  [o EXCEPT !.line = t, !.ahead = q] = [base |-> bb, line |-> t, ahead |-> q]
      <4>1. [o EXCEPT !.line = t] = [base |-> bb, line |-> t, ahead |-> aa]
        BY <3>1
      <4>2. [o EXCEPT !.line = t, !.ahead = q] = [[o EXCEPT !.line = t] EXCEPT !.ahead = q]
        OBVIOUS
      <4>3. [[base |-> bb, line |-> t, ahead |-> aa] EXCEPT !.ahead = q] = [base |-> bb, line |-> t, ahead |-> q]
        OBVIOUS
      <4>4. QED
        BY <4>1, <4>2, <4>3
    <3>3. o.base = bb
      BY <3>1
    <3>4. QED
      BY <3>2, <3>3
  <2>3. QED
    BY <2>1, <2>2
<1>4. /\ Tail(o.line) \in Seq(Call) /\ Len(o.line) \in Nat \ {0} /\ Len(Tail(o.line)) = Len(o.line) - 1
      /\ DOMAIN o.line = 1..Len(o.line) /\ DOMAIN Tail(o.line) = 1..(Len(o.line) - 1)
      /\ \A i \in DOMAIN Tail(o.line) : i + 1 \in DOMAIN o.line /\ Tail(o.line)[i] = o.line[i + 1]
      /\ o.line[1] = Head1(g) /\ 1 \in DOMAIN o.line /\ o.line[1] \in Call
  <2>1. /\ Tail(o.line) \in Seq(Call) /\ Len(Tail(o.line)) = Len(o.line) - 1
        /\ \A i \in 1..Len(Tail(o.line)) : Tail(o.line)[i] = o.line[i + 1]
        /\ Head(o.line) \in Call
    BY <1>1, HeadTailProperties
  <2>2. Len(o.line) \in Nat \ {0} /\ DOMAIN o.line = 1..Len(o.line) /\ Head(o.line) = o.line[1]
    BY <1>1, EmptySeq, LenProperties
  <2>3. DOMAIN Tail(o.line) = 1..(Len(o.line) - 1)
    BY <2>1, LenProperties
  <2>4. QED
    BY <2>1, <2>2, <2>3 DEF Head1
<1>5. o.base \in Base
  BY <1>1 DEF Tidy
<1>6. w \in Object
  BY <1>2, <1>4, <1>5 DEF Object
<1>7. /\ e \in Seq(Object) /\ e # <<>> /\ Len(e) = Len(desk) /\ DOMAIN e = DOMAIN desk
      /\ e[g] = w /\ \A h \in DOMAIN desk : h # g => e[h] = desk[h]
  <2>1. desk \in Seq(Object)
    BY DEF Tidy
  <2>2. e \in Seq(Object) /\ Len(e) = Len(desk)
    BY <2>1, <1>1, <1>6, ExceptSeq
  <2>3. QED
    BY <2>2, <1>1, EmptySeq
<1> HIDE DEF e, w
<1>8. w.base = o.base /\ w.line = Tail(o.line)
  BY DEF w
<1>9. ASSUME NEW h \in DOMAIN e, NEW i \in DOMAIN e[h].line
      PROVE  /\ h \in DOMAIN desk /\ e[h].base = desk[h].base
             /\ \/ h # g /\ i \in DOMAIN desk[h].line /\ e[h].line[i] = desk[h].line[i]
                \/ h = g /\ i + 1 \in DOMAIN desk[h].line /\ e[h].line[i] = desk[h].line[i + 1]
                   /\ i \in 1..(Len(o.line) - 1)
  BY <1>4, <1>7, <1>8
<1>10. ASSUME NEW x \in Said(e)
       PROVE  x \in Said(desk) /\ Apart(Head1(g), x[2])
  <2>1. PICK h \in DOMAIN e : \E i \in DOMAIN e[h].line : x = <<e[h].base, e[h].line[i]>>
    BY Stands
  <2>2. PICK i \in DOMAIN e[h].line : x = <<e[h].base, e[h].line[i]>>
    BY <2>1
  <2>3. PICK j \in DOMAIN desk[h].line : e[h].line[i] = desk[h].line[j] /\ <<h, j>> # <<g, 1>>
    BY <1>9, <1>4
  <2>4. h \in DOMAIN desk /\ x = <<desk[h].base, desk[h].line[j]>>
    BY <2>2, <2>3, <1>9
  <2>5. x \in Said(desk)
    BY <2>4, SaidThere
  <2>6. Apart(desk[g].line[1], desk[h].line[j])
    BY <2>3, <2>4, <1>4 DEF Tidy, Alone
  <2>7. QED
    BY <2>4, <2>5, <2>6, <1>4
<1>11. ASSUME NEW x \in Said(desk)
       PROVE  x \in Said(e) \cup {<<desk[g].base, Head1(g)>>}
  <2>1. PICK h \in DOMAIN desk : \E i \in DOMAIN desk[h].line : x = <<desk[h].base, desk[h].line[i]>>
    BY Stands
  <2>2. PICK i \in DOMAIN desk[h].line : x = <<desk[h].base, desk[h].line[i]>>
    BY <2>1
  <2>3. CASE h # g
    BY <2>3, <2>2, <1>7, SaidThere
  <2>4. CASE h = g /\ i = 1
    BY <2>4, <2>2, <1>4
  <2>5. CASE h = g /\ i # 1
    <3>1. i - 1 \in DOMAIN e[h].line /\ e[h].line[i - 1] = desk[h].line[i] /\ e[h].base = desk[h].base
      <4>1. i - 1 \in DOMAIN Tail(o.line)
        BY <2>5, <2>2, <1>4
      <4>2. Tail(o.line)[i - 1] = o.line[(i - 1) + 1]
        BY <4>1, <1>4
      <4>3. (i - 1) + 1 = i
        BY <2>5, <2>2, <1>4
      <4>4. QED
        BY <4>1, <4>2, <4>3, <2>5, <1>7, <1>8
    <3>2. <<e[h].base, e[h].line[i - 1]>> \in Said(e)
      BY <3>1, <1>7, SaidThere
    <3>3. QED
      BY <3>1, <3>2, <2>2
  <2>6. QED
    BY <2>3, <2>4, <2>5
<1>12. <<desk[g].base, Head1(g)>> \in Said(desk)
  <2>1. <<desk[g].base, desk[g].line[1]>> \in Said(desk)
    BY <1>4, SaidThere
  <2>2. QED
    BY <2>1, <1>4
<1>13. Alone(e)
  <2> SUFFICES ASSUME NEW h \in DOMAIN e, NEW k \in DOMAIN e,
                      NEW i \in DOMAIN e[h].line, NEW j \in DOMAIN e[k].line,
                      <<h, i>> # <<k, j>>
               PROVE  Apart(e[h].line[i], e[k].line[j])
    BY DEF Alone
  <2>1. PICK m \in DOMAIN desk[h].line : /\ e[h].line[i] = desk[h].line[m]
                                         /\ m = IF h = g THEN i + 1 ELSE i
    BY <1>9
  <2>2. PICK n \in DOMAIN desk[k].line : /\ e[k].line[j] = desk[k].line[n]
                                         /\ n = IF k = g THEN j + 1 ELSE j
    BY <1>9
  <2>3. <<h, m>> # <<k, n>>
    <3>1. CASE h = g /\ k = g
      <4>1. i \in 1..(Len(o.line) - 1) /\ j \in 1..(Len(o.line) - 1)
        BY <3>1, <1>4, <1>7, <1>8
      <4>2. i # j /\ m = i + 1 /\ n = j + 1
        BY <3>1, <2>1, <2>2
      <4>3. QED
        BY <4>1, <4>2, <1>4
    <3>2. CASE ~ (h = g /\ k = g)
      BY <3>2, <2>1, <2>2
    <3>3. QED
      BY <3>1, <3>2
  <2>4. h \in DOMAIN desk /\ k \in DOMAIN desk
    BY <1>7
  <2>5. Apart(desk[h].line[m], desk[k].line[n])
    BY <2>3, <2>4 DEF Tidy, Alone
  <2>6. QED
    BY <2>1, <2>2, <2>5
<1>14. \A h \in DOMAIN e : e[h].base = Nothing => e[h].line = <<>>
  <2>1. Nothing \notin Base
    BY DeskConstantsOK
  <2>2. QED
    BY <2>1, <1>5, <1>7, <1>8 DEF Tidy
<1>15. Tidy(e)
  BY <1>7, <1>13, <1>14 DEF Tidy
<1>16. \A h \in DOMAIN desk : e[h].base = desk[h].base
  BY <1>7, <1>8
<1>17. QED
  BY <1>3, <1>4, <1>5, <1>7, <1>10, <1>11, <1>12, <1>15, <1>16

LEMMA Calls ==
  ASSUME NEW c \in Call
  PROVE  /\ c = [op |-> c.op, arg |-> c.arg, turn |-> c.turn, live |-> c.live]
         /\ c.turn \in Nat /\ c.live \in BOOLEAN
         /\ c.op \in AppOps \cup ScreenOps
         /\ c.op \in AppOps => c.arg \in User
         /\ c.op = "receipt" => c.arg \in 0..MaxSale
         /\ c.op \in Panel => c.arg \in Key \cup {Nothing}
         /\ c.op = "cost" => c.arg \in [item : Nat, seen : SUBSET Nat]
         /\ c.op = "sale" => c.arg \in Drafts
<1> USE DEF Asking, AppOps, ScreenOps, Panel
<1>1. CASE c \in Asking({"login", "rights"}, User)
  BY <1>1
<1>2. CASE c \in Asking({"receipt"}, 0..MaxSale)
  BY <1>2
<1>3. CASE c \in Asking(Panel, Key \cup {Nothing})
  BY <1>3
<1>4. CASE c \in Asking({"cost"}, [item : Nat, seen : SUBSET Nat])
  BY <1>4
<1>5. CASE c \in Asking({"sale"}, Drafts)
  BY <1>5
<1>6. QED
  BY <1>1, <1>2, <1>3, <1>4, <1>5 DEF Call

LEMMA AskingOf ==
  ASSUME NEW op, NEW arg, NEW turn \in Nat, NEW live \in BOOLEAN,
         \/ op \in AppOps /\ arg \in User
         \/ op = "receipt" /\ arg \in 0..MaxSale
         \/ op \in Panel /\ arg \in Key \cup {Nothing}
         \/ op = "cost" /\ arg \in [item : Nat, seen : SUBSET Nat]
         \/ op = "sale" /\ arg \in Drafts
  PROVE  [op |-> op, arg |-> arg, turn |-> turn, live |-> live] \in Call
BY DEF Call, Asking, AppOps

\* A call with another statement goes to the end of the line it came from.
LEMMA GoingOn ==
  ASSUME Tidy(desk), NEW g \in DOMAIN desk, desk[g].line # <<>>, NEW arg,
         \/ Head1(g).op = "receipt" /\ arg \in 0..MaxSale
         \/ Head1(g).op = "sale" /\ arg \in Drafts
  PROVE  /\ Tidy(Again(g, arg)) /\ Len(Again(g, arg)) = Len(desk)
         /\ \A h \in DOMAIN desk : Again(g, arg)[h].base = desk[h].base
         /\ Said(Again(g, arg)) =
              Said(MovedOn(g)) \cup
                {<<desk[g].base, [op |-> Head1(g).op, arg |-> arg,
                                  turn |-> Head1(g).turn + 1, live |-> Head1(g).live]>>}
<1> DEFINE d == MovedOn(g)
           h1 == Head1(g)
           b == desk[g].base
           c == [op |-> h1.op, arg |-> arg, turn |-> h1.turn + 1, live |-> h1.live]
<1>1. /\ Tidy(d) /\ Len(d) = Len(desk)
      /\ \A h \in DOMAIN desk : d[h].base = desk[h].base
      /\ b \in Base /\ h1 \in Call
      /\ \A x \in Said(d) : Apart(h1, x[2])
  BY MovingOn
<1>2. h1.turn \in Nat /\ h1.live \in BOOLEAN /\ h1 = [op |-> h1.op, arg |-> h1.arg, turn |-> h1.turn, live |-> h1.live]
  BY <1>1, Calls
<1>3. c \in Call
  <2>1. h1.turn + 1 \in Nat
    BY <1>2
  <2>2. QED
    BY <2>1, <1>2, AskingOf
<1>4. [h1 EXCEPT !.arg = arg, !.turn = @ + 1] = c
  <2>1. PICK o, a, t, l : /\ h1 = [op |-> o, arg |-> a, turn |-> t, live |-> l]
                          /\ o = h1.op /\ t = h1.turn /\ l = h1.live
    BY <1>2
  <2> HIDE DEF h1
  <2>2. [h1 EXCEPT !.arg = arg, !.turn = @ + 1] = [[h1 EXCEPT !.arg = arg] EXCEPT !.turn = t + 1]
    BY <2>1
  <2>3. [h1 EXCEPT !.arg = arg] = [op |-> o, arg |-> arg, turn |-> t, live |-> l]
    BY <2>1
  <2>4. [[op |-> o, arg |-> arg, turn |-> t, live |-> l] EXCEPT !.turn = t + 1]
        = [op |-> o, arg |-> arg, turn |-> t + 1, live |-> l]
    OBVIOUS
  <2>5. QED
    BY <2>1, <2>2, <2>3, <2>4
<1>5. g \in DOMAIN d /\ DOMAIN d = DOMAIN desk /\ d[g] \in Object /\ d[g].base = b
  BY <1>1, TidyParts
<1>6. Again(g, arg) = Longer(d, g, b, c)
  <2>1. Again(g, arg) = [d EXCEPT ![g].line = Append(@, c)]
    BY <1>4 DEF Again
  <2>2. d[g] = [base |-> d[g].base, line |-> d[g].line, ahead |-> d[g].ahead]
    BY <1>5 DEF Object
  <2> HIDE DEF d, c, b
  <2>3. QED
    BY <2>1, <2>2, <1>5 DEF Longer
<1>7. \A x \in Said(d) : Apart(c, x[2])
  <2>1. c.op = h1.op /\ c.live = h1.live /\ h1.op # "cost"
    OBVIOUS
  <2> HIDE DEF c, h1, d
  <2>2. QED
    BY <2>1, <1>1 DEF Apart
<1> HIDE DEF c, d, h1
<1>8. /\ Tidy(Longer(d, g, b, c)) /\ Len(Longer(d, g, b, c)) = Len(d)
      /\ Longer(d, g, b, c)[g].base = b
      /\ \A h \in DOMAIN d : h # g => Longer(d, g, b, c)[h] = d[h]
      /\ Said(Longer(d, g, b, c)) = Said(d) \cup {<<b, c>>}
  BY <1>1, <1>3, <1>5, <1>7, OneMore
<1>9. QED
  BY <1>1, <1>5, <1>6, <1>8 DEF c, d, h1

\* Calls nobody listens to any more stay where they are.
LEMMA Dropping ==
  ASSUME NEW d, Tidy(d), NEW ops
  PROVE  /\ Tidy(Dropped(d, ops)) /\ Len(Dropped(d, ops)) = Len(d)
         /\ \A g \in DOMAIN d : Dropped(d, ops)[g].base = d[g].base
         /\ \A x \in Said(d) : x[2].op \notin ops => x \in Said(Dropped(d, ops))
         /\ \A x \in Said(Dropped(d, ops)) :
              \E y \in Said(d) :
                /\ x[1] = y[1] /\ x[2].op = y[2].op /\ x[2].arg = y[2].arg /\ x[2].turn = y[2].turn
                /\ x[2].live => y[2].live /\ y[2].op \notin ops
<1> DEFINE e == Dropped(d, ops)
           Mute(c) == Muted(c, ops)
<1>1. ASSUME NEW c \in Call
      PROVE  /\ Mute(c) = [op |-> c.op, arg |-> c.arg, turn |-> c.turn, live |-> (c.live /\ c.op \notin ops)]
             /\ Mute(c) \in Call
  <2>1. /\ c = [op |-> c.op, arg |-> c.arg, turn |-> c.turn, live |-> c.live]
        /\ c.turn \in Nat
    BY Calls
  <2>2. Mute(c) = [op |-> c.op, arg |-> c.arg, turn |-> c.turn, live |-> (c.live /\ c.op \notin ops)]
    BY <2>1 DEF Muted
  <2>3. \/ c.op \in AppOps /\ c.arg \in User
        \/ c.op = "receipt" /\ c.arg \in 0..MaxSale
        \/ c.op \in Panel /\ c.arg \in Key \cup {Nothing}
        \/ c.op = "cost" /\ c.arg \in [item : Nat, seen : SUBSET Nat]
        \/ c.op = "sale" /\ c.arg \in Drafts
    BY Calls DEF AppOps, ScreenOps
  <2>4. (c.live /\ c.op \notin ops) \in BOOLEAN
    OBVIOUS
  <2>5. [op |-> c.op, arg |-> c.arg, turn |-> c.turn, live |-> (c.live /\ c.op \notin ops)] \in Call
    BY <2>1, <2>3, <2>4, AskingOf
  <2>6. QED
    BY <2>2, <2>5
<1>2. /\ Len(d) \in Nat \ {0} /\ DOMAIN d = 1..Len(d)
      /\ \A g \in DOMAIN d : /\ d[g] \in Object /\ d[g].line \in Seq(Call)
                             /\ d[g].base \in Base \cup {Nothing}
                             /\ Len(d[g].line) \in Nat /\ DOMAIN d[g].line = 1..Len(d[g].line)
  BY TidyParts
<1>3. e = [g \in DOMAIN d |-> [d[g] EXCEPT !.line = [i \in DOMAIN d[g].line |-> Mute(d[g].line[i])]]]
  BY <1>2 DEF Dropped
<1> HIDE DEF e, Mute
<1>4. ASSUME NEW g \in DOMAIN d
      PROVE  /\ e[g] \in Object /\ e[g].base = d[g].base
             /\ DOMAIN e[g].line = DOMAIN d[g].line /\ Len(e[g].line) = Len(d[g].line)
             /\ \A i \in DOMAIN d[g].line : e[g].line[i] = Mute(d[g].line[i])
  <2> DEFINE f == [i \in 1..Len(d[g].line) |-> Mute(d[g].line[i])]
  <2>1. \A i \in 1..Len(d[g].line) : Mute(d[g].line[i]) \in Call
    BY <1>1, <1>2
  <2>2. f \in Seq(Call)
    BY <2>1, <1>2, IsASeq
  <2>3. DOMAIN f = 1..Len(d[g].line) /\ Len(f) = Len(d[g].line)
    BY <2>2, <1>2, LenProperties
  <2>4. e[g] = [d[g] EXCEPT !.line = f]
    BY <1>2, <1>3
  <2>5. \A i \in 1..Len(d[g].line) : f[i] = Mute(d[g].line[i])
    OBVIOUS
  <2> HIDE DEF f
  <2>6. e[g] = [base |-> d[g].base, line |-> f, ahead |-> d[g].ahead]
    <3>1. d[g] = [base |-> d[g].base, line |-> d[g].line, ahead |-> d[g].ahead]
      BY <1>2 DEF Object
    <3>2. QED
      BY <3>1, <2>4
  <2>7. e[g] \in Object
    BY <2>2, <2>6, <1>2 DEF Object
  <2>8. QED
    BY <2>3, <2>5, <2>6, <2>7, <1>2
<1>5. e \in Seq(Object) /\ Len(e) = Len(d) /\ DOMAIN e = DOMAIN d /\ e # <<>>
  <2>1. DOMAIN e = 1..Len(d) /\ e = [g \in 1..Len(d) |-> e[g]]
    BY <1>2, <1>3
  <2>2. \A g \in 1..Len(d) : e[g] \in Object
    BY <1>2, <1>4
  <2>3. e \in Seq(Object)
    BY <2>1, <2>2, <1>2, IsASeq
  <2>4. Len(e) = Len(d)
    BY <2>1, <2>3, <1>2, LenProperties
  <2>5. QED
    BY <2>1, <2>3, <2>4, <1>2, EmptySeq
<1>6. ASSUME NEW g \in DOMAIN d, NEW i \in DOMAIN d[g].line
      PROVE  /\ d[g].line[i] \in Call
             /\ e[g].line[i].op = d[g].line[i].op /\ e[g].line[i].arg = d[g].line[i].arg
             /\ e[g].line[i].turn = d[g].line[i].turn
             /\ e[g].line[i].live <=> d[g].line[i].live /\ d[g].line[i].op \notin ops
             /\ d[g].line[i].op \notin ops => e[g].line[i] = d[g].line[i]
  <2>1. d[g].line[i] \in Call
    BY <1>2
  <2>2. PICK c : c = d[g].line[i]
    OBVIOUS
  <2>3. Mute(c) = [op |-> c.op, arg |-> c.arg, turn |-> c.turn, live |-> (c.live /\ c.op \notin ops)]
    BY <2>1, <2>2, <1>1
  <2>4. c = [op |-> c.op, arg |-> c.arg, turn |-> c.turn, live |-> c.live] /\ c.live \in BOOLEAN
    BY <2>1, <2>2, Calls
  <2>5. e[g].line[i] = Mute(c)
    BY <2>2, <1>4
  <2>6. Mute(c).op = c.op /\ Mute(c).arg = c.arg /\ Mute(c).turn = c.turn
        /\ Mute(c).live = (c.live /\ c.op \notin ops)
    BY <2>3
  <2>7. c.op \notin ops => Mute(c) = c
    <3> SUFFICES ASSUME c.op \notin ops
                 PROVE  Mute(c) = c
      OBVIOUS
    <3>1. (c.live /\ c.op \notin ops) = c.live
      BY <2>4
    <3>2. Mute(c) = [op |-> c.op, arg |-> c.arg, turn |-> c.turn, live |-> c.live]
      BY <3>1, <2>3
    <3>3. QED
      BY <3>2, <2>4
  <2>8. QED
    BY <2>1, <2>2, <2>5, <2>6, <2>7
<1>7. \A x \in Said(d) : x[2].op \notin ops => x \in Said(e)
  <2> SUFFICES ASSUME NEW x \in Said(d), x[2].op \notin ops
               PROVE  x \in Said(e)
    OBVIOUS
  <2>1. PICK g \in DOMAIN d : \E i \in DOMAIN d[g].line : x = <<d[g].base, d[g].line[i]>>
    BY Stands
  <2>2. PICK i \in DOMAIN d[g].line : x = <<d[g].base, d[g].line[i]>>
    BY <2>1
  <2>3. x = <<e[g].base, e[g].line[i]>> /\ g \in DOMAIN e /\ i \in DOMAIN e[g].line
    BY <2>2, <1>4, <1>5, <1>6
  <2>4. QED
    BY <2>3, SaidThere
<1>8. ASSUME NEW x \in Said(e)
      PROVE  \E y \in Said(d) :
               /\ x[1] = y[1] /\ x[2].op = y[2].op /\ x[2].arg = y[2].arg /\ x[2].turn = y[2].turn
               /\ x[2].live => y[2].live /\ y[2].op \notin ops
  <2>1. PICK g \in DOMAIN e : \E i \in DOMAIN e[g].line : x = <<e[g].base, e[g].line[i]>>
    BY Stands
  <2>2. PICK i \in DOMAIN e[g].line : x = <<e[g].base, e[g].line[i]>>
    BY <2>1
  <2>3. g \in DOMAIN d /\ i \in DOMAIN d[g].line
    BY <2>2, <1>4, <1>5
  <2>4. <<d[g].base, d[g].line[i]>> \in Said(d)
    BY <2>3, SaidThere
  <2>5. QED
    BY <2>2, <2>3, <2>4, <1>4, <1>6
<1>9. Alone(e)
  <2> SUFFICES ASSUME NEW g \in DOMAIN e, NEW h \in DOMAIN e,
                      NEW i \in DOMAIN e[g].line, NEW j \in DOMAIN e[h].line,
                      <<g, i>> # <<h, j>>
               PROVE  Apart(e[g].line[i], e[h].line[j])
    BY DEF Alone
  <2>1. g \in DOMAIN d /\ h \in DOMAIN d /\ i \in DOMAIN d[g].line /\ j \in DOMAIN d[h].line
    BY <1>4, <1>5
  <2>2. Apart(d[g].line[i], d[h].line[j])
    BY <2>1 DEF Tidy, Alone
  <2>3. QED
    BY <2>1, <2>2, <1>6 DEF Apart
<1>10. \A g \in DOMAIN e : e[g].base = Nothing => e[g].line = <<>>
  <2> SUFFICES ASSUME NEW g \in DOMAIN e, e[g].base = Nothing
               PROVE  e[g].line = <<>>
    OBVIOUS
  <2>1. g \in DOMAIN d /\ d[g].line = <<>>
    BY <1>4, <1>5 DEF Tidy
  <2>2. Len(d[g].line) = 0
    BY <2>1
  <2>3. e[g].line \in Seq(Call) /\ Len(e[g].line) = 0
    BY <2>1, <2>2, <1>4 DEF Object
  <2>4. QED
    BY <2>3, EmptySeq
<1>11. Tidy(e)
  BY <1>5, <1>9, <1>10 DEF Tidy
<1>12. \A g \in DOMAIN d : e[g].base = d[g].base
  BY <1>4
<1>13. QED
  BY <1>5, <1>7, <1>8, <1>11, <1>12 DEF e

\* resetDatabase(): an object to be made anew names no database.
LEMMA LetGo ==
  ASSUME NEW d, Tidy(d), Len(d) = Len(desk)
  PROVE  /\ Tidy(Reset(d)) /\ Said(Reset(d)) = Said(d)
         /\ Reset(d)[Len(Reset(d))].base = Nothing
<1> DEFINE n == Len(d)
<1>1. /\ n \in Nat \ {0} /\ DOMAIN d = 1..n /\ n \in DOMAIN d
      /\ \A g \in DOMAIN d : /\ d[g] \in Object /\ d[g].line \in Seq(Call)
                             /\ d[g].base \in Base \cup {Nothing}
                             /\ Len(d[g].line) \in Nat
  BY TidyParts
<1>2. CASE d[n].base = Nothing
  BY <1>2 DEF Reset, Now
<1>3. CASE d[n].base # Nothing
  <2> DEFINE w == [base |-> d[n].base, line |-> d[n].line, ahead |-> Len(d[n].line)]
             c == [d EXCEPT ![n] = w]
             e == Append(c, NewDesk)
  <2>1. Reset(d) = e
    <3>1. d[n] = [base |-> d[n].base, line |-> d[n].line, ahead |-> d[n].ahead]
      BY <1>1 DEF Object
    <3>2. Reset(d) = Append([d EXCEPT ![n].ahead = Len(d[n].line)], NewDesk)
      BY <1>1, <1>3 DEF Reset, Now
    <3>3. [d EXCEPT ![n].ahead = Len(d[n].line)] = c
      <4>1. [d EXCEPT ![n].ahead = Len(d[n].line)] = [d EXCEPT ![n] = [d[n] EXCEPT !.ahead = Len(d[n].line)]]
        BY <1>1
      <4>2. [d[n] EXCEPT !.ahead = Len(d[n].line)] = w
        BY <3>1
      <4>3. QED
        BY <4>1, <4>2
    <3>4. QED
      BY <3>2, <3>3
  <2>2. w \in Object
    BY <1>1 DEF Object
  <2>3. d \in Seq(Object)
    BY DEF Tidy
  <2>4. c \in Seq(Object) /\ Len(c) = n
    BY <2>2, <2>3, <1>1, ExceptSeq
  <2>5. NewDesk \in Object
    <3>1. <<>> \in Seq(Call)
      BY EmptySeq
    <3>2. QED
      BY <3>1 DEF NewDesk, Object
  <2>6. /\ DOMAIN c = DOMAIN d
        /\ \A g \in DOMAIN d : c[g].base = d[g].base /\ c[g].line = d[g].line
    BY <1>1
  <2> HIDE DEF c, w
  <2>7. /\ e \in Seq(Object) /\ Len(e) = n + 1 /\ e # <<>>
        /\ \A g \in 1..n : e[g] = c[g]
        /\ e[n + 1] = NewDesk /\ DOMAIN e = 1..(n + 1)
    BY <2>4, <2>5, <1>1
  <2>8. /\ \A g \in DOMAIN d : g \in DOMAIN e /\ e[g].base = d[g].base /\ e[g].line = d[g].line
        /\ \A g \in DOMAIN e : g = n + 1 \/ g \in DOMAIN d
        /\ e[n + 1].base = Nothing /\ e[n + 1].line = <<>> /\ DOMAIN e[n + 1].line = {}
    <3>1. NewDesk.base = Nothing /\ NewDesk.line = <<>>
      BY DEF NewDesk
    <3>2. QED
      BY <3>1, <2>6, <2>7, <1>1, EmptySeq
  <2> HIDE DEF e
  <2>9. Said(e) = Said(d)
    <3>1. ASSUME NEW x \in Said(e)
          PROVE  x \in Said(d)
      <4>1. PICK g \in DOMAIN e : \E i \in DOMAIN e[g].line : x = <<e[g].base, e[g].line[i]>>
        BY Stands
      <4>2. PICK i \in DOMAIN e[g].line : x = <<e[g].base, e[g].line[i]>>
        BY <4>1
      <4>3. g \in DOMAIN d
        BY <4>2, <2>8
      <4>4. x = <<d[g].base, d[g].line[i]>> /\ i \in DOMAIN d[g].line
        BY <4>2, <4>3, <2>8
      <4>5. QED
        BY <4>3, <4>4, SaidThere
    <3>2. ASSUME NEW x \in Said(d)
          PROVE  x \in Said(e)
      <4>1. PICK g \in DOMAIN d : \E i \in DOMAIN d[g].line : x = <<d[g].base, d[g].line[i]>>
        BY Stands
      <4>2. PICK i \in DOMAIN d[g].line : x = <<d[g].base, d[g].line[i]>>
        BY <4>1
      <4>3. g \in DOMAIN e /\ x = <<e[g].base, e[g].line[i]>> /\ i \in DOMAIN e[g].line
        BY <4>2, <2>8
      <4>4. QED
        BY <4>3, SaidThere
    <3>3. QED
      BY <3>1, <3>2
  <2>10. Alone(e)
    <3> SUFFICES ASSUME NEW g \in DOMAIN e, NEW h \in DOMAIN e,
                        NEW i \in DOMAIN e[g].line, NEW j \in DOMAIN e[h].line,
                        <<g, i>> # <<h, j>>
                 PROVE  Apart(e[g].line[i], e[h].line[j])
      BY DEF Alone
    <3>1. g \in DOMAIN d /\ h \in DOMAIN d
      BY <2>8
    <3>2. e[g].line = d[g].line /\ e[h].line = d[h].line
      BY <3>1, <2>8
    <3>3. QED
      BY <3>1, <3>2 DEF Tidy, Alone
  <2>11. \A g \in DOMAIN e : e[g].base = Nothing => e[g].line = <<>>
    BY <2>8 DEF Tidy
  <2>12. Tidy(e)
    BY <2>7, <2>10, <2>11 DEF Tidy
  <2>13. QED
    BY <2>1, <2>7, <2>8, <2>9, <2>12
<1>4. QED
  BY <1>2, <1>3

-----------------------------------------------------------------------------
(* What keeps each part of the invariant.                                  *)

\* The same call, to which perhaps nobody listens any more.
Of(x, y) ==
  /\ x[1] = y[1] /\ x[2].op = y[2].op /\ x[2].arg = y[2].arg /\ x[2].turn = y[2].turn
  /\ x[2].live => y[2].live

\* Every call of these kinds was in line before.
Still(ops, before, after) == \A x \in after : x[2].op \in ops => \E y \in before : Of(x, y)

\* An object to come names the database the settings name.
Newest(d, b) == d[Len(d)].base \in {Nothing, b}

LEMMA TidyDesk ==
  ASSUME DeskTypeOK, LineInv
  PROVE  Tidy(desk) /\ (Newest(desk, conf) \/ unsaved)
BY DEF Tidy, DeskTypeOK, LineInv, Newest, Now

LEMMA LineKept ==
  ASSUME Tidy(desk'), Newest(desk', conf') \/ unsaved'
  PROVE  LineInv' /\ desk' \in Seq(Object) /\ desk' # <<>>
BY DEF Tidy, LineInv, Newest, Now

LEMMA LoginKept ==
  ASSUME LoginInv, Still({"login"}, Said(desk), Said(desk')),
         UNCHANGED <<session, who>>, screen' = "login" <=> screen = "login"
  PROVE  LoginInv'
BY DEF LoginInv, Still, Of

\* A sale in line stays as its receipt must be.
LEMMA DraftStays ==
  ASSUME DeskTypeOK, Tidy(desk), NEW x, NEW y \in Said(desk), DraftOK(y), Of(x, y), y[2].op = "sale",
         UNCHANGED number, hasty \subseteq hasty', customer' \in Nat, customer <= customer',
         x[2].live => busy'
  PROVE  DraftOK(x)'
<1>1. y[2].arg.customer \in Nat
  <2>1. y[2] \in Call
    BY SaidTyped
  <2>2. y[2].arg \in Drafts
    BY <2>1, Calls
  <2>3. QED
    BY <2>2 DEF Drafts
<1>2. customer \in Nat
  BY DEF DeskTypeOK
<1>3. y[2].arg.customer <= customer'
  BY <1>1, <1>2 DEF DraftOK
<1>4. AsPressed(y[1], y[2].arg)'
  BY <1>2 DEF DraftOK, AsPressed
<1>5. AsPressed(x[1], x[2].arg)'
  BY <1>4 DEF Of, AsPressed
<1>6. x[2].turn = 3 => x[2].arg.no \in 1..number'[x[1]]
  BY DEF DraftOK, Of
<1>7. QED
  BY <1>3, <1>5, <1>6 DEF DraftOK, Of

LEMMA DraftKept ==
  ASSUME DraftInv, DeskTypeOK, Still({"sale"}, Said(desk), Said(desk')),
         UNCHANGED number, hasty \subseteq hasty', customer' \in Nat, customer <= customer',
         Tidy(desk),
         busy' = busy \/ \A x \in Said(desk') : ~ (x[2].op = "sale" /\ x[2].live)
  PROVE  DraftInv'
<1> SUFFICES ASSUME NEW x \in Said(desk'), x[2].op = "sale"
             PROVE  DraftOK(x)'
  BY DEF DraftInv
<1>1. PICK y \in Said(desk) : Of(x, y)
  BY DEF Still
<1>2. DraftOK(y) /\ y[2].op = "sale"
  BY <1>1 DEF DraftInv, Of
<1>3. x[2].live => busy'
  BY <1>1, <1>2 DEF DraftOK, Of
<1>4. QED
  BY <1>1, <1>2, <1>3, DraftStays

LEMMA BasketKept ==
  ASSUME BasketInv, Still({"cost"}, Said(desk), Said(desk')),
         \A y \in Said(desk) : Picked(y[2]) => y \in Said(desk'),
         UNCHANGED <<cart, busy, done, tapped, hasty, taps>>
  PROVE  BasketInv'
<1>1. ASSUME NEW x \in Said(desk'), Picked(x[2])
      PROVE  \E y \in Said(desk) : Picked(y[2]) /\ y[2].arg = x[2].arg
  BY <1>1 DEF Still, Of, Picked
<1>2. \A x \in Said(desk') : Picked(x[2]) => x[2].arg.item \in (1..taps) \ cart
  BY <1>1 DEF BasketInv
<1>3. QED
  BY <1>1, <1>2 DEF BasketInv

LEMMA BasketLeft ==
  ASSUME cart' = {}, tapped' = {}, \A x \in Said(desk') : ~ Picked(x[2])
  PROVE  BasketInv'
BY DEF BasketInv

LEMMA BookKept ==
  ASSUME BookInv, DeskTypeOK, UNCHANGED <<booked, number>>, hasty \subseteq hasty'
  PROVE  BookInv'
BY DEF BookInv, BookedAsPressed, PicksReachTheReceipt

\* The calls the invariant speaks of.
Watched == {"login", "sale", "cost"}

\* Objects whose lines hold no more of these than before, and as many items on their way.
Follows(d, e) ==
  /\ Tidy(e) /\ Len(e) = Len(d)
  /\ Newest(d, conf) => Newest(e, conf)
  /\ Still(Watched, Said(d), Said(e))
  /\ \A y \in Said(d) : Picked(y[2]) => y \in Said(e)

LEMMA FollowsOn ==
  ASSUME NEW d, NEW e, NEW f, Follows(d, e), Follows(e, f)
  PROVE  Follows(d, f)
<1>1. Still(Watched, Said(d), Said(f))
  BY DEF Follows, Still, Of
<1>2. QED
  BY <1>1 DEF Follows

LEMMA AskedIdly ==
  ASSUME conf \in Base, NEW d, Tidy(d), NEW op, NEW arg,
         \/ op = "rights" /\ arg \in User
         \/ op = "receipt" /\ arg \in 0..MaxSale
         \/ op \in Panel /\ arg \in Key \cup {Nothing}
  PROVE  Follows(d, Asked(d, op, arg))
<1> DEFINE c == [op |-> op, arg |-> arg, turn |-> 1, live |-> TRUE]
<1>1. c \in Call
  BY AskingOf DEF AppOps
<1>2. op \notin Watched /\ c.op = op
  BY DEF Watched, Panel
<1> HIDE DEF c
<1>3. \A x \in Said(d) : Apart(c, x[2])
  BY <1>2 DEF Apart, Watched
<1>4. /\ Tidy(Put(d, c)) /\ Len(Put(d, c)) = Len(d)
      /\ \E b \in Base : /\ b = IF d[Len(d)].base = Nothing THEN conf ELSE d[Len(d)].base
                         /\ Put(d, c)[Len(d)].base = b
                         /\ Said(Put(d, c)) = Said(d) \cup {<<b, c>>}
  BY <1>1, <1>3, PutIn
<1>5. Newest(d, conf) => Newest(Put(d, c), conf)
  BY <1>4 DEF Newest
<1>6. Still(Watched, Said(d), Said(Put(d, c)))
  BY <1>2, <1>4 DEF Still, Of
<1>7. Put(d, c) = Asked(d, op, arg)
  BY DEF Asked, c
<1>8. QED
  BY <1>4, <1>5, <1>6, <1>7 DEF Follows

LEMMA DroppedIdly ==
  ASSUME NEW d, Tidy(d), NEW ops, "cost" \notin ops
  PROVE  Follows(d, Dropped(d, ops))
<1>1. /\ Tidy(Dropped(d, ops)) /\ Len(Dropped(d, ops)) = Len(d)
      /\ \A g \in DOMAIN d : Dropped(d, ops)[g].base = d[g].base
      /\ \A x \in Said(d) : x[2].op \notin ops => x \in Said(Dropped(d, ops))
      /\ \A x \in Said(Dropped(d, ops)) :
           \E y \in Said(d) :
             /\ x[1] = y[1] /\ x[2].op = y[2].op /\ x[2].arg = y[2].arg /\ x[2].turn = y[2].turn
             /\ x[2].live => y[2].live /\ y[2].op \notin ops
  BY Dropping
<1>2. Len(d) \in DOMAIN d
  BY TidyParts
<1>3. Newest(d, conf) => Newest(Dropped(d, ops), conf)
  BY <1>1, <1>2 DEF Newest
<1>4. Still(Watched, Said(d), Said(Dropped(d, ops)))
  BY <1>1 DEF Still, Of
<1>5. QED
  BY <1>1, <1>3, <1>4 DEF Follows, Picked

LEMMA LoadedIdly ==
  ASSUME conf \in Base, NEW d, Tidy(d), NEW p \in Panel, NEW k \in Key \cup {Nothing}
  PROVE  Follows(d, Loaded(d, p, k))
<1>1. Follows(d, Dropped(d, {p}))
  BY DroppedIdly DEF Panel
<1>2. Tidy(Dropped(d, {p}))
  BY <1>1 DEF Follows
<1>3. Follows(Dropped(d, {p}), Asked(Dropped(d, {p}), p, k))
  BY <1>2, AskedIdly
<1>4. QED
  BY <1>1, <1>3, FollowsOn DEF Loaded

LEMMA MovedOnIdly ==
  ASSUME Tidy(desk), NEW g \in DOMAIN desk, desk[g].line # <<>>, ~ Picked(Head1(g))
  PROVE  Follows(desk, MovedOn(g))
<1>1. /\ Tidy(MovedOn(g)) /\ Len(MovedOn(g)) = Len(desk)
      /\ \A h \in DOMAIN desk : MovedOn(g)[h].base = desk[h].base
      /\ Said(desk) = Said(MovedOn(g)) \cup {<<desk[g].base, Head1(g)>>}
  BY MovingOn
<1>2. Len(desk) \in DOMAIN desk
  BY TidyParts
<1>3. Newest(desk, conf) => Newest(MovedOn(g), conf)
  BY <1>1, <1>2 DEF Newest
<1>4. Still(Watched, Said(desk), Said(MovedOn(g)))
  BY <1>1 DEF Still, Of
<1>5. QED
  BY <1>1, <1>3, <1>4 DEF Follows

LEMMA ReceiptGoesOn ==
  ASSUME Tidy(desk), NEW g \in DOMAIN desk, desk[g].line # <<>>, Head1(g).op = "receipt"
  PROVE  Follows(desk, Again(g, Head1(g).arg))
<1> DEFINE e == Again(g, Head1(g).arg)
<1>1. /\ Tidy(MovedOn(g))
      /\ Said(desk) = Said(MovedOn(g)) \cup {<<desk[g].base, Head1(g)>>}
      /\ Head1(g) \in Call
  BY MovingOn
<1>2. Head1(g).arg \in 0..MaxSale
  BY <1>1, Calls
<1>3. /\ Tidy(e) /\ Len(e) = Len(desk)
      /\ \A h \in DOMAIN desk : e[h].base = desk[h].base
      /\ \E c : c.op = "receipt" /\ Said(e) = Said(MovedOn(g)) \cup {<<desk[g].base, c>>}
  <2>1. PICK c : c = [op |-> Head1(g).op, arg |-> Head1(g).arg,
                      turn |-> Head1(g).turn + 1, live |-> Head1(g).live]
    OBVIOUS
  <2>2. c.op = "receipt"
    BY <2>1
  <2>3. QED
    BY <2>1, <2>2, <1>2, GoingOn
<1> HIDE DEF e
<1>4. Len(desk) \in DOMAIN desk
  BY TidyParts
<1>5. Newest(desk, conf) => Newest(e, conf)
  BY <1>3, <1>4 DEF Newest
<1>6. Still(Watched, Said(desk), Said(e))
  BY <1>1, <1>3 DEF Still, Of, Watched
<1>7. \A y \in Said(desk) : Picked(y[2]) => y \in Said(e)
  BY <1>1, <1>3 DEF Picked
<1>8. QED
  BY <1>3, <1>5, <1>6, <1>7 DEF Follows, e

LEMMA FollowsItself ==
  ASSUME Tidy(desk)
  PROVE  Follows(desk, desk)
BY DEF Follows, Still, Of

Parts == LineInv /\ LoginInv /\ DraftInv /\ BasketInv /\ BookInv

\* A step that only asks for figures or receipts, or answers such a question.
LEMMA QuietStep ==
  ASSUME DeskInv, Follows(desk, desk'), screen' = "login" <=> screen = "login",
         UNCHANGED <<session, conf, unsaved, who, booked, number, cart, busy, done, tapped, hasty,
                     customer, taps>>
  PROVE  Parts' /\ desk' \in Seq(Object) /\ desk' # <<>>
<1> USE DEF DeskInv
<1>1. Tidy(desk) /\ (Newest(desk, conf) \/ unsaved)
  BY TidyDesk
<1>2. Tidy(desk') /\ (Newest(desk', conf') \/ unsaved')
  BY <1>1 DEF Follows
<1>3. Still({"login"}, Said(desk), Said(desk')) /\ Still({"sale"}, Said(desk), Said(desk'))
      /\ Still({"cost"}, Said(desk), Said(desk'))
  BY DEF Follows, Still, Watched
<1>4. customer \in Nat /\ customer <= customer
  BY DEF DeskTypeOK
<1>5. LineInv' /\ desk' \in Seq(Object) /\ desk' # <<>>
  BY <1>2, LineKept
<1>6. LoginInv'
  BY <1>3, LoginKept
<1>7. DraftInv'
  BY <1>1, <1>3, <1>4, DraftKept
<1>8. BasketInv'
  BY <1>3, BasketKept DEF Follows
<1>9. BookInv'
  BY <1>4, BookKept
<1>10. QED
  BY <1>5, <1>6, <1>7, <1>8, <1>9 DEF Parts

PanelType == [Panel -> [key : Key \cup {Nothing}, shows : Key \cup {Nothing},
                        loading : BOOLEAN, error : BOOLEAN]]

LEMMA QuietKept ==
  ASSUME DeskInv, Follows(desk, desk'),
         UNCHANGED <<mainVars, who, screen, bookedVars, sellVars, counterVars, taps, mishaps>>,
         allowed' \subseteq Gated, panel' \in PanelType, receipt' \in 0..MaxSale,
         sales' \in Nat, asks' \in Nat, saves' \in Nat
  PROVE  DeskInv'
<1> USE DEF mainVars, bookedVars, sellVars, counterVars
<1>1. Parts' /\ desk' \in Seq(Object) /\ desk' # <<>>
  BY QuietStep
<1>2. DeskTypeOK'
  BY <1>1 DEF DeskInv, DeskTypeOK, PanelType
<1>3. QED
  BY <1>1, <1>2 DEF DeskInv, Parts

LEMMA PanelTyped ==
  ASSUME NEW pan \in PanelType, NEW p \in Panel, NEW k \in Key \cup {Nothing}
  PROVE  Loading(pan, p, k) \in PanelType /\ NoPanel \in PanelType
<1>1. [pan[p] EXCEPT !.key = k, !.loading = TRUE, !.error = FALSE]
        \in [key : Key \cup {Nothing}, shows : Key \cup {Nothing}, loading : BOOLEAN, error : BOOLEAN]
  BY DEF PanelType
<1>2. Loading(pan, p, k) \in PanelType
  BY <1>1 DEF PanelType, Loading
<1>3. NoPanel \in PanelType
  BY DEF PanelType, NoPanel
<1>4. QED
  BY <1>2, <1>3

LEMMA RightsKept ==
  ASSUME DeskInv, NEW g \in DOMAIN desk, RightsAnswered(g)
  PROVE  DeskInv'
<1> USE DEF mainVars, bookedVars, appVars, sellVars, counterVars, boundVars
<1>1. Tidy(desk)
  BY TidyDesk DEF DeskInv
<1>2. desk[g].line # <<>> /\ Head1(g).op = "rights"
  BY DEF RightsAnswered, Runs
<1>3. Follows(desk, desk')
  BY <1>1, <1>2, MovedOnIdly DEF RightsAnswered, Picked
<1>4. allowed' \subseteq Gated
  <2>1. Head1(g) \in Call
    BY <1>1, <1>2, MovingOn
  <2>2. Head1(g).arg \in User
    BY <2>1, <1>2, Calls DEF AppOps
  <2>3. QED
    BY <2>2, DeskConstantsOK DEF RightsAnswered
<1>5. QED
  BY <1>3, <1>4, QuietKept DEF RightsAnswered, DeskInv, DeskTypeOK, PanelType

LEMMA LoadKept ==
  ASSUME DeskInv, NEW p \in Panel, NEW k \in Key \cup {Nothing}, Load(p, k)
  PROVE  DeskInv'
<1> USE DEF mainVars, bookedVars, appVars, sellVars, counterVars, boundVars
<1>1. Tidy(desk) /\ conf \in Base /\ panel \in PanelType
  BY TidyDesk DEF DeskInv, DeskTypeOK, PanelType
<1>2. Follows(desk, desk')
  BY <1>1, LoadedIdly DEF Load
<1>3. panel' \in PanelType
  BY <1>1, PanelTyped DEF Load
<1>4. asks' \in Nat
  BY DEF DeskInv, DeskTypeOK, Load, Press
<1>5. QED
  BY <1>2, <1>3, <1>4, QuietKept DEF Load, DeskInv, DeskTypeOK

LEMMA ChooseDayKept ==
  ASSUME DeskInv, NEW k \in Key, ChooseDay(k)
  PROVE  DeskInv'
<1> USE DEF mainVars, bookedVars, appVars, sellVars, counterVars, boundVars
<1>1. Tidy(desk) /\ conf \in Base /\ panel \in PanelType
  BY TidyDesk DEF DeskInv, DeskTypeOK, PanelType
<1>2. CASE panel["detail"].key = Nothing
  <2>1. Load("list", k)
    BY <1>2 DEF ChooseDay
  <2>2. "list" \in Panel
    BY DEF Panel
  <2>3. QED
    BY <2>1, <2>2, LoadKept
<1>3. CASE panel["detail"].key # Nothing
  <2>1. "list" \in Panel /\ "detail" \in Panel
    BY DEF Panel
  <2>2. Follows(desk, Loaded(desk, "list", k))
    BY <1>1, <2>1, LoadedIdly
  <2>3. Follows(Loaded(desk, "list", k), Loaded(Loaded(desk, "list", k), "detail", k))
    <3>1. Tidy(Loaded(desk, "list", k))
      BY <2>2 DEF Follows
    <3>2. QED
      BY <3>1, <1>1, <2>1, LoadedIdly
  <2>4. Follows(desk, Loaded(Loaded(desk, "list", k), "detail", k))
    BY <2>2, <2>3, FollowsOn
  <2>5. Loading(panel, "list", k) \in PanelType
    BY <1>1, <2>1, PanelTyped
  <2>6. Loading(Loading(panel, "list", k), "detail", k) \in PanelType
    BY <2>1, <2>5, PanelTyped
  <2>7. asks' \in Nat
    BY <1>3 DEF DeskInv, DeskTypeOK, ChooseDay, Press
  <2>8. Follows(desk, desk') /\ panel' \in PanelType
    BY <1>3, <2>4, <2>6 DEF ChooseDay
  <2>9. QED
    BY <1>3, <2>7, <2>8, QuietKept DEF ChooseDay, DeskInv, DeskTypeOK
<1>4. QED
  BY <1>2, <1>3

LEMMA PanelKept ==
  ASSUME DeskInv, NEW g \in DOMAIN desk, PanelAnswered(g)
  PROVE  DeskInv'
<1> USE DEF mainVars, bookedVars, appVars, sellVars, counterVars, boundVars
<1>1. Tidy(desk) /\ panel \in PanelType
  BY TidyDesk DEF DeskInv, DeskTypeOK, PanelType
<1>2. PICK p \in Panel :
        /\ Runs(g, p, 1)
        /\ panel' = IF Head1(g).live
                    THEN [panel EXCEPT ![p] = [@ EXCEPT !.shows = Head1(g).arg, !.loading = FALSE]]
                    ELSE panel
        /\ desk' = MovedOn(g)
        /\ UNCHANGED <<mainVars, bookedVars, appVars, sellVars, receipt, counterVars, boundVars>>
  BY DEF PanelAnswered
<1>3. desk[g].line # <<>> /\ Head1(g).op = p
  BY <1>2 DEF Runs
<1>4. Follows(desk, desk')
  BY <1>1, <1>2, <1>3, MovedOnIdly DEF Picked, Panel
<1>5. panel' \in PanelType
  <2>1. Head1(g) \in Call
    BY <1>1, <1>3, MovingOn
  <2>2. Head1(g).arg \in Key \cup {Nothing}
    BY <2>1, <1>3, Calls
  <2>3. [panel[p] EXCEPT !.shows = Head1(g).arg, !.loading = FALSE]
          \in [key : Key \cup {Nothing}, shows : Key \cup {Nothing}, loading : BOOLEAN, error : BOOLEAN]
    BY <2>2, <1>1 DEF PanelType
  <2>4. QED
    BY <2>3, <1>1, <1>2 DEF PanelType
<1>6. QED
  BY <1>2, <1>4, <1>5, QuietKept DEF DeskInv, DeskTypeOK

LEMMA ReceiptKept ==
  ASSUME DeskInv, \/ \E n \in 0..MaxSale : OpenReceipt(n)
                  \/ \E g \in DOMAIN desk : ReceiptRead(g)
                  \/ CloseReceipt
  PROVE  DeskInv'
<1> USE DEF mainVars, bookedVars, appVars, sellVars, counterVars, boundVars
<1>1. Tidy(desk) /\ conf \in Base /\ panel \in PanelType /\ MaxSale \in Nat
  BY TidyDesk, DeskConstantsOK DEF DeskInv, DeskTypeOK, PanelType
<1>2. ASSUME NEW n \in 0..MaxSale, OpenReceipt(n)
      PROVE  DeskInv'
  <2>1. Follows(desk, desk')
    BY <1>1, <1>2, AskedIdly DEF OpenReceipt
  <2>2. asks' \in Nat
    BY <1>2 DEF DeskInv, DeskTypeOK, OpenReceipt, Press
  <2>3. QED
    BY <1>1, <1>2, <2>1, <2>2, QuietKept DEF OpenReceipt, DeskInv, DeskTypeOK
<1>3. ASSUME NEW g \in DOMAIN desk, ReceiptRead(g)
      PROVE  DeskInv'
  <2>1. PICK turn \in 1..3 :
          /\ Runs(g, "receipt", turn)
          /\ IF Head1(g).arg = 0 \/ turn = 3
             THEN /\ desk' = MovedOn(g)
                  /\ receipt' = IF Head1(g).arg # 0 /\ Head1(g).live
                                THEN Head1(g).arg ELSE receipt
             ELSE desk' = Again(g, Head1(g).arg) /\ UNCHANGED receipt
          /\ UNCHANGED <<mainVars, bookedVars, appVars, sellVars, panel, counterVars, boundVars>>
    BY <1>3 DEF ReceiptRead
  <2>2. desk[g].line # <<>> /\ Head1(g).op = "receipt"
    BY <2>1 DEF Runs
  <2>3. Head1(g).arg \in 0..MaxSale
    <3>1. Head1(g) \in Call
      BY <1>1, <2>2, MovingOn
    <3>2. QED
      BY <3>1, <2>2, Calls
  <2>4. Follows(desk, MovedOn(g))
    BY <1>1, <2>2, MovedOnIdly DEF Picked
  <2>5. Follows(desk, Again(g, Head1(g).arg))
    BY <1>1, <2>2, ReceiptGoesOn
  <2>6. Follows(desk, desk') /\ receipt' \in 0..MaxSale
    BY <2>1, <2>3, <2>4, <2>5 DEF DeskInv, DeskTypeOK
  <2>7. QED
    BY <1>1, <2>1, <2>6, QuietKept DEF DeskInv, DeskTypeOK
<1>4. CASE CloseReceipt
  <2>1. Follows(desk, desk')
    BY <1>1, <1>4, FollowsItself DEF CloseReceipt
  <2>2. receipt' \in 0..MaxSale
    BY <1>1, <1>4 DEF CloseReceipt, NoReceipt
  <2>3. QED
    BY <1>1, <1>4, <2>1, <2>2, QuietKept DEF CloseReceipt, DeskInv, DeskTypeOK
<1>5. QED
  BY <1>2, <1>3, <1>4

LEMMA UnheardKept ==
  ASSUME DeskInv, NEW g \in DOMAIN desk, Unheard(g)
  PROVE  DeskInv'
<1> USE DEF mainVars, bookedVars, appVars, sellVars, counterVars, boundVars
<1>1. Tidy(desk)
  BY TidyDesk DEF DeskInv
<1>2. Follows(desk, desk')
  BY <1>1, MovedOnIdly DEF Unheard, Picked
<1>3. QED
  BY <1>2, QuietKept DEF Unheard, DeskInv, DeskTypeOK, PanelType

-----------------------------------------------------------------------------
(* Signing in and out, and the screens.                                    *)

\* Something is asked of the object in use, for the database it names.
LEMMA AskedFor ==
  ASSUME conf \in Base, NEW d, Tidy(d), NEW c \in Call, \A x \in Said(d) : Apart(c, x[2])
  PROVE  /\ Tidy(Put(d, c)) /\ Len(Put(d, c)) = Len(d)
         /\ Newest(d, conf) => Newest(Put(d, c), conf)
         /\ \E b \in Base : /\ Newest(d, conf) => b = conf
                            /\ Said(Put(d, c)) = Said(d) \cup {<<b, c>>}
BY PutIn DEF Newest

LEMMA NoneWaits ==
  ASSUME NEW op, ~ Waiting(op), NEW x \in Said(desk), x[2].op = op
  PROVE  ~ x[2].live
<1>1. PICK g \in DOMAIN desk : \E i \in DOMAIN desk[g].line : x = <<desk[g].base, desk[g].line[i]>>
  BY Stands
<1>2. x[2] \in CallsIn(g)
  BY <1>1 DEF CallsIn
<1>3. QED
  BY <1>2 DEF Waiting

LEMMA SignInKept ==
  ASSUME DeskInv, NEW u \in User, SignIn(u)
  PROVE  DeskInv'
<1> USE DEF DeskInv, mainVars, bookedVars, appVars, sellVars, counterVars, boundVars
<1>1. Tidy(desk) /\ (Newest(desk, conf) \/ unsaved) /\ conf \in Base
  BY TidyDesk DEF DeskTypeOK
<1>2. PICK c : c = [op |-> "login", arg |-> u, turn |-> 1, live |-> TRUE]
  OBVIOUS
<1>3. c \in Call
  BY <1>2, AskingOf DEF AppOps
<1>4. \A x \in Said(desk) : x[2].op = "login" => ~ x[2].live
  BY NoneWaits DEF SignIn
<1>5. \A x \in Said(desk) : Apart(c, x[2])
  BY <1>2, <1>4 DEF Apart
<1>6. desk' = Put(desk, c)
  BY <1>2 DEF SignIn, Asked
<1>7. /\ Tidy(desk') /\ (Newest(desk', conf') \/ unsaved')
      /\ \E b \in Base : Said(desk') = Said(desk) \cup {<<b, c>>}
  <2>1. conf' = conf /\ unsaved' = unsaved /\ mishaps' = mishaps
    BY DEF SignIn
  <2>2. /\ Tidy(Put(desk, c)) /\ (Newest(desk, conf) => Newest(Put(desk, c), conf))
        /\ \E b \in Base : Said(Put(desk, c)) = Said(desk) \cup {<<b, c>>}
    BY <1>1, <1>3, <1>5, AskedFor
  <2>3. QED
    BY <1>1, <1>6, <2>1, <2>2
<1>8. c.op = "login" /\ c.arg = u /\ c.turn = 1
  BY <1>2
<1>9. Still({"sale"}, Said(desk), Said(desk')) /\ Still({"cost"}, Said(desk), Said(desk'))
      /\ \A y \in Said(desk) : Picked(y[2]) => y \in Said(desk')
  BY <1>7, <1>8 DEF Still, Of
<1>10. LineInv' /\ desk' \in Seq(Object) /\ desk' # <<>>
  BY <1>7, LineKept
<1>11. LoginInv'
  BY <1>4, <1>7, <1>8 DEF LoginInv, SignIn
<1>12. customer \in Nat /\ customer <= customer
  BY DEF DeskTypeOK
<1>13. DraftInv' /\ BasketInv' /\ BookInv'
  BY <1>1, <1>9, <1>12, DraftKept, BasketKept, BookKept DEF SignIn
<1>14. DeskTypeOK'
  <2>1. asks' \in Nat
    BY DEF DeskTypeOK, SignIn, Press
  <2>2. UNCHANGED <<session, who, conf, file, unsaved, number, booked, screen, allowed, taps, sales, saves, mishaps,
                    cart, tapped, busy, done, panel, receipt, customer, hasty>>
    BY DEF SignIn
  <2>3. QED
    BY <1>10, <2>1, <2>2 DEF DeskTypeOK
<1>15. QED
  BY <1>10, <1>11, <1>13, <1>14

LEMMA AuthenticatedKept ==
  ASSUME DeskInv, NEW g \in DOMAIN desk, Authenticated(g)
  PROVE  DeskInv'
<1> USE DEF DeskInv, mainVars, bookedVars, appVars, sellVars, counterVars, boundVars
<1>1. Tidy(desk) /\ (Newest(desk, conf) \/ unsaved) /\ conf \in Base
  BY TidyDesk DEF DeskTypeOK
<1>2. desk[g].line # <<>> /\ Head1(g).op = "login" /\ Head1(g).live
  BY DEF Authenticated, Runs
<1>3. /\ Tidy(MovedOn(g)) /\ Len(MovedOn(g)) = Len(desk)
      /\ Head1(g) \in Call
      /\ Said(desk) = Said(MovedOn(g)) \cup {<<desk[g].base, Head1(g)>>}
      /\ \A x \in Said(MovedOn(g)) : Apart(Head1(g), x[2])
  BY <1>1, <1>2, MovingOn
<1>4. Follows(desk, MovedOn(g))
  BY <1>1, <1>2, MovedOnIdly DEF Picked
<1>5. Head1(g).arg \in User /\ Head1(g) = [op |-> "login", arg |-> Head1(g).arg, turn |-> Head1(g).turn, live |-> TRUE]
  <2>1. /\ Head1(g) = [op |-> Head1(g).op, arg |-> Head1(g).arg, turn |-> Head1(g).turn, live |-> Head1(g).live]
        /\ Head1(g).live \in BOOLEAN /\ Head1(g).arg \in User
    BY <1>2, <1>3, Calls DEF AppOps
  <2>2. Head1(g).live = TRUE
    BY <2>1, <1>2
  <2>3. QED
    BY <2>1, <2>2, <1>2
<1>6. PICK c : c = [op |-> "login", arg |-> Head1(g).arg, turn |-> 2, live |-> TRUE]
  OBVIOUS
<1>7. [Head1(g) EXCEPT !.turn = 2] = c
  <2>1. PICK o, a, t, l : Head1(g) = [op |-> o, arg |-> a, turn |-> t, live |-> l] /\ o = "login" /\ l = TRUE
    BY <1>5
  <2>2. Head1(g).arg = a
    BY <2>1
  <2>3. [[op |-> o, arg |-> a, turn |-> t, live |-> l] EXCEPT !.turn = 2]
        = [op |-> o, arg |-> a, turn |-> 2, live |-> l]
    OBVIOUS
  <2>4. QED
    BY <2>1, <2>2, <2>3, <1>6
<1>8. c \in Call
  BY <1>5, <1>6, AskingOf DEF AppOps
<1>9. \A x \in Said(MovedOn(g)) : x[2].op = "login" => ~ x[2].live
  BY <1>2, <1>3 DEF Apart
<1>10. \A x \in Said(MovedOn(g)) : Apart(c, x[2])
  BY <1>6, <1>9 DEF Apart
<1>11. desk' = Put(MovedOn(g), c)
  BY <1>7 DEF Authenticated
<1>12. Newest(MovedOn(g), conf) \/ unsaved
  BY <1>1, <1>4 DEF Follows
<1>13. /\ Tidy(desk') /\ (Newest(desk', conf') \/ unsaved')
       /\ \E b \in Base : Said(desk') = Said(MovedOn(g)) \cup {<<b, c>>}
  <2>1. PICK d : d = MovedOn(g)
    OBVIOUS
  <2>2. conf' = conf /\ unsaved' = unsaved /\ mishaps' = mishaps
    BY DEF Authenticated
  <2>3. /\ Tidy(Put(d, c)) /\ (Newest(d, conf) => Newest(Put(d, c), conf))
        /\ \E b \in Base : Said(Put(d, c)) = Said(d) \cup {<<b, c>>}
    BY <1>1, <1>3, <1>8, <1>10, <2>1, AskedFor
  <2>4. QED
    BY <1>11, <1>12, <2>1, <2>2, <2>3
<1>14. c.op = "login" /\ c.arg = Head1(g).arg
  BY <1>6
<1>15. Still({"sale"}, Said(desk), Said(desk')) /\ Still({"cost"}, Said(desk), Said(desk'))
       /\ \A y \in Said(desk) : Picked(y[2]) => y \in Said(desk')
  BY <1>2, <1>3, <1>13, <1>14 DEF Still, Of, Picked
<1>16. who = NoUser
  BY <1>2, <1>3 DEF LoginInv
<1>17. LineInv' /\ desk' \in Seq(Object) /\ desk' # <<>>
  BY <1>13, LineKept
<1>18. LoginInv'
  BY <1>9, <1>13, <1>14, <1>16 DEF LoginInv, Authenticated
<1>19. customer \in Nat /\ customer <= customer
  BY DEF DeskTypeOK
<1>20. DraftInv' /\ BasketInv' /\ BookInv'
  BY <1>1, <1>15, <1>19, DraftKept, BasketKept, BookKept DEF Authenticated
<1>21. DeskTypeOK'
  BY <1>5, <1>17 DEF DeskTypeOK, Authenticated
<1>22. QED
  BY <1>17, <1>18, <1>20, <1>21

LEMMA SignedInKept ==
  ASSUME DeskInv, NEW g \in DOMAIN desk, SignedIn(g)
  PROVE  DeskInv'
<1> USE DEF DeskInv, mainVars, bookedVars, appVars, sellVars, counterVars, boundVars
<1>1. Tidy(desk) /\ (Newest(desk, conf) \/ unsaved) /\ conf \in Base
  BY TidyDesk DEF DeskTypeOK
<1>2. desk[g].line # <<>> /\ Head1(g).op = "login" /\ Head1(g).live /\ Head1(g).turn = 2
  BY DEF SignedIn, Runs
<1>3. /\ Tidy(MovedOn(g)) /\ Head1(g) \in Call
      /\ Said(desk) = Said(MovedOn(g)) \cup {<<desk[g].base, Head1(g)>>}
      /\ \A x \in Said(MovedOn(g)) : Apart(Head1(g), x[2])
  BY <1>1, <1>2, MovingOn
<1>4. Head1(g).arg \in User /\ who' = Head1(g).arg
  BY <1>2, <1>3, Calls DEF AppOps, SignedIn
<1>5. Follows(desk, MovedOn(g))
  BY <1>1, <1>2, MovedOnIdly DEF Picked
<1>6. Today \in Key /\ "list" \in Panel
  BY DeskConstantsOK DEF Panel
<1>7. Follows(MovedOn(g), Loaded(MovedOn(g), "list", Today))
  BY <1>1, <1>3, <1>6, LoadedIdly
<1>8. Follows(Loaded(MovedOn(g), "list", Today), desk')
  <2>1. Tidy(Loaded(MovedOn(g), "list", Today))
    BY <1>7 DEF Follows
  <2>2. Follows(Loaded(MovedOn(g), "list", Today),
                Asked(Loaded(MovedOn(g), "list", Today), "rights", Head1(g).arg))
    BY <2>1, <1>1, <1>4, AskedIdly
  <2>3. QED
    BY <2>2, <1>4 DEF SignedIn
<1>9. Follows(MovedOn(g), desk') /\ Follows(desk, desk')
  BY <1>5, <1>7, <1>8, FollowsOn
<1>10. \A x \in Said(desk') : x[2].op = "login" => ~ x[2].live
  BY <1>2, <1>3, <1>9 DEF Follows, Still, Of, Watched, Apart
<1>11. session = Head1(g).arg
  <2>1. PICK x \in Said(desk) : x = <<desk[g].base, Head1(g)>>
    BY <1>3
  <2>2. x[2] = Head1(g)
    BY <2>1
  <2>3. QED
    BY <2>1, <2>2, <1>2 DEF LoginInv
<1>12. Tidy(desk') /\ (Newest(desk', conf') \/ unsaved')
  BY <1>1, <1>9 DEF Follows, SignedIn
<1>13. LineInv' /\ desk' \in Seq(Object) /\ desk' # <<>>
  BY <1>12, LineKept
<1>14. LoginInv'
  <2>1. NoUser \notin User
    BY DeskConstantsOK
  <2>2. QED
    BY <2>1, <1>4, <1>10, <1>11 DEF LoginInv, SignedIn
<1>15. Still({"sale"}, Said(desk), Said(desk')) /\ Still({"cost"}, Said(desk), Said(desk'))
       /\ \A y \in Said(desk) : Picked(y[2]) => y \in Said(desk')
  BY <1>9 DEF Follows, Still, Watched
<1>16. customer \in Nat /\ customer <= customer
  BY DEF DeskTypeOK
<1>17. DraftInv' /\ BasketInv' /\ BookInv'
  BY <1>1, <1>15, <1>16, DraftKept, BasketKept, BookKept DEF SignedIn
<1>18. panel' \in PanelType
  <2>1. NoPanel \in PanelType
    BY DEF PanelType, NoPanel
  <2>2. QED
    BY <2>1, <1>6, PanelTyped DEF SignedIn
<1>19. DeskTypeOK'
  BY <1>4, <1>13, <1>18 DEF DeskTypeOK, PanelType, SignedIn, Screen
<1>20. QED
  BY <1>13, <1>14, <1>17, <1>19

\* Leaving a screen: nothing the screen asked for is listened to any more.
LEMMA Left ==
  ASSUME NEW d, Tidy(d), NEW ops, ScreenOps \subseteq ops
  PROVE  /\ Still(Watched, Said(d), Said(Dropped(d, ops)))
         /\ \A x \in Said(Dropped(d, ops)) : x[2].live => x[2].op \notin ops
BY Dropping DEF Still, Of

LEMMA LeftKept ==
  ASSUME DeskInv, Leave, Still({"sale"}, Said(desk), Said(desk')),
         \A x \in Said(desk') : x[2].live => x[2].op \notin {"sale", "cost"},
         UNCHANGED <<booked, number, mishaps>>
  PROVE  /\ DraftInv' /\ BasketInv' /\ BookInv'
         /\ customer' \in Nat \ {0} /\ hasty' \subseteq 1..customer'
         /\ cart' = {} /\ tapped' = {} /\ busy' = FALSE /\ done' = FALSE
         /\ receipt' \in 0..MaxSale
<1> USE DEF DeskInv
<1>1. Tidy(desk)
  BY TidyDesk
<1>2. /\ customer \in Nat \ {0} /\ hasty \subseteq 1..customer /\ hasty' = hasty
      /\ customer' \in {customer, customer + 1}
  BY DEF DeskTypeOK, Leave
<1>3. /\ customer' \in Nat \ {0} /\ customer <= customer' /\ hasty' \subseteq 1..customer'
  BY <1>2
<1>4. DraftInv'
  BY <1>1, <1>2, <1>3, DraftKept
<1>5. BasketInv'
  BY BasketLeft DEF Leave, Picked
<1>6. BookInv'
  BY <1>2, <1>3, BookKept
<1>7. /\ cart' = {} /\ tapped' = {} /\ busy' = FALSE /\ done' = FALSE
      /\ receipt' \in 0..MaxSale
  BY DeskConstantsOK DEF Leave, NoReceipt
<1>8. QED
  BY <1>3, <1>4, <1>5, <1>6, <1>7

LEMMA SignOutKept ==
  ASSUME DeskInv, SignOut
  PROVE  DeskInv'
<1> USE DEF DeskInv, mainVars, bookedVars, appVars, sellVars, counterVars, boundVars
<1>1. Tidy(desk) /\ (Newest(desk, conf) \/ unsaved) /\ conf \in Base
  BY TidyDesk DEF DeskTypeOK
<1>2. /\ Tidy(desk') /\ Len(desk') = Len(desk)
      /\ \A g \in DOMAIN desk : desk'[g].base = desk[g].base
  BY <1>1, Dropping DEF SignOut
<1>3. /\ Still(Watched, Said(desk), Said(desk'))
      /\ \A x \in Said(desk') : x[2].live => x[2].op \notin ScreenOps
  BY <1>1, Left DEF SignOut
<1>4. Newest(desk', conf') \/ unsaved'
  <2>1. Len(desk) \in DOMAIN desk
    BY <1>1, TidyParts
  <2>2. QED
    BY <2>1, <1>1, <1>2 DEF Newest, SignOut
<1>5. LineInv' /\ desk' \in Seq(Object) /\ desk' # <<>>
  BY <1>2, <1>4, LineKept
<1>6. LoginInv'
  <2>1. \A x \in Said(desk) : x[2].op = "login" => ~ x[2].live
    BY DEF LoginInv, SignOut
  <2>2. \A x \in Said(desk') : x[2].op = "login" => ~ x[2].live
    BY <2>1, <1>3 DEF Still, Of, Watched
  <2>3. QED
    BY <2>2 DEF LoginInv, SignOut
<1>7. /\ Still({"sale"}, Said(desk), Said(desk'))
      /\ \A x \in Said(desk') : x[2].live => x[2].op \notin {"sale", "cost"}
  BY <1>3 DEF Still, ScreenOps, Watched
<1>8. /\ DraftInv' /\ BasketInv' /\ BookInv'
      /\ customer' \in Nat \ {0} /\ hasty' \subseteq 1..customer'
      /\ cart' = {} /\ tapped' = {} /\ busy' = FALSE /\ done' = FALSE
      /\ receipt' \in 0..MaxSale
  BY <1>7, LeftKept DEF SignOut
<1>9. NoPanel \in PanelType
  BY DEF PanelType, NoPanel
<1>10. DeskTypeOK'
  BY <1>5, <1>8, <1>9 DEF DeskTypeOK, PanelType, SignOut
<1>11. QED
  BY <1>5, <1>6, <1>8, <1>10

LEMMA GoKept ==
  ASSUME DeskInv, NEW s \in Screen, Go(s)
  PROVE  DeskInv'
<1> USE DEF DeskInv, mainVars, bookedVars, appVars, sellVars, counterVars, boundVars
<1> DEFINE left == Dropped(desk, ScreenOps)
<1>1. Tidy(desk) /\ (Newest(desk, conf) \/ unsaved) /\ conf \in Base
  BY TidyDesk DEF DeskTypeOK
<1>2. /\ Tidy(left) /\ Len(left) = Len(desk)
      /\ \A g \in DOMAIN desk : left[g].base = desk[g].base
  BY <1>1, Dropping
<1>3. /\ Still(Watched, Said(desk), Said(left))
      /\ \A x \in Said(left) : x[2].live => x[2].op \notin ScreenOps
  BY <1>1, Left
<1>4. Newest(left, conf) \/ unsaved
  <2>1. Len(desk) \in DOMAIN desk
    BY <1>1, TidyParts
  <2>2. QED
    BY <2>1, <1>1, <1>2 DEF Newest
<1>5. Today \in Key /\ "list" \in Panel /\ MaxSale \in Nat
  BY DeskConstantsOK DEF Panel
<1> HIDE DEF left
<1>6. Follows(left, Loaded(left, "list", Today))
  BY <1>1, <1>2, <1>5, LoadedIdly
<1>7. /\ desk' \in {left, Loaded(left, "list", Today)}
      /\ panel' \in {NoPanel, Loading(NoPanel, "list", Today)}
  BY DEF Go, left
<1>8. Follows(left, desk')
  <2>1. Follows(left, left)
    BY <1>2 DEF Follows, Still, Of
  <2>2. QED
    BY <2>1, <1>6, <1>7
<1>9. Tidy(desk') /\ (Newest(desk', conf') \/ unsaved')
  BY <1>4, <1>8 DEF Follows, Go
<1>10. LineInv' /\ desk' \in Seq(Object) /\ desk' # <<>>
  BY <1>9, LineKept
<1>11. Still({"login"}, Said(desk), Said(desk'))
  BY <1>3, <1>8 DEF Follows, Still, Of, Watched
<1>12. LoginInv'
  <2>1. screen # "login" /\ screen' # "login"
    BY DEF LoginInv, Go, Screen, Gated
  <2>2. QED
    BY <2>1, <1>11, LoginKept DEF Go
<1>13. Still({"sale"}, Said(desk), Said(desk'))
       /\ \A x \in Said(desk') : x[2].live => x[2].op \notin {"sale", "cost"}
  <2>1. \A x \in Said(desk') : x[2].op \in {"sale", "cost"} => \E y \in Said(left) : Of(x, y)
    BY <1>8 DEF Follows, Still, Watched
  <2>2. QED
    BY <2>1, <1>3 DEF Still, Of, ScreenOps, Watched
<1>14. /\ DraftInv' /\ BasketInv' /\ BookInv'
       /\ customer' \in Nat \ {0} /\ hasty' \subseteq 1..customer'
       /\ cart' = {} /\ tapped' = {} /\ busy' = FALSE /\ done' = FALSE
       /\ receipt' \in 0..MaxSale
  BY <1>13, LeftKept DEF Go
<1>15. panel' \in PanelType
  <2>1. NoPanel \in PanelType
    BY DEF PanelType, NoPanel
  <2>2. QED
    BY <2>1, <1>5, <1>7, PanelTyped
<1>16. DeskTypeOK'
  <2>1. asks' \in Nat /\ screen' \in Screen
    BY DEF Go, Press, DeskTypeOK
  <2>2. UNCHANGED <<mainVars, bookedVars, who, allowed, taps, sales, saves, mishaps>>
    BY DEF Go
  <2>3. QED
    BY <2>1, <2>2, <1>10, <1>14, <1>15 DEF DeskTypeOK, PanelType
<1>17. QED
  BY <1>10, <1>12, <1>14, <1>16

-----------------------------------------------------------------------------
(* Selling.                                                                *)

LEMMA TapKept ==
  ASSUME DeskInv, Tap
  PROVE  DeskInv'
<1> USE DEF DeskInv, mainVars, bookedVars, appVars, sellVars, counterVars, boundVars
<1>1. Tidy(desk) /\ (Newest(desk, conf) \/ unsaved) /\ conf \in Base
  BY TidyDesk DEF DeskTypeOK
<1>2. /\ taps \in Nat /\ taps' = taps + 1 /\ cart \subseteq 1..taps /\ tapped \subseteq 1..taps
      /\ customer \in Nat \ {0} /\ hasty \subseteq 1..customer
      /\ hasty \subseteq hasty' /\ hasty' \subseteq 1..customer
      /\ tapped' = tapped \cup {taps + 1}
  BY DEF DeskTypeOK, Tap
<1>3. PICK a : a = [item |-> taps + 1, seen |-> cart]
  OBVIOUS
<1>4. a.item = taps + 1 /\ a \in [item : Nat, seen : SUBSET Nat]
  BY <1>2, <1>3
<1>5. PICK c : c = [op |-> "cost", arg |-> a, turn |-> 1, live |-> TRUE]
  OBVIOUS
<1>6. c \in Call
  BY <1>4, <1>5, AskingOf
<1>7. \A x \in Said(desk) : Apart(c, x[2])
  <2> SUFFICES ASSUME NEW x \in Said(desk), x[2].op = "cost", x[2].live
               PROVE  x[2].arg.item # taps + 1
    BY <1>4, <1>5 DEF Apart
  <2>1. x[2].arg.item \in 1..taps
    BY DEF BasketInv, Picked
  <2>2. QED
    BY <2>1, <1>2
<1>8. desk' = Put(desk, c)
  BY <1>2, <1>3, <1>5 DEF Tap, Asked
<1>9. /\ Tidy(desk') /\ (Newest(desk', conf') \/ unsaved')
      /\ \E b \in Base : Said(desk') = Said(desk) \cup {<<b, c>>}
  BY <1>1, <1>6, <1>7, <1>8, AskedFor DEF Tap
<1>10. c.op = "cost" /\ c.arg = a /\ c.live
  BY <1>5
<1>11. Still({"sale"}, Said(desk), Said(desk')) /\ Still({"login"}, Said(desk), Said(desk'))
  BY <1>9, <1>10 DEF Still, Of
<1>12. LineInv' /\ desk' \in Seq(Object) /\ desk' # <<>>
  BY <1>9, LineKept
<1>13. LoginInv'
  BY <1>11, LoginKept DEF Tap
<1>14. DraftInv' /\ BookInv'
  <2>1. customer' \in Nat /\ customer <= customer'
    BY <1>2 DEF Tap
  <2>2. QED
    BY <1>1, <1>2, <1>11, <2>1, DraftKept, BookKept DEF Tap
<1>15. BasketInv'
  <2>1. hasty' = {} => hasty = {} /\ ~ busy
    BY <1>2 DEF Tap
  <2>2. UNCHANGED <<cart, busy, done>> /\ ~ done
    BY DEF Tap
  <2>3. \A x \in Said(desk') : Picked(x[2]) =>
          \/ x \in Said(desk)
          \/ x[2].arg.item = taps + 1
    BY <1>4, <1>9, <1>10
  <2>4. \A x \in Said(desk') : Picked(x[2]) => x[2].arg.item \in (1..taps') \ cart'
    BY <2>2, <2>3, <1>2 DEF BasketInv
  <2>5. \E x \in Said(desk') : Picked(x[2]) /\ x[2].arg.item = taps + 1
    <3>1. PICK x \in Said(desk') : x[2] = c
      <4>1. PICK b \in Base : Said(desk') = Said(desk) \cup {<<b, c>>}
        BY <1>9
      <4>2. PICK x : x = <<b, c>>
        OBVIOUS
      <4>3. x \in Said(desk') /\ x[2] = c
        BY <4>1, <4>2
      <4>4. QED
        BY <4>3
    <3>2. QED
      BY <3>1, <1>4, <1>10 DEF Picked
  <2>6. \A x \in Said(desk) : x \in Said(desk')
    BY <1>9
  <2>7. ASSUME hasty' = {}
        PROVE  /\ \A x \in Said(desk') : Picked(x[2]) => x[2].arg.item \in tapped' /\ ~ busy' /\ ~ done'
               /\ cart' \subseteq tapped'
               /\ \A i \in tapped' \ cart' :
                    done' \/ \E x \in Said(desk') : Picked(x[2]) /\ x[2].arg.item = i
    BY <1>2, <2>1, <2>2, <2>3, <2>5, <2>6, <2>7 DEF BasketInv
  <2>8. QED
    BY <2>2, <2>4, <2>7 DEF BasketInv
<1>16. DeskTypeOK'
  <2>1. cart' \subseteq 1..taps' /\ tapped' \subseteq 1..taps' /\ taps' \in Nat
    BY <1>2 DEF Tap
  <2>2. QED
    BY <2>1, <1>2, <1>12 DEF DeskTypeOK, Tap
<1>17. QED
  BY <1>12, <1>13, <1>14, <1>15, <1>16

LEMMA CostKept ==
  ASSUME DeskInv, NEW g \in DOMAIN desk, CostAnswered(g)
  PROVE  DeskInv'
<1> USE DEF DeskInv, mainVars, bookedVars, appVars, sellVars, counterVars, boundVars
<1>1. Tidy(desk) /\ (Newest(desk, conf) \/ unsaved) /\ conf \in Base
  BY TidyDesk DEF DeskTypeOK
<1>2. desk[g].line # <<>> /\ Head1(g).op = "cost" /\ desk' = MovedOn(g)
  BY DEF CostAnswered, Runs
<1>3. CASE ~ Head1(g).live
  <2>1. Follows(desk, desk')
    BY <1>1, <1>2, <1>3, MovedOnIdly DEF Picked
  <2>2. cart' = cart
    BY <1>3 DEF CostAnswered
  <2>3. QED
    BY <2>1, <2>2, QuietKept DEF CostAnswered, DeskTypeOK, PanelType
<1>4. CASE Head1(g).live
  <2>1. PICK n : n = Head1(g).arg.item
    OBVIOUS
  <2>2. /\ Tidy(desk') /\ Len(desk') = Len(desk)
        /\ \A h \in DOMAIN desk : desk'[h].base = desk[h].base
        /\ Said(desk) = Said(desk') \cup {<<desk[g].base, Head1(g)>>}
        /\ \A x \in Said(desk') : Apart(Head1(g), x[2])
    BY <1>1, <1>2, MovingOn
  <2>3. Newest(desk', conf') \/ unsaved'
    <3>1. Len(desk) \in DOMAIN desk
      BY <1>1, TidyParts
    <3>2. QED
      BY <3>1, <1>1, <2>2 DEF Newest, CostAnswered
  <2>4. LineInv' /\ desk' \in Seq(Object) /\ desk' # <<>>
    BY <2>2, <2>3, LineKept
  <2>5. Still({"sale"}, Said(desk), Said(desk')) /\ Still({"login"}, Said(desk), Said(desk'))
    BY <2>2 DEF Still, Of
  <2>6. LoginInv'
    BY <2>5, LoginKept DEF CostAnswered
  <2>7. customer \in Nat /\ customer <= customer
    BY DEF DeskTypeOK
  <2>8. DraftInv' /\ BookInv'
    BY <1>1, <2>5, <2>7, DraftKept, BookKept DEF CostAnswered
  <2>9. cart' = cart \cup {n} /\ UNCHANGED <<tapped, taps, hasty, busy, done>>
    BY <1>4, <2>1 DEF CostAnswered
  <2>10. n \in 1..taps /\ (hasty = {} => n \in tapped /\ ~ done /\ ~ busy)
    <3>1. PICK x \in Said(desk) : x = <<desk[g].base, Head1(g)>>
      BY <2>2
    <3>2. x[2] = Head1(g)
      BY <3>1
    <3>3. Picked(x[2]) /\ x[2].arg.item = n
      BY <3>2, <2>1, <1>2, <1>4 DEF Picked
    <3>4. QED
      BY <3>3 DEF BasketInv
  <2>11. \A x \in Said(desk') : Picked(x[2]) => x \in Said(desk) /\ x[2].arg.item # n
    BY <1>2, <1>4, <2>1, <2>2 DEF Apart, Picked
  <2>12. \A x \in Said(desk) : Picked(x[2]) => x \in Said(desk') \/ x[2].arg.item = n
    BY <2>1, <2>2
  <2>13. BasketInv'
    BY <2>9, <2>10, <2>11, <2>12 DEF BasketInv
  <2>14. DeskTypeOK'
    BY <2>4, <2>9, <2>10 DEF DeskTypeOK, CostAnswered
  <2>15. QED
    BY <2>4, <2>6, <2>8, <2>13, <2>14
<1>5. QED
  BY <1>3, <1>4

LEMMA RemoveKept ==
  ASSUME DeskInv, NEW i \in cart, RemoveLine(i)
  PROVE  DeskInv'
<1> USE DEF DeskInv, mainVars, bookedVars, appVars, sellVars, counterVars, boundVars
<1>1. /\ cart' = cart \ {i} /\ tapped' = tapped \ {i} /\ ~ done
      /\ UNCHANGED <<mainVars, desk, bookedVars, appVars, busy, done, panel, receipt, customer, hasty, boundVars>>
  BY DEF RemoveLine
<1>2. LineInv' /\ LoginInv' /\ DraftInv' /\ BookInv'
  BY <1>1 DEF LineInv, LoginInv, DraftInv, DraftOK, AsPressed, BookInv, BookedAsPressed,
              PicksReachTheReceipt, Now
<1>3. BasketInv'
  <2>1. \A x \in Said(desk) : Picked(x[2]) => x[2].arg.item # i
    BY DEF BasketInv
  <2>2. QED
    BY <2>1, <1>1 DEF BasketInv
<1>4. DeskTypeOK'
  BY <1>1 DEF DeskTypeOK
<1>5. QED
  BY <1>2, <1>3, <1>4

LEMMA NextSaleKept ==
  ASSUME DeskInv, NextSale
  PROVE  DeskInv'
<1> USE DEF DeskInv, mainVars, bookedVars, appVars, sellVars, counterVars, boundVars
<1>1. /\ done /\ done' = FALSE /\ customer' = customer + 1 /\ tapped' = {}
      /\ UNCHANGED <<mainVars, desk, bookedVars, appVars, cart, busy, panel, receipt, hasty, boundVars>>
  BY DEF NextSale
<1>2. /\ Tidy(desk)
      /\ customer \in Nat \ {0} /\ hasty \subseteq 1..customer
      /\ customer' \in Nat \ {0} /\ customer <= customer' /\ hasty' \subseteq 1..customer'
  <2>1. Tidy(desk)
    BY TidyDesk
  <2>2. customer \in Nat \ {0} /\ hasty \subseteq 1..customer
    BY DEF DeskTypeOK
  <2>3. QED
    BY <1>1, <2>1, <2>2
<1>3. LineInv' /\ LoginInv' /\ BookInv'
  BY <1>1 DEF LineInv, LoginInv, BookInv, BookedAsPressed, PicksReachTheReceipt, Now
<1>4. DraftInv'
  <2>1. Still({"sale"}, Said(desk), Said(desk'))
    BY <1>1 DEF Still, Of
  <2>2. QED
    BY <2>1, <1>1, <1>2, DraftKept
<1>5. BasketInv'
  BY <1>1 DEF BasketInv
<1>6. DeskTypeOK'
  BY <1>1, <1>2 DEF DeskTypeOK
<1>7. QED
  BY <1>3, <1>4, <1>5, <1>6

LEMMA CompleteKept ==
  ASSUME DeskInv, Complete
  PROVE  DeskInv'
<1> USE DEF DeskInv, mainVars, bookedVars, appVars, sellVars, counterVars, boundVars
<1>1. Tidy(desk) /\ (Newest(desk, conf) \/ unsaved) /\ conf \in Base
  BY TidyDesk DEF DeskTypeOK
<1>2. /\ screen = "sell" /\ ~ done /\ ~ busy /\ busy' = TRUE
      /\ UNCHANGED <<mainVars, bookedVars, appVars, cart, done, panel, receipt, customer, tapped, taps, asks, saves, mishaps>>
  BY DEF Complete
<1>3. /\ customer \in Nat \ {0} /\ hasty \subseteq 1..customer
      /\ hasty \subseteq hasty' /\ hasty' \subseteq 1..customer
      /\ customer <= customer
  BY DEF DeskTypeOK, Complete
<1>4. hasty' = {} => hasty = {} /\ \A x \in Said(desk) : ~ Picked(x[2])
  <2>1. hasty' = {} => hasty = {} /\ ~ Waiting("cost")
    BY <1>3 DEF Complete
  <2>2. QED
    BY <2>1, NoneWaits DEF Picked
<1>5. PICK a : a = Draft
  OBVIOUS
<1>6. /\ a \in Drafts /\ a.customer = customer /\ a.lines = cart /\ a.wanted = tapped
      /\ a.staff = session /\ a.shown = who /\ a.named = conf /\ a.unsaved = unsaved
  <2>1. cart \subseteq Nat /\ tapped \subseteq Nat
    BY DEF DeskTypeOK
  <2>2. QED
    BY <2>1, <1>1, <1>3, <1>5 DEF Draft, Drafts, DeskTypeOK
<1>7. session = who
  BY <1>2 DEF LoginInv
<1>8. PICK c : c = [op |-> "sale", arg |-> a, turn |-> 1, live |-> TRUE]
  OBVIOUS
<1>9. c \in Call
  BY <1>6, <1>8, AskingOf
<1>10. c.op = "sale" /\ c.arg = a /\ c.turn = 1
  BY <1>8
<1>11. \A x \in Said(desk) : Apart(c, x[2])
  BY <1>2, <1>10 DEF Apart, DraftInv, DraftOK
<1>12. desk' = Put(desk, c)
  BY <1>5, <1>8 DEF Complete, Asked
<1>13. /\ Tidy(desk') /\ (Newest(desk', conf') \/ unsaved')
       /\ \E b \in Base : (b = conf \/ unsaved) /\ Said(desk') = Said(desk) \cup {<<b, c>>}
  BY <1>1, <1>2, <1>9, <1>11, <1>12, AskedFor
<1>14. PICK b \in Base : (b = conf \/ unsaved) /\ Said(desk') = Said(desk) \cup {<<b, c>>}
  BY <1>13
<1>15. LineInv' /\ desk' \in Seq(Object) /\ desk' # <<>>
  BY <1>13, LineKept
<1>16. LoginInv'
  <2>1. Still({"login"}, Said(desk), Said(desk'))
    BY <1>10, <1>14 DEF Still, Of
  <2>2. QED
    BY <2>1, <1>2, LoginKept
<1>17. DraftInv'
  <2>1. AsPressed(b, a)'
    <3>1. (\A h \in hasty' : h > customer) => hasty' = {}
      BY <1>3
    <3>2. hasty' = {} => cart = tapped
      BY <1>2, <1>4 DEF BasketInv
    <3>3. QED
      BY <3>1, <3>2, <1>2, <1>6, <1>7, <1>14 DEF AsPressed
  <2>2. PICK x : x = <<b, c>>
    OBVIOUS
  <2>3. DraftOK(x)'
    <3>1. x[1] = b /\ x[2] = c
      BY <2>2
    <3>2. a.customer <= customer'
      BY <1>2, <1>3, <1>6
    <3>3. QED
      BY <3>1, <3>2, <2>1, <1>2, <1>10 DEF DraftOK, AsPressed
  <2>4. ASSUME NEW y \in Said(desk), y[2].op = "sale"
        PROVE  DraftOK(y)'
    <3>1. DraftOK(y) /\ Of(y, y)
      BY <2>4 DEF DraftInv, Of
    <3>2. QED
      BY <3>1, <2>4, <1>1, <1>2, <1>3, DraftStays
  <2>5. QED
    BY <2>2, <2>3, <2>4, <1>14 DEF DraftInv
<1>18. BasketInv'
  <2>1. \A x \in Said(desk') : Picked(x[2]) => x \in Said(desk)
    BY <1>10, <1>14 DEF Picked
  <2>2. \A x \in Said(desk) : x \in Said(desk')
    BY <1>14
  <2>3. QED
    BY <2>1, <2>2, <1>2, <1>4 DEF BasketInv
<1>19. BookInv'
  BY <1>2, <1>3, BookKept
<1>20. DeskTypeOK'
  <2>1. sales' \in Nat
    BY DEF DeskTypeOK, Complete
  <2>2. QED
    BY <2>1, <1>2, <1>3, <1>15 DEF DeskTypeOK
<1>21. QED
  BY <1>15, <1>16, <1>17, <1>18, <1>19, <1>20

\* What a sale in hand at the head of a line is.
LEMMA SaleInHand ==
  ASSUME DeskInv, NEW g \in DOMAIN desk, desk[g].line # <<>>, Head1(g).op = "sale"
  PROVE  /\ desk[g].base \in Base /\ Head1(g) \in Call /\ Head1(g).arg \in Drafts
         /\ Head1(g).turn \in Nat
         /\ \E x \in Said(desk) : x = <<desk[g].base, Head1(g)>> /\ x[1] = desk[g].base
                                  /\ x[2] = Head1(g) /\ DraftOK(x)
<1>1. Tidy(desk)
  BY TidyDesk DEF DeskInv
<1>2. /\ desk[g].base \in Base /\ Head1(g) \in Call
      /\ Said(desk) = Said(MovedOn(g)) \cup {<<desk[g].base, Head1(g)>>}
  BY <1>1, MovingOn
<1>3. Head1(g).arg \in Drafts /\ Head1(g).turn \in Nat
  BY <1>2, Calls
<1>4. PICK x \in Said(desk) : x = <<desk[g].base, Head1(g)>>
  BY <1>2
<1>5. x[1] = desk[g].base /\ x[2] = Head1(g)
  BY <1>4
<1>6. QED
  BY <1>2, <1>3, <1>4, <1>5 DEF DeskInv, DraftInv

\* A sale goes on to its next statement, with the number it is given or none yet.
LEMMA SaleGoesOn ==
  ASSUME DeskInv, NEW g \in DOMAIN desk, desk[g].line # <<>>, Head1(g).op = "sale",
         NEW a \in Drafts, desk' = Again(g, a),
         \A f \in {"customer", "lines", "wanted", "staff", "shown", "named", "unsaved"} : a[f] = Head1(g).arg[f],
         number' \in [Base -> Nat], \A b \in Base : number[b] <= number'[b],
         Head1(g).turn + 1 = 3 => a.no \in 1..number'[desk[g].base],
         UNCHANGED <<mainVars, booked, appVars, sellVars, panel, receipt, counterVars, boundVars>>
  PROVE  DeskInv'
<1> USE DEF DeskInv, mainVars, bookedVars, appVars, sellVars, counterVars, boundVars
<1>1. Tidy(desk) /\ (Newest(desk, conf) \/ unsaved) /\ number \in [Base -> Nat]
  BY TidyDesk DEF DeskTypeOK
<1>2. PICK c : c = [op |-> Head1(g).op, arg |-> a, turn |-> Head1(g).turn + 1, live |-> Head1(g).live]
  OBVIOUS
<1>3. /\ Tidy(desk') /\ Len(desk') = Len(desk)
      /\ \A h \in DOMAIN desk : desk'[h].base = desk[h].base
      /\ Said(desk') = Said(MovedOn(g)) \cup {<<desk[g].base, c>>}
  BY <1>1, <1>2, GoingOn
<1>4. Said(desk) = Said(MovedOn(g)) \cup {<<desk[g].base, Head1(g)>>}
  BY <1>1, MovingOn
<1>5. c.op = "sale" /\ c.arg = a /\ c.turn = Head1(g).turn + 1 /\ c.live = Head1(g).live
  BY <1>2
<1>6. Newest(desk', conf') \/ unsaved'
  <2>1. Len(desk) \in DOMAIN desk
    BY <1>1, TidyParts
  <2>2. QED
    BY <2>1, <1>1, <1>3 DEF Newest
<1>7. LineInv' /\ desk' \in Seq(Object) /\ desk' # <<>>
  BY <1>3, <1>6, LineKept
<1>8. Still({"login"}, Said(desk), Said(desk')) /\ Still({"cost"}, Said(desk), Said(desk'))
      /\ \A y \in Said(desk) : Picked(y[2]) => y \in Said(desk')
  BY <1>3, <1>4, <1>5 DEF Still, Of, Picked
<1>9. LoginInv' /\ BasketInv'
  BY <1>8, LoginKept, BasketKept
<1>10. DraftInv'
  <2>1. PICK y \in Said(desk) : y[1] = desk[g].base /\ y[2] = Head1(g) /\ DraftOK(y)
    BY SaleInHand
  <2>2. PICK x : x = <<desk[g].base, c>>
    OBVIOUS
  <2>3. x[1] = y[1] /\ x[2] = c
    BY <2>1, <2>2
  <2>4. /\ a.customer = Head1(g).arg.customer /\ a.lines = Head1(g).arg.lines
        /\ a.wanted = Head1(g).arg.wanted /\ a.staff = Head1(g).arg.staff
        /\ a.shown = Head1(g).arg.shown /\ a.named = Head1(g).arg.named
        /\ a.unsaved = Head1(g).arg.unsaved
    BY DEF Drafts
  <2>5. DraftOK(x)'
    BY <2>1, <2>3, <2>4, <1>5 DEF DraftOK, AsPressed
  <2>6. ASSUME NEW z \in Said(desk), z[2].op = "sale"
        PROVE  DraftOK(z)'
    <3>1. z[1] \in Base
      BY <1>1, SaidTyped
    <3>2. number[z[1]] \in Nat /\ number'[z[1]] \in Nat /\ number[z[1]] <= number'[z[1]]
      BY <3>1, <1>1
    <3>3. DraftOK(z)
      BY <2>6 DEF DraftInv
    <3>4. QED
      BY <3>2, <3>3 DEF DraftOK, AsPressed
  <2>7. QED
    BY <2>2, <2>5, <2>6, <1>3, <1>4 DEF DraftInv
<1>11. BookInv'
  <2>1. ASSUME NEW r \in booked
        PROVE  r.no \in 1..number'[r.base]
    <3>1. r.base \in Base
      BY DEF DeskTypeOK, Entries
    <3>2. number[r.base] \in Nat /\ number'[r.base] \in Nat /\ number[r.base] <= number'[r.base]
      BY <3>1, <1>1
    <3>3. QED
      BY <3>2 DEF BookInv
  <2>2. QED
    BY <2>1 DEF BookInv, BookedAsPressed, PicksReachTheReceipt
<1>12. DeskTypeOK'
  BY <1>7 DEF DeskTypeOK
<1>13. QED
  BY <1>7, <1>9, <1>10, <1>11, <1>12

LEMMA SaleCheckedKept ==
  ASSUME DeskInv, NEW g \in DOMAIN desk, SaleChecked(g)
  PROVE  DeskInv'
<1> USE DEF DeskInv, mainVars, bookedVars, appVars, sellVars, counterVars, boundVars
<1>1. /\ desk[g].line # <<>> /\ Head1(g).op = "sale" /\ Head1(g).turn = 1
      /\ desk' = Again(g, Head1(g).arg)
  BY DEF SaleChecked, Runs
<1>2. Head1(g).arg \in Drafts
  BY <1>1, SaleInHand
<1>3. number' = number /\ number \in [Base -> Nat] /\ \A b \in Base : number[b] <= number'[b]
  BY DEF DeskTypeOK, SaleChecked
<1>4. Head1(g).turn + 1 # 3
  BY <1>1
<1>5. QED
  BY <1>1, <1>2, <1>3, <1>4, SaleGoesOn DEF SaleChecked

LEMMA NumberTakenKept ==
  ASSUME DeskInv, NEW g \in DOMAIN desk, NumberTaken(g)
  PROVE  DeskInv'
<1> USE DEF DeskInv, mainVars, bookedVars, appVars, sellVars, counterVars, boundVars
<1>1. desk[g].line # <<>> /\ Head1(g).op = "sale"
  BY DEF NumberTaken, Runs
<1>2. Head1(g).arg \in Drafts /\ desk[g].base \in Base
  BY <1>1, SaleInHand
<1>3. number \in [Base -> Nat] /\ number' = [number EXCEPT ![desk[g].base] = @ + 1]
  BY DEF DeskTypeOK, NumberTaken
<1>4. /\ number' \in [Base -> Nat] /\ number'[desk[g].base] \in Nat \ {0}
      /\ \A b \in Base : number[b] <= number'[b]
  BY <1>2, <1>3
<1>5. PICK n : n = number'[desk[g].base]
  OBVIOUS
<1>6. PICK a : a = [Head1(g).arg EXCEPT !.no = n]
  OBVIOUS
<1>7. n \in Nat \ {0}
  BY <1>4, <1>5
<1>8. /\ a \in Drafts /\ a.no = n
      /\ \A f \in {"customer", "lines", "wanted", "staff", "shown", "named", "unsaved"} : a[f] = Head1(g).arg[f]
  BY <1>2, <1>6, <1>7 DEF Drafts
<1>9. desk' = Again(g, a)
  BY <1>5, <1>6 DEF NumberTaken
<1>10. a.no \in 1..number'[desk[g].base]
  BY <1>5, <1>7, <1>8
<1>11. QED
  BY <1>1, <1>4, <1>8, <1>9, <1>10, SaleGoesOn DEF NumberTaken

\* The receipt of a sale in line is as its sale was.
LEMMA EntryAsPressed ==
  ASSUME DeskInv, NEW g \in DOMAIN desk, Runs(g, "sale", 3),
         booked' = booked \cup {Entry(g, Head1(g).arg.staff)},
         UNCHANGED number, hasty \subseteq hasty'
  PROVE  BookInv' /\ booked' \subseteq Entries
<1> DEFINE a == Head1(g).arg
<1>1. desk[g].line # <<>> /\ Head1(g).op = "sale" /\ Head1(g).turn = 3
  BY DEF Runs, DeskInv, DeskTypeOK
<1>2. PICK x \in Said(desk) : x[1] = desk[g].base /\ x[2] = Head1(g) /\ DraftOK(x)
  BY <1>1, SaleInHand
<1>3. a \in Drafts /\ desk[g].base \in Base
  BY <1>1, SaleInHand
<1>4. /\ a.staff = a.shown /\ (desk[g].base = a.named \/ a.unsaved)
      /\ (\A h \in hasty : h > a.customer) => a.lines = a.wanted
      /\ a.no \in 1..number[desk[g].base]
  BY <1>1, <1>2 DEF DraftOK, AsPressed
<1>5. PICK r : r = Entry(g, a.staff)
  OBVIOUS
<1>6. /\ r.base = desk[g].base /\ r.no = a.no /\ r.staff = a.staff /\ r.shown = a.shown
      /\ r.named = a.named /\ r.unsaved = a.unsaved /\ r.customer = a.customer /\ r.lines = a.lines /\ r.wanted = a.wanted
      /\ r \in Entries
  BY <1>3, <1>5 DEF Entry, Entries, Drafts
<1>7. booked' = booked \cup {r}
  BY <1>5
<1> HIDE DEF a
<1>8. booked' \subseteq Entries
  BY <1>6, <1>7 DEF DeskInv, DeskTypeOK
<1>9. BookInv'
  <2>1. BookInv
    BY DEF DeskInv
  <2>2. \A q \in booked' : q.no \in 1..number'[q.base]
    BY <2>1, <1>4, <1>6, <1>7 DEF BookInv
  <2>3. BookedAsPressed'
    BY <2>1, <1>1, <1>4, <1>6, <1>7 DEF BookInv, BookedAsPressed
  <2>4. PicksReachTheReceipt'
    BY <2>1, <1>4, <1>6, <1>7 DEF BookInv, PicksReachTheReceipt
  <2>5. QED
    BY <2>2, <2>3, <2>4 DEF BookInv
<1>10. QED
  BY <1>8, <1>9

LEMMA PostedKept ==
  ASSUME DeskInv, NEW g \in DOMAIN desk, Posted(g)
  PROVE  DeskInv'
<1> USE DEF DeskInv, mainVars, bookedVars, appVars, sellVars, counterVars, boundVars
<1>1. Tidy(desk) /\ (Newest(desk, conf) \/ unsaved)
  BY TidyDesk
<1>2. /\ Runs(g, "sale", 3) /\ desk[g].line # <<>> /\ Head1(g).op = "sale" /\ desk' = MovedOn(g)
      /\ Recorded(g)
      /\ UNCHANGED <<mainVars, number, appVars, panel, receipt, counterVars, boundVars>>
  BY DEF Posted, Runs
<1>3. customer \in Nat /\ customer <= customer
  BY DEF DeskTypeOK
<1>4. BookInv' /\ booked' \subseteq Entries
  BY <1>2, <1>3, EntryAsPressed DEF Posted
<1>5. /\ Follows(desk, desk')
      /\ \A x \in Said(desk') : Apart(Head1(g), x[2])
  BY <1>1, <1>2, MovedOnIdly, MovingOn DEF Picked
<1>6. LineInv' /\ desk' \in Seq(Object) /\ desk' # <<>>
  <2>1. Tidy(desk') /\ (Newest(desk', conf') \/ unsaved')
    BY <1>1, <1>2, <1>5 DEF Follows
  <2>2. QED
    BY <2>1, LineKept
<1>7. Still({"login"}, Said(desk), Said(desk')) /\ Still({"sale"}, Said(desk), Said(desk'))
      /\ Still({"cost"}, Said(desk), Said(desk'))
      /\ \A y \in Said(desk) : Picked(y[2]) => y \in Said(desk')
  BY <1>5 DEF Follows, Still, Watched
<1>8. LoginInv'
  BY <1>2, <1>7, LoginKept
<1>9. CASE ~ Head1(g).live
  <2>1. UNCHANGED <<cart, busy, done>>
    BY <1>2, <1>9 DEF Recorded
  <2>2. DraftInv' /\ BasketInv'
    BY <1>1, <1>2, <1>3, <1>7, <2>1, DraftKept, BasketKept
  <2>3. DeskTypeOK'
    BY <2>1, <1>2, <1>4, <1>6 DEF DeskTypeOK
  <2>4. QED
    BY <2>2, <2>3, <1>4, <1>6, <1>8
<1>10. CASE Head1(g).live
  <2>1. cart' = {} /\ busy' = FALSE /\ done' = TRUE
    BY <1>2, <1>10 DEF Recorded
  <2>2. \A x \in Said(desk') : ~ (x[2].op = "sale" /\ x[2].live)
    BY <1>2, <1>5, <1>10 DEF Apart
  <2>3. DraftInv'
    BY <1>1, <1>2, <1>3, <1>7, <2>2, DraftKept
  <2>4. busy
    <3>1. PICK x \in Said(desk) : x[2] = Head1(g) /\ DraftOK(x)
      BY <1>2, SaleInHand
    <3>2. QED
      BY <3>1, <1>10 DEF DraftOK
  <2>5. BasketInv'
    <3>1. ASSUME NEW x \in Said(desk'), Picked(x[2])
          PROVE  \E y \in Said(desk) : Picked(y[2]) /\ y[2].arg = x[2].arg
      BY <3>1, <1>7 DEF Still, Of, Picked
    <3>2. UNCHANGED <<tapped, hasty, taps>>
      BY <1>2
    <3>3. \A x \in Said(desk') : Picked(x[2]) => x[2].arg.item \in (1..taps') \ cart'
      BY <3>1, <3>2, <2>1 DEF BasketInv
    <3>4. hasty' = {} => \A x \in Said(desk') : ~ Picked(x[2])
      BY <3>1, <3>2, <2>4 DEF BasketInv
    <3>5. QED
      BY <3>3, <3>4, <2>1 DEF BasketInv
  <2>6. DeskTypeOK'
    BY <2>1, <1>2, <1>4, <1>6 DEF DeskTypeOK
  <2>7. QED
    BY <2>3, <2>5, <2>6, <1>4, <1>6, <1>8
<1>11. QED
  BY <1>9, <1>10

-----------------------------------------------------------------------------
(* Settings, and what fails.                                               *)

LEMMA SaveKept ==
  ASSUME DeskInv, NEW b \in Base, SaveSettings(b)
  PROVE  DeskInv'
<1> USE DEF DeskInv, mainVars, bookedVars, appVars, sellVars, counterVars, boundVars
<1>1. Tidy(desk)
  BY TidyDesk
<1>2. /\ conf' = b /\ file' = b /\ unsaved' = FALSE /\ saves' = saves + 1 /\ desk' = Reset(desk)
      /\ UNCHANGED <<session, bookedVars, appVars, sellVars, panel, receipt, counterVars, taps, sales, asks, mishaps>>
  BY DEF SaveSettings
<1>3. Tidy(desk') /\ Said(desk') = Said(desk) /\ Newest(desk', conf')
  BY <1>1, <1>2, LetGo DEF Newest
<1>4. LineInv' /\ desk' \in Seq(Object) /\ desk' # <<>>
  BY <1>3, LineKept
<1>5. LoginInv' /\ DraftInv' /\ BasketInv' /\ BookInv'
  BY <1>2, <1>3 DEF LoginInv, DraftInv, DraftOK, AsPressed, BasketInv, BookInv, BookedAsPressed,
                    PicksReachTheReceipt
<1>6. DeskTypeOK'
  <2>1. saves' \in Nat
    BY <1>2 DEF DeskTypeOK
  <2>2. unsaved' = FALSE
    BY <1>2
  <2>3. unsaved' \in BOOLEAN
    BY <2>2
  <2>4. QED
    BY <1>2, <1>4, <2>1, <2>3 DEF DeskTypeOK
<1>7. QED
  BY <1>4, <1>5, <1>6

LEMMA SaveFailsKept ==
  ASSUME DeskInv, NEW b \in Base, SaveFails(b)
  PROVE  DeskInv'
<1> USE DEF DeskInv, mainVars, bookedVars, appVars, sellVars, counterVars, boundVars
<1>1. Tidy(desk)
  BY TidyDesk
<1>2. /\ conf' = b /\ unsaved' = TRUE /\ mishaps' = mishaps + 1 /\ mishaps \in Nat
      /\ UNCHANGED <<session, file, desk, bookedVars, appVars, sellVars, panel, receipt, counterVars, taps, sales, asks, saves>>
  BY DEF SaveFails, Mishap, DeskTypeOK
<1>3. mishaps' \in Nat /\ unsaved'
  BY <1>2
<1>4. LineInv' /\ desk' \in Seq(Object) /\ desk' # <<>>
  BY <1>1, <1>2, <1>3, LineKept
<1>5. LoginInv' /\ DraftInv' /\ BasketInv' /\ BookInv'
  BY <1>2, <1>3 DEF LoginInv, DraftInv, DraftOK, AsPressed, BasketInv, BookInv, BookedAsPressed,
                    PicksReachTheReceipt
<1>6. DeskTypeOK'
  BY <1>2, <1>3, <1>4 DEF DeskTypeOK
<1>7. QED
  BY <1>4, <1>5, <1>6

LEMMA CloseWindowKept ==
  ASSUME DeskInv, CloseWindow
  PROVE  DeskInv'
<1> USE DEF DeskInv, mainVars, bookedVars, appVars, sellVars, counterVars, boundVars
<1> DEFINE left == Dropped(desk, ScreenOps \cup AppOps)
<1>1. Tidy(desk)
  BY TidyDesk
<1>2. Tidy(left) /\ Len(left) = Len(desk)
  BY <1>1, Dropping
<1>3. /\ Still(Watched, Said(desk), Said(left))
      /\ \A x \in Said(left) : x[2].live => x[2].op \notin ScreenOps \cup AppOps
  BY <1>1, Left
<1>4. /\ session' = NoUser /\ who' = NoUser /\ allowed' = {} /\ conf' = file /\ unsaved' = FALSE /\ screen' = "login"
      /\ panel' = NoPanel /\ Leave /\ desk' = Reset(left) /\ asks' = asks + 1
      /\ UNCHANGED <<file, bookedVars, taps, sales, saves, mishaps>>
  BY DEF CloseWindow, Press
<1> HIDE DEF left
<1>5. Tidy(desk') /\ Said(desk') = Said(left) /\ Newest(desk', conf')
  BY <1>2, <1>4, LetGo DEF Newest
<1>6. LineInv' /\ desk' \in Seq(Object) /\ desk' # <<>>
  BY <1>5, LineKept
<1>7. LoginInv'
  BY <1>3, <1>4, <1>5 DEF LoginInv, AppOps
<1>8. Still({"sale"}, Said(desk), Said(desk'))
      /\ \A x \in Said(desk') : x[2].live => x[2].op \notin {"sale", "cost"}
  BY <1>3, <1>5 DEF Still, ScreenOps, Watched
<1>9. /\ DraftInv' /\ BasketInv' /\ BookInv'
      /\ customer' \in Nat \ {0} /\ hasty' \subseteq 1..customer'
      /\ cart' = {} /\ tapped' = {} /\ busy' = FALSE /\ done' = FALSE
      /\ receipt' \in 0..MaxSale
  BY <1>4, <1>8, LeftKept
<1>10. NoPanel \in PanelType
  BY DEF PanelType, NoPanel
<1>11. asks' \in Nat
  BY <1>4 DEF DeskTypeOK
<1>12. DeskTypeOK'
  BY <1>4, <1>6, <1>9, <1>10, <1>11 DEF DeskTypeOK, PanelType
<1>13. QED
  BY <1>6, <1>7, <1>9, <1>12

\* What an error leaves, except for the receipts.
LEMMA FailedKept ==
  ASSUME DeskInv, NEW g \in DOMAIN desk, desk[g].line # <<>>, Failed(g), desk' = MovedOn(g),
         mishaps' \in Nat
  PROVE  /\ LineInv' /\ LoginInv' /\ DraftInv' /\ BasketInv'
         /\ booked' \subseteq Entries => DeskTypeOK'
<1> USE DEF DeskInv, mainVars, bookedVars, appVars, sellVars, counterVars, boundVars
<1> DEFINE c == Head1(g)
<1>1. Tidy(desk) /\ (Newest(desk, conf) \/ unsaved)
  BY TidyDesk
<1>2. /\ Tidy(desk') /\ Len(desk') = Len(desk)
      /\ \A h \in DOMAIN desk : desk'[h].base = desk[h].base
      /\ c \in Call
      /\ Said(desk) = Said(desk') \cup {<<desk[g].base, c>>}
      /\ \A x \in Said(desk') : Apart(c, x[2])
  BY <1>1, MovingOn
<1>3. /\ allowed' = IF c.op = "rights" /\ c.live THEN {} ELSE allowed
      /\ tapped' = IF c.op = "cost" /\ c.live THEN tapped \ {c.arg.item} ELSE tapped
      /\ busy' = IF c.op = "sale" /\ c.live THEN FALSE ELSE busy
      /\ panel' = IF c.op \in Panel /\ c.live
                  THEN [panel EXCEPT ![c.op] = [@ EXCEPT !.loading = FALSE, !.error = TRUE]] ELSE panel
      /\ UNCHANGED <<mainVars, number, who, screen, cart, done, receipt, customer, hasty, taps, sales, asks, saves>>
  BY DEF Failed
<1>4. PICK x \in Said(desk) : x[2] = c
  <2>1. PICK x : x = <<desk[g].base, c>>
    OBVIOUS
  <2>2. x \in Said(desk) /\ x[2] = c
    BY <2>1, <1>2
  <2>3. QED
    BY <2>2
<1> HIDE DEF c
<1>5. LineInv' /\ desk' \in Seq(Object) /\ desk' # <<>>
  <2>1. Len(desk) \in DOMAIN desk
    BY <1>1, TidyParts DEF DeskTypeOK
  <2>2. Newest(desk', conf') \/ unsaved'
    BY <2>1, <1>1, <1>2, <1>3 DEF Newest
  <2>3. QED
    BY <2>2, <1>2, LineKept
<1>6. Still({"login"}, Said(desk), Said(desk')) /\ Still({"sale"}, Said(desk), Said(desk'))
  BY <1>2 DEF Still, Of
<1>7. LoginInv'
  BY <1>3, <1>6, LoginKept
<1>8. DraftInv'
  <2>1. customer \in Nat /\ customer <= customer
    BY DEF DeskTypeOK
  <2>2. busy' = busy \/ \A y \in Said(desk') : ~ (y[2].op = "sale" /\ y[2].live)
    BY <1>2, <1>3 DEF Apart
  <2>3. QED
    BY <2>1, <2>2, <1>1, <1>3, <1>6, DraftKept
<1>9. BasketInv'
  <2>1. \A y \in Said(desk') : y \in Said(desk)
    BY <1>2
  <2>2. UNCHANGED <<cart, done, hasty, taps>> /\ (~ busy => ~ busy')
    BY <1>3
  <2>3. CASE Picked(c)
    <3>1. PICK n : n = c.arg.item
      OBVIOUS
    <3>2. tapped' = tapped \ {n}
      BY <2>3, <3>1, <1>3 DEF Picked
    <3>3. n \notin cart
      BY <2>3, <3>1, <1>4 DEF BasketInv
    <3>4. \A y \in Said(desk') : Picked(y[2]) => y[2].arg.item # n
      BY <2>3, <3>1, <1>2 DEF Picked, Apart
    <3>5. \A y \in Said(desk) : Picked(y[2]) => y \in Said(desk') \/ y[2].arg.item = n
      BY <3>1, <1>2
    <3>6. QED
      BY <2>1, <2>2, <3>2, <3>3, <3>4, <3>5 DEF BasketInv
  <2>4. CASE ~ Picked(c)
    <3>1. tapped' = tapped
      BY <2>4, <1>3 DEF Picked
    <3>2. \A y \in Said(desk) : Picked(y[2]) => y \in Said(desk')
      BY <2>4, <1>2
    <3>3. QED
      BY <2>1, <2>2, <3>1, <3>2 DEF BasketInv
  <2>5. QED
    BY <2>3, <2>4
<1>10. ASSUME booked' \subseteq Entries
       PROVE  DeskTypeOK'
  <2>1. panel \in PanelType
    BY DEF DeskTypeOK, PanelType
  <2>2. panel' \in PanelType
    <3>1. CASE c.op \in Panel /\ c.live
      <4>1. [panel[c.op] EXCEPT !.loading = FALSE, !.error = TRUE]
              \in [key : Key \cup {Nothing}, shows : Key \cup {Nothing}, loading : BOOLEAN, error : BOOLEAN]
        BY <2>1, <3>1 DEF PanelType
      <4>2. QED
        BY <4>1, <2>1, <3>1, <1>3 DEF PanelType
    <3>2. CASE ~ (c.op \in Panel /\ c.live)
      BY <3>2, <2>1, <1>3
    <3>3. QED
      BY <3>1, <3>2
  <2>3. /\ allowed' \subseteq Gated /\ tapped' \subseteq 1..taps /\ busy' \in BOOLEAN
    BY <1>3 DEF DeskTypeOK
  <2>4. QED
    BY <2>2, <2>3, <1>3, <1>5, <1>10 DEF DeskTypeOK, PanelType
<1>11. QED
  BY <1>5, <1>7, <1>8, <1>9, <1>10

LEMMA LostKept ==
  ASSUME DeskInv, NEW g \in DOMAIN desk, StatementFails(g) \/ PoolClosed(g)
  PROVE  DeskInv'
<1> USE DEF DeskInv, bookedVars
<1>1. desk[g].line # <<>> /\ Failed(g) /\ desk' = MovedOn(g)
  BY DEF StatementFails, PoolClosed
<1>2. mishaps' \in Nat
  BY DEF DeskTypeOK, StatementFails, PoolClosed, Mishap
<1>3. /\ LineInv' /\ LoginInv' /\ DraftInv' /\ BasketInv'
      /\ booked' \subseteq Entries => DeskTypeOK'
  BY <1>1, <1>2, FailedKept
<1>4. UNCHANGED <<number, hasty>> /\ hasty \subseteq hasty'
  BY <1>1 DEF Failed
<1>5. CASE UNCHANGED booked
  <2>1. booked' \subseteq Entries /\ BookInv'
    BY <1>2, <1>4, <1>5, BookKept DEF DeskTypeOK
  <2>2. QED
    BY <2>1, <1>3
<1>6. CASE Runs(g, "sale", 3) /\ booked' = booked \cup {Entry(g, Head1(g).arg.staff)}
  <2>1. BookInv' /\ booked' \subseteq Entries
    BY <1>2, <1>4, <1>6, EntryAsPressed
  <2>2. QED
    BY <2>1, <1>3
<1>7. QED
  BY <1>5, <1>6 DEF StatementFails, PoolClosed

-----------------------------------------------------------------------------
(* The desk.                                                               *)

LEMMA DeskInitInv == DeskInit => DeskInv
<1> SUFFICES ASSUME DeskInit
             PROVE  DeskInv
  OBVIOUS
<1> USE DEF DeskInit
<1>1. desk \in Seq(Object) /\ Len(desk) = 1 /\ desk[1] = NewDesk /\ DOMAIN desk = {1} /\ desk # <<>>
  <2>1. NewDesk \in Object
    <3>1. <<>> \in Seq(Call)
      BY EmptySeq
    <3>2. QED
      BY <3>1 DEF NewDesk, Object
  <2>2. QED
    BY <2>1
<1>2. NewDesk.base = Nothing /\ NewDesk.line = <<>> /\ DOMAIN NewDesk.line = {}
  BY EmptySeq DEF NewDesk
<1>3. Said(desk) = {}
  BY <1>1, <1>2, Stands
<1>4. DeskTypeOK
  <2>1. Home \in Base /\ MaxSale \in Nat
    BY DeskConstantsOK
  <2>2. panel \in [Panel -> [key : Key \cup {Nothing}, shows : Key \cup {Nothing},
                             loading : BOOLEAN, error : BOOLEAN]]
    BY DEF NoPanel
  <2>3. /\ number \in [Base -> Nat] /\ booked \subseteq Entries
        /\ {taps, sales, asks, saves, mishaps} \subseteq Nat
        /\ cart \subseteq 1..taps /\ tapped \subseteq 1..taps /\ {busy, done} \subseteq BOOLEAN
        /\ receipt \in 0..MaxSale
    <3>1. number \in [Base -> Nat] /\ booked \subseteq Entries
      OBVIOUS
    <3>2. {taps, sales, asks, saves, mishaps} \subseteq Nat
      OBVIOUS
    <3>3. cart \subseteq 1..taps /\ tapped \subseteq 1..taps
      OBVIOUS
    <3>4. {busy, done} \subseteq BOOLEAN
      OBVIOUS
    <3>5. receipt \in 0..MaxSale
      BY <2>1 DEF NoReceipt
    <3>6. QED
      BY <3>1, <3>2, <3>3, <3>4, <3>5
  <2>4. /\ customer \in Nat \ {0} /\ hasty \subseteq 1..customer
        /\ session \in User \cup {NoUser} /\ who \in User \cup {NoUser}
        /\ conf \in Base /\ file \in Base
        /\ screen \in Screen \cup {"login"} /\ allowed \subseteq Gated
    BY <2>1
  <2>5. unsaved = FALSE
    OBVIOUS
  <2> HIDE DEF DeskInit
  <2>6. unsaved \in BOOLEAN
    BY <2>5
  <2>7. QED
    BY <1>1, <2>2, <2>3, <2>4, <2>6 DEF DeskTypeOK
<1>5. LineInv
  BY <1>1, <1>2 DEF LineInv, Now, Alone
<1>6. LoginInv /\ DraftInv /\ BasketInv
  BY <1>3 DEF LoginInv, DraftInv, BasketInv
<1>7. BookInv
  BY DEF BookInv, BookedAsPressed, PicksReachTheReceipt
<1>8. QED
  BY <1>4, <1>5, <1>6, <1>7 DEF DeskInv

LEMMA LineStepKept ==
  ASSUME DeskInv, NEW g \in DOMAIN desk, LineStep(g)
  PROVE  DeskInv'
BY AuthenticatedKept, SignedInKept, RightsKept, CostKept, SaleCheckedKept, NumberTakenKept,
   PostedKept, PanelKept, ReceiptKept, LostKept, UnheardKept DEF LineStep

LEMMA FiguresKept ==
  ASSUME DeskInv, \/ \E k \in Key : Search(k) \/ OpenItem(k) \/ ChooseRange(k) \/ OpenSale(k)
                  \/ ShowMore
  PROVE  DeskInv'
<1>1. "list" \in Panel /\ "detail" \in Panel
  BY DEF Panel
<1>2. ASSUME NEW k \in Key, Search(k) \/ OpenItem(k) \/ ChooseRange(k) \/ OpenSale(k)
      PROVE  DeskInv'
  <2>1. Load("list", k) \/ Load("detail", k)
    BY <1>2 DEF Search, OpenItem, ChooseRange, OpenSale
  <2>2. QED
    BY <1>1, <2>1, LoadKept
<1>3. CASE ShowMore
  <2>1. panel["list"].key \in Key \cup {Nothing}
    BY <1>1 DEF DeskInv, DeskTypeOK
  <2>2. QED
    BY <1>1, <1>3, <2>1, LoadKept DEF ShowMore
<1>4. QED
  BY <1>2, <1>3

LEMMA DeskStepInv == DeskInv /\ [DeskNext]_deskVars => DeskInv'
<1> SUFFICES ASSUME DeskInv, [DeskNext]_deskVars
             PROVE  DeskInv'
  OBVIOUS
<1>1. ASSUME NEW u \in User, SignIn(u)
      PROVE  DeskInv'
  BY <1>1, SignInKept
<1>2. CASE SignOut
  BY <1>2, SignOutKept
<1>3. ASSUME NEW s \in Screen, Go(s)
      PROVE  DeskInv'
  BY <1>3, GoKept
<1>4. CASE Tap \/ Complete \/ NextSale
  BY <1>4, TapKept, CompleteKept, NextSaleKept
<1>5. ASSUME NEW i \in cart, RemoveLine(i)
      PROVE  DeskInv'
  BY <1>5, RemoveKept
<1>6. ASSUME NEW k \in Key, ChooseDay(k) \/ Search(k) \/ OpenItem(k) \/ ChooseRange(k) \/ OpenSale(k)
      PROVE  DeskInv'
  BY <1>6, ChooseDayKept, FiguresKept
<1>7. CASE ShowMore
  BY <1>7, FiguresKept
<1>8. CASE (\E n \in 0..MaxSale : OpenReceipt(n)) \/ CloseReceipt
  BY <1>8, ReceiptKept
<1>9. CASE CloseWindow
  BY <1>9, CloseWindowKept
<1>10. ASSUME NEW b \in Base, SaveSettings(b) \/ SaveFails(b)
       PROVE  DeskInv'
  BY <1>10, SaveKept, SaveFailsKept
<1>11. ASSUME NEW g \in DOMAIN desk, LineStep(g)
       PROVE  DeskInv'
  BY <1>11, LineStepKept
<1>12. CASE UNCHANGED deskVars
  <2> USE DEF deskVars, mainVars, bookedVars, appVars, sellVars, counterVars, boundVars
  <2>1. LineInv' /\ LoginInv' /\ DraftInv' /\ BasketInv' /\ BookInv'
    BY <1>12 DEF DeskInv, LineInv, LoginInv, DraftInv, DraftOK, AsPressed, BasketInv, BookInv,
                 BookedAsPressed, PicksReachTheReceipt, Now
  <2>2. DeskTypeOK'
    BY <1>12 DEF DeskInv, DeskTypeOK
  <2>3. QED
    BY <2>1, <2>2 DEF DeskInv
<1>13. QED
  BY <1>1, <1>2, <1>3, <1>4, <1>5, <1>6, <1>7, <1>8, <1>9, <1>10, <1>11, <1>12 DEF DeskNext

\* The inductive invariant of the desk.
THEOREM DeskHolds == DeskSpec => []DeskInv
BY DeskInitInv, DeskStepInv, PTL DEF DeskSpec

\* Every reachable state of the desk is well typed, what waits in each line and every
\* receipt included.
THEOREM DeskTypeCorrect == DeskSpec => []DeskTypeOK
<1>1. DeskInv => DeskTypeOK
  BY DEF DeskInv
<1>2. QED
  BY <1>1, DeskHolds, PTL

\* Whatever screens, users, settings and answers come in between, a receipt is in the
\* name of the user the till showed and in the database its settings named when
\* Complete was pressed, unless settings could not be written.
THEOREM SalesAsPressed == DeskSpec => []BookedAsPressed
<1>1. DeskInv => BookedAsPressed
  BY DEF DeskInv, BookInv
<1>2. QED
  BY <1>1, DeskHolds, PTL

\* A receipt holds what was tapped and not removed, unless Complete was pressed with
\* an item on its way, or one tapped while the sale was being recorded, for that
\* customer or an earlier one.
THEOREM PicksKept == DeskSpec => []PicksReachTheReceipt
<1>1. DeskInv => PicksReachTheReceipt
  BY DEF DeskInv, BookInv
<1>2. QED
  BY <1>1, DeskHolds, PTL
=============================================================================
