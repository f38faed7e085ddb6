------------------------------ MODULE TillSale ------------------------------
(***************************************************************************)
(* Ringing up a sale on the new till (apps/desktop) and recording it       *)
(* (packages/fumas-core, postSale).  The basket is priced in cents and the *)
(* double entry proved before anything is written; the receipt number is   *)
(* taken from the counter nauto in a short transaction of its own; header, *)
(* lines, tenders, ledger legs and stock follow in a second one.  Several  *)
(* tills sell at once, and FumasV5 tills take numbers from the same counter*)
(* without locking it.                                                     *)
(***************************************************************************)
EXTENDS Integers, FiniteSets

CONSTANTS
  Till,       \* new tills
  Nobody,
  Goods,      \* lines that get sold: [total, disc, cost, taxable, inclusive]
  Over,       \* what a customer hands over beyond the total
  VatRate,    \* per cent (nauto.vat)
  MaxLine,    \* bound: lines in a basket
  MaxDeal,    \* bound: baskets
  MaxLegacy,  \* bound: receipts printed by FumasV5
  MaxFault    \* bound: failed statements, lost answers, crashes

Shilling == 100   \* cents

Item == [total : Nat, disc : Nat, cost : Nat, taxable : BOOLEAN, inclusive : BOOLEAN]

ASSUME TillConstantsOK ==
  /\ Nobody \notin Till
  /\ \A l \in Goods : l \in Item /\ l.disc <= l.total
  /\ Over \subseteq Nat
  /\ VatRate \in Nat
  /\ {MaxLine, MaxDeal, MaxLegacy, MaxFault} \subseteq Nat

VARIABLES
  bill,           \* bill[t]: the sums of till t's basket
  at,             \* at[t]: how far its sale has got
  deal,           \* deal[t]: which basket this is
  no,             \* no[t]: its receipt number
  paid,           \* paid[t]: what was tendered
  deals,          \* baskets begun
  counter,        \* nauto.pos
  holder,         \* the till whose transaction has nauto's row locked
  legacy,         \* a FumasV5 till between reading the counter and using it
  book,           \* the posted receipts
  skew,           \* journal_transactions: debits less credits
  rounding,       \* what went to the rounding account, on either side
  open,           \* whether the accounting period is open
  faults

tillVars == <<bill, at, deal, no, paid, deals>>
bookVars == <<book, skew, rounding>>
vars == <<tillVars, counter, holder, legacy, bookVars, open, faults>>

Bill == [net : Nat, revenue : Nat, vat : Nat, disc : Nat, cost : Nat, lines : Nat]
NoBill == [net |-> 0, revenue |-> 0, vat |-> 0, disc |-> 0, cost |-> 0, lines |-> 0]

TypeOK ==
  /\ bill \in [Till -> Bill]
  /\ at \in [Till -> {"basket", "checked", "bumped", "numbered", "posting"}]
  /\ deal \in [Till -> Nat] /\ no \in [Till -> Nat] /\ paid \in [Till -> Nat]
  /\ deals \in Nat
  /\ counter \in Nat
  /\ holder \in Till \cup {Nobody}
  /\ legacy \in [reading : BOOLEAN, read : Nat]
  /\ book \subseteq [no : Nat, deal : Nat]
  /\ skew \in Int /\ rounding \in Nat
  /\ open \in BOOLEAN
  /\ faults \in 0..MaxFault

Init ==
  /\ bill = [t \in Till |-> NoBill]
  /\ at = [t \in Till |-> "basket"]
  /\ deal = [t \in Till |-> 0] /\ no = [t \in Till |-> 0] /\ paid = [t \in Till |-> 0]
  /\ deals = 0 /\ counter = 0 /\ holder = Nobody
  /\ legacy = [reading |-> FALSE, read |-> 0]
  /\ book = {} /\ skew = 0 /\ rounding = 0
  /\ open = TRUE /\ faults = 0

Fault == faults < MaxFault /\ faults' = faults + 1

-----------------------------------------------------------------------------
(* Money.                                                                  *)

\* Math.round of a quotient of naturals.
Round(n, d) == (2 * n + d) \div (2 * d)

\* VAT is worked out after the discount: taken out of an inclusive price, put on
\* top of an exclusive one.
Vat(l) ==
  LET base == l.total - l.disc IN
    CASE ~ l.taxable -> 0
      [] l.taxable /\ l.inclusive -> Round(base * VatRate, 100 + VatRate)
      [] OTHER -> Round(base * VatRate, 100)

LineNet(l)     == IF l.inclusive THEN l.total - l.disc ELSE l.total + Vat(l) - l.disc

\* What the line is credited to revenue: gross of the discount, without the tax.
LineRevenue(l) == IF l.inclusive THEN l.total - Vat(l) ELSE l.total

Plus(b, l) ==
  [net     |-> b.net + LineNet(l),   revenue |-> b.revenue + LineRevenue(l),
   vat     |-> b.vat + Vat(l),       disc    |-> b.disc + l.disc,
   cost    |-> b.cost + l.cost,      lines   |-> b.lines + 1]

\* pos_header.amount: the nets, rounded up to whole shillings.
Ceiling(n) == ((n + Shilling - 1) \div Shilling) * Shilling
Due(b)     == Ceiling(b.net)

\* buildGlLegs: money in, discount and cost of sales against change, revenue,
\* VAT and the stock relieved.
Debits(b, p)  == p + b.disc + b.cost
Credits(b, p) == (p - Due(b)) + b.revenue + b.vat + b.cost
Gap(b, p)     == Debits(b, p) - Credits(b, p)

\* balanceWithRounding: a gap of a shilling or more is a fault, not rounding.
RoundingDr(b, p) == IF Gap(b, p) < 0 THEN - Gap(b, p) ELSE 0
RoundingCr(b, p) == IF Gap(b, p) > 0 THEN Gap(b, p) ELSE 0
Balanced(b, p) ==
  /\ RoundingDr(b, p) + RoundingCr(b, p) < Shilling
  /\ Debits(b, p) + RoundingDr(b, p) = Credits(b, p) + RoundingCr(b, p)

-----------------------------------------------------------------------------
(* The till.                                                               *)

AddLine(t, l) ==
  /\ at[t] = "basket" /\ bill[t].lines < MaxLine
  /\ IF bill[t].lines = 0
     THEN deals < MaxDeal /\ deals' = deals + 1 /\ deal' = [deal EXCEPT ![t] = deals + 1]
     ELSE UNCHANGED <<deals, deal>>
  /\ bill' = [bill EXCEPT ![t] = Plus(@, l)]
  /\ UNCHANGED <<at, no, paid, counter, holder, legacy, bookVars, open, faults>>

\* The checks before anything is written; whoever tenders less is asked for more.
Check(t, p) ==
  /\ at[t] = "basket" /\ bill[t].lines > 0
  /\ open
  /\ p >= Due(bill[t])
  /\ Balanced(bill[t], p)
  /\ paid' = [paid EXCEPT ![t] = p]
  /\ at' = [at EXCEPT ![t] = "checked"]
  /\ UNCHANGED <<bill, deal, no, deals, counter, holder, legacy, bookVars, open, faults>>

\* Slip: the number is taken with no transaction around it.
mut_BumpCounter(t) ==
  /\ at[t] = "checked"
  /\ counter' = counter + 1
  /\ at' = [at EXCEPT ![t] = "bumped"]
  /\ UNCHANGED <<bill, deal, no, paid, deals, holder, legacy, bookVars, open, faults>>

\* UPDATE nauto SET pos = pos + 1 locks the row until its transaction ends.
BumpCounter(t) ==
  /\ at[t] = "checked" /\ holder = Nobody
  /\ counter' = counter + 1
  /\ holder' = t
  /\ at' = [at EXCEPT ![t] = "bumped"]
  /\ UNCHANGED <<bill, deal, no, paid, deals, legacy, bookVars, open, faults>>

ReadCounter(t) ==
  /\ at[t] = "bumped"
  /\ no' = [no EXCEPT ![t] = counter]
  /\ holder' = Nobody
  /\ at' = [at EXCEPT ![t] = "numbered"]
  /\ UNCHANGED <<bill, deal, paid, deals, counter, legacy, bookVars, open, faults>>

\* The till is ready for another try: what the call knew is forgotten.
Returned(t) ==
  /\ at' = [at EXCEPT ![t] = "basket"]
  /\ no' = [no EXCEPT ![t] = 0]
  /\ paid' = [paid EXCEPT ![t] = 0]

NextBasket(t) == Returned(t) /\ bill' = [bill EXCEPT ![t] = NoBill]

KeepBasket(t) == Returned(t) /\ UNCHANGED bill

Taken(n) == \E b \in book : b.no = n
Waits(t) == \E u \in Till \ {t} : at[u] = "posting" /\ no[u] = no[t]

\* The header goes in first and its number is unique: another transaction with
\* the same one is waited for, and one in the book ends this sale.
InsertHeader(t) ==
  /\ at[t] = "numbered" /\ ~ Waits(t)
  /\ \/ ~ Taken(no[t]) /\ at' = [at EXCEPT ![t] = "posting"] /\ UNCHANGED <<bill, no, paid>>
     \/ Taken(no[t]) /\ KeepBasket(t)
  /\ UNCHANGED <<deal, deals, counter, holder, legacy, bookVars, open, faults>>

\* What a COMMIT makes visible, all at once.
Post(t) ==
  /\ book' = book \cup {[no |-> no[t], deal |-> deal[t]]}
  /\ skew' = skew + (Debits(bill[t], paid[t]) + RoundingDr(bill[t], paid[t]))
                  - (Credits(bill[t], paid[t]) + RoundingCr(bill[t], paid[t]))
  /\ rounding' = rounding + RoundingDr(bill[t], paid[t]) + RoundingCr(bill[t], paid[t])

Commit(t) ==
  /\ at[t] = "posting"
  /\ Post(t) /\ NextBasket(t)
  /\ UNCHANGED <<deal, deals, counter, holder, legacy, open, faults>>

\* Whatever fails is rolled back, the counter with it while its transaction is
\* the one that fails; of a COMMIT only the answer may be what is lost.  The
\* cashier is shown the error over an unchanged basket, or the till goes down.
\* Slip: the sale is written with no transaction around it, so a failure leaves
\* the debits.
mut_SaleFails(t) ==
  /\ at[t] \in {"checked", "bumped", "numbered", "posting"} /\ Fault
  /\ IF at[t] = "bumped"
     THEN counter' = counter - 1 /\ holder' = Nobody
     ELSE UNCHANGED <<counter, holder>>
  /\ IF at[t] = "posting" THEN skew' = skew + Debits(bill[t], paid[t]) ELSE UNCHANGED skew
  /\ KeepBasket(t) \/ NextBasket(t)
  /\ UNCHANGED <<deal, deals, legacy, book, rounding, open>>

SaleFails(t) ==
  /\ at[t] \in {"checked", "bumped", "numbered", "posting"} /\ Fault
  /\ IF at[t] = "bumped"
     THEN counter' = counter - 1 /\ holder' = Nobody
     ELSE UNCHANGED <<counter, holder>>
  /\ (at[t] = "posting" /\ Post(t)) \/ UNCHANGED bookVars
  /\ KeepBasket(t) \/ NextBasket(t)
  /\ UNCHANGED <<deal, deals, legacy, open>>

-----------------------------------------------------------------------------
(* A FumasV5 till, and the accountant.                                     *)

Printed == Cardinality({b \in book : b.deal = 0})

\* It reads what is committed.
LegacyRead ==
  /\ ~ legacy.reading /\ Printed < MaxLegacy
  /\ legacy' = [reading |-> TRUE, read |-> IF holder = Nobody THEN counter + 1 ELSE counter]
  /\ UNCHANGED <<tillVars, counter, holder, bookVars, open, faults>>

\* Its number may have been taken since; the ledger entries FumasV5 posts are its
\* own affair and left out.
LegacyPrint ==
  /\ legacy.reading /\ holder = Nobody
  /\ counter' = counter + 1
  /\ legacy' = [reading |-> FALSE, read |-> 0]
  /\ book' = IF Taken(legacy.read) THEN book ELSE book \cup {[no |-> legacy.read, deal |-> 0]}
  /\ ~ \E t \in Till : at[t] = "posting" /\ no[t] = legacy.read
  /\ UNCHANGED <<tillVars, holder, skew, rounding, open, faults>>

LockPeriod ==
  /\ open
  /\ open' = FALSE
  /\ UNCHANGED <<tillVars, counter, holder, legacy, bookVars, faults>>

-----------------------------------------------------------------------------
Advance(t) == BumpCounter(t) \/ ReadCounter(t) \/ InsertHeader(t) \/ Commit(t)

TillStep(t) ==
  \/ \E l \in Goods : AddLine(t, l)
  \/ \E o \in Over : Check(t, Due(bill[t]) + o)
  \/ Advance(t) \/ SaleFails(t)

Next ==
  \/ \E t \in Till : TillStep(t)
  \/ LegacyRead \/ LegacyPrint \/ LockPeriod

Spec == Init /\ [][Next]_vars

-----------------------------------------------------------------------------
\* Whatever fails, the new till's entries balance: not a cent of the journal is on
\* one side only.  Less than a shilling per receipt is rounding, and no sale paid
\* for is refused as out of balance: whatever is in a basket, VAT and discounts
\* included, its gap is the rounding up of the total.
Receipts == Cardinality({b \in book : b.deal # 0})
JournalBalances ==
  /\ skew = 0 /\ rounding <= (Shilling - 1) * Receipts
  /\ \A t \in Till : Gap(bill[t], Due(bill[t])) \in 0..(Shilling - 1)

\* Two new tills never hold the same receipt number.
HasNumber(t) == at[t] \in {"numbered", "posting"}
NumbersDiffer ==
  \A t, u \in Till : t # u /\ HasNumber(t) /\ HasNumber(u) => no[t] # no[u]

\* The inductive strengthening of the two.  Whoever has the row of nauto locked has
\* raised the counter and not yet read it; a number in hand has been counted before,
\* and is in no receipt when its own is about to be posted.
NumberInv ==
  /\ \A t \in Till : at[t] = "bumped" <=> holder = t
  /\ holder # Nobody => counter > 0
  /\ \A t \in Till : HasNumber(t) => no[t] <= IF holder = Nobody THEN counter ELSE counter - 1
  /\ NumbersDiffer

\* The net of a basket is what its lines are credited with, less the discount.
MoneyInv ==
  /\ \A t \in Till : bill[t].net = bill[t].revenue + bill[t].vat - bill[t].disc
  /\ \A t \in Till : at[t] # "basket" \/ bill[t].lines > 0 => deal[t] # 0
  /\ \A t \in Till : at[t] = "posting" => ~ Taken(no[t])
  /\ IsFiniteSet(book)
  /\ JournalBalances

SaleInv == NumberInv /\ MoneyInv
=============================================================================
