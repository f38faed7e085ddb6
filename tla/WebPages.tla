----------------------------- MODULE WebPages -----------------------------
(***************************************************************************)
(* One tab of the web dashboard (apps/front).  Whatever it has on screen is*)
(* either a list, filled by requests that are never cancelled, so that an  *)
(* older question may be answered after a newer one, or a form, sent by a  *)
(* button that is disabled while the answer is awaited.  The pages differ  *)
(* in what makes them ask, in whether they say that they are loading, in   *)
(* what an error leaves behind, and in what a success clears; each has its *)
(* record here.                                                            *)
(***************************************************************************)
EXTENDS Integers, FiniteSets

CONSTANTS
  MaxQuestion,  \* bound: questions of a list, from opening it to leaving it
  MaxOpen,      \* bound: lists and forms opened
  MaxEntry,     \* bound: things entered in forms
  MaxSend,      \* bound: times one of them is sent
  MaxBroken     \* bound: connections that break

ASSUME WebPagesConstantsOK ==
  /\ {MaxQuestion, MaxOpen} \subseteq Nat \ {0}
  /\ {MaxEntry, MaxSend, MaxBroken} \subseteq Nat

-----------------------------------------------------------------------------
(* Lists.  prompts: what makes the page ask: a filter's button, disabled   *)
(* while loading; a pager under the rows; typing, put off for 250 ms from  *)
(* the last key; free, anything else that may happen at any time, be it a  *)
(* key, a date, a button, a timer or a change just made.  opens: whether it*)
(* asks when it opens, or waits as after a key.  says: it shows that it is *)
(* loading.  onError: what an error leaves, the old rows or none.          *)

List(prompts, opens, says, onError) ==
  [prompts |-> prompts, opens |-> opens, says |-> says, onError |-> onError]

ProductSearch   == List({"typing"}, "idle", FALSE, {"none"})
SupplierSearch  == List({"typing"}, "idle", FALSE, {"none"})
GrnSearch       == List({"typing"}, "waits", TRUE, {"none"})
StockHistory    == List({"free"}, "asks", TRUE, {"none"})
SummaryTab      == List({"free"}, "asks", TRUE, {"none"})
TransactionsTab == List({"button", "pager"}, "asks", TRUE, {"none"})
StockTab        == List({"button", "pager"}, "asks", TRUE, {"none"})
SalesPage       == List({"free", "button", "pager"}, "asks", TRUE, {"none"})
AnalyticsPage   == List({"free", "button"}, "asks", TRUE, {"kept", "none"})
PosCategories   == List({}, "asks", FALSE, {"kept"})
PosProducts     == List({"free"}, "asks", TRUE, {"kept", "none"})
Snapshot        == List({}, "asks", TRUE, {"kept", "none"})
TicketBoard     == List({"free"}, "asks", TRUE, {"kept"})
Photos          == List({"free"}, "asks", FALSE, {"kept"})
Roster          == List({"free"}, "asks", FALSE, {"kept"})
Shifts          == List({"free"}, "asks", FALSE, {"none"})
ReceiptLink     == List({}, "asks", TRUE, {"kept"})

ListOf ==
  [ProductSearch |-> ProductSearch, SupplierSearch |-> SupplierSearch, GrnSearch |-> GrnSearch,
   StockHistory |-> StockHistory, SummaryTab |-> SummaryTab, TransactionsTab |-> TransactionsTab,
   StockTab |-> StockTab, SalesPage |-> SalesPage, AnalyticsPage |-> AnalyticsPage,
   PosCategories |-> PosCategories, PosProducts |-> PosProducts, Snapshot |-> Snapshot,
   TicketBoard |-> TicketBoard, Photos |-> Photos, Roster |-> Roster, Shifts |-> Shifts,
   ReceiptLink |-> ReceiptLink]

(* Forms.  needs: what the button waits for; undoes[f]: what filling in f  *)
(* empties; clears: what a success empties.                                *)

AdjustTab == [needs  |-> {"product", "delta"},
              undoes |-> [product |-> {"delta"}, delta |-> {}],
              clears |-> {"product", "delta"}]

\* A line comes with no cost, and no line may be sent without one.
GrnTab == [needs  |-> {"supplier", "lines", "costs"},
           undoes |-> [supplier |-> {}, lines |-> {"costs"}, costs |-> {}],
           clears |-> {"supplier", "lines", "costs"}]

\* The invoice stays picked, with the balance it had when it was searched for.
GrnPaymentsTab == [needs  |-> {"invoice", "amount"},
                   undoes |-> [invoice |-> {"amount"}, amount |-> {}],
                   clears |-> {"amount"}]

PosSale == [needs  |-> {"cart", "tender"},
            undoes |-> [cart |-> {}, tender |-> {}],
            clears |-> {"cart", "tender"}]

AddPerson == [needs |-> {"name"}, undoes |-> [name |-> {}], clears |-> {"name"}]

AddPhoto  == [needs |-> {"file"}, undoes |-> [file |-> {}], clears |-> {"file"}]

FormOf ==
  [AdjustTab |-> AdjustTab, GrnTab |-> GrnTab, GrnPaymentsTab |-> GrnPaymentsTab,
   PosSale |-> PosSale, AddPerson |-> AddPerson, AddPhoto |-> AddPhoto]

Part  == DOMAIN ListOf \cup DOMAIN FormOf
Entry == 1..MaxEntry
Blank == 0

-----------------------------------------------------------------------------
VARIABLES
  on, opened,       \* what is on screen, and how many have been
  latest, shown,    \* the last question, and the one whose answer is shown
  air, answers,     \* questions not yet served, and answers on their way
  loading,          \* the page's own flag
  waiting,          \* a key was pressed less than 250 ms ago
  overlapped,       \* history: asked while an older question was open
  refused,          \* the last question was answered by an error
  filled, entry,    \* the fields filled in, and which thing they describe
  entries, sends,   \* how many there are, and how often each was sent
  busy,
  posts,            \* requests of forms the server has yet to answer
  recorded, broken  \* history: times an entry was recorded; connections that broke under it

listVars == <<latest, shown, air, answers, loading, waiting, overlapped, refused>>
formVars == <<filled, entry, entries, sends, busy, posts, recorded, broken>>
pageVars == <<on, opened, listVars, formVars>>

IsList == on \in DOMAIN ListOf
IsForm == on \in DOMAIN FormOf
This   == ListOf[on]

PagesTypeOK ==
  /\ on \in Part /\ opened \in 1..MaxOpen
  /\ latest \in 0..MaxQuestion /\ shown \in 0..latest
  /\ air \subseteq 1..latest /\ answers \subseteq (1..latest) \X {"rows", "error"}
  /\ {loading, waiting, overlapped, refused, busy} \subseteq BOOLEAN
  /\ IsForm => filled \subseteq FormOf[on].needs
  /\ entries \in 0..MaxEntry /\ entry \in 0..entries
  /\ posts \subseteq [entry : Entry, try : 1..MaxSend, at : {"sent", "done"}, here : BOOLEAN]
  /\ sends \in [Entry -> 0..MaxSend] /\ recorded \in [Entry -> 0..MaxSend]
  /\ broken \in [Entry -> 0..MaxBroken]

Asks(p) == p \in DOMAIN ListOf /\ ListOf[p].opens = "asks"

PagesInit ==
  /\ on \in Part /\ opened = 1
  /\ latest = IF Asks(on) THEN 1 ELSE 0
  /\ air = 1..latest /\ answers = {} /\ shown = Blank
  /\ loading = Asks(on)
  /\ waiting = (IsList /\ This.opens = "waits")
  /\ overlapped = FALSE /\ refused = FALSE
  /\ filled = {} /\ entry = Blank /\ entries = 0 /\ busy = FALSE
  /\ posts = {} /\ sends = [e \in Entry |-> 0]
  /\ recorded = [e \in Entry |-> 0] /\ broken = [e \in Entry |-> 0]

\* Another tab or page.  What the old one had asked is answered to nobody, what was
\* typed is gone, and what was sent is recorded all the same.
Open(p) ==
  /\ opened < MaxOpen /\ p # on
  /\ on' = p /\ opened' = opened + 1
  /\ latest' = IF Asks(p) THEN 1 ELSE 0
  /\ air' = 1..latest' /\ answers' = {} /\ shown' = Blank
  /\ loading' = Asks(p)
  /\ waiting' = (p \in DOMAIN ListOf /\ ListOf[p].opens = "waits")
  /\ overlapped' = FALSE /\ refused' = FALSE
  /\ filled' = {} /\ entry' = Blank /\ busy' = FALSE
  /\ posts' = {[q EXCEPT !.here = FALSE] : q \in {q \in posts : q.at = "sent"}}
  /\ UNCHANGED <<entries, sends, recorded, broken>>

-----------------------------------------------------------------------------
(* Lists.                                                                  *)

Unanswered == air \cup {a[1] : a \in answers}

\* The request goes out, and the page says that it is loading.
\* Slip: it does not say so.
mut_Ask ==
  /\ latest < MaxQuestion
  /\ latest' = latest + 1 /\ air' = air \cup {latest + 1}
  /\ loading' = loading
  /\ overlapped' = (Unanswered # {})
  /\ refused' = FALSE

Ask ==
  /\ latest < MaxQuestion
  /\ latest' = latest + 1 /\ air' = air \cup {latest + 1}
  /\ loading' = TRUE
  /\ overlapped' = (Unanswered # {})
  /\ refused' = FALSE

AskByButton ==
  /\ IsList /\ "button" \in This.prompts /\ ~loading
  /\ Ask
  /\ UNCHANGED <<on, opened, shown, answers, waiting, formVars>>

AskByPager ==
  /\ IsList /\ "pager" \in This.prompts /\ shown # Blank
  /\ on = "SalesPage" => ~loading
  /\ Ask
  /\ UNCHANGED <<on, opened, shown, answers, waiting, formVars>>

AskFreely ==
  /\ IsList /\ "free" \in This.prompts
  /\ Ask
  /\ UNCHANGED <<on, opened, shown, answers, waiting, formVars>>

\* A key starts the 250 ms anew.
Type ==
  /\ IsList /\ "typing" \in This.prompts
  /\ waiting' = TRUE
  /\ UNCHANGED <<on, opened, latest, shown, air, answers, loading, overlapped, refused, formVars>>

AskAfterTyping ==
  /\ IsList /\ waiting
  /\ waiting' = FALSE
  /\ Ask
  /\ UNCHANGED <<on, opened, shown, answers, formVars>>

\* The page changes the rows itself: they are newer than any answer still to come.
OwnRows ==
  /\ latest < MaxQuestion
  /\ latest' = latest + 1 /\ shown' = latest + 1
  /\ overlapped' = (Unanswered # {})
  /\ refused' = FALSE
  /\ UNCHANGED <<on, opened, air, answers, loading, formVars>>

\* Less than two letters find nothing, without asking.
ClearSearch ==
  /\ on = "ProductSearch" /\ OwnRows
  /\ waiting' = FALSE

\* The ticket that was pressed moves when the press is answered.
MoveCard ==
  /\ on = "TicketBoard" /\ shown # Blank /\ OwnRows
  /\ UNCHANGED waiting

\* The server, or the network, answers in an order of its own.
ServeList(q) ==
  /\ q \in air
  /\ air' = air \ {q}
  /\ \E what \in {"rows", "error"} : answers' = answers \cup {<<q, what>>}
  /\ UNCHANGED <<on, opened, latest, shown, loading, waiting, overlapped, refused, formVars>>

Rows(q) ==
  /\ <<q, "rows">> \in answers
  /\ answers' = answers \ {<<q, "rows">>}
  /\ shown' = q /\ loading' = FALSE
  /\ UNCHANGED <<on, opened, latest, air, waiting, overlapped, refused, formVars>>

Error(q) ==
  /\ <<q, "error">> \in answers
  /\ answers' = answers \ {<<q, "error">>}
  /\ \E left \in This.onError : shown' = IF left = "kept" THEN shown ELSE Blank
  /\ loading' = FALSE
  /\ refused' = (refused \/ q = latest)
  /\ UNCHANGED <<on, opened, latest, air, waiting, overlapped, formVars>>

-----------------------------------------------------------------------------
(* Forms.                                                                  *)

\* The first field of an empty form begins another thing.
Fill(f) ==
  /\ IsForm /\ f \in FormOf[on].needs \ filled
  /\ filled' = (filled \cup {f}) \ FormOf[on].undoes[f]
  /\ IF entry = Blank
     THEN entries < MaxEntry /\ entries' = entries + 1 /\ entry' = entries + 1
     ELSE UNCHANGED <<entries, entry>>
  /\ UNCHANGED <<on, opened, listVars, sends, busy, posts, recorded, broken>>

\* The button is disabled while an answer is awaited.
\* Slip: it is not.
mut_Submit ==
  /\ IsForm /\ FormOf[on].needs \subseteq filled
  /\ sends[entry] < MaxSend
  /\ sends' = [sends EXCEPT ![entry] = @ + 1]
  /\ busy' = TRUE
  /\ posts' = posts \cup {[entry |-> entry, try |-> sends'[entry], at |-> "sent", here |-> TRUE]}
  /\ UNCHANGED <<on, opened, listVars, filled, entry, entries, recorded, broken>>

Submit ==
  /\ IsForm /\ FormOf[on].needs \subseteq filled /\ ~busy
  /\ sends[entry] < MaxSend
  /\ sends' = [sends EXCEPT ![entry] = @ + 1]
  /\ busy' = TRUE
  /\ posts' = posts \cup {[entry |-> entry, try |-> sends'[entry], at |-> "sent", here |-> TRUE]}
  /\ UNCHANGED <<on, opened, listVars, filled, entry, entries, recorded, broken>>

\* The server keeps no key by which it could tell a repetition.
Record(q) ==
  /\ q \in posts /\ q.at = "sent"
  /\ recorded' = [recorded EXCEPT ![q.entry] = @ + 1]
  /\ posts' = (posts \ {q}) \cup (IF q.here THEN {[q EXCEPT !.at = "done"]} ELSE {})
  /\ UNCHANGED <<on, opened, listVars, filled, entry, entries, sends, busy, broken>>

\* What was typed since the button was pressed goes with the rest.
Accepted(q) ==
  /\ q \in posts /\ q.at = "done"
  /\ posts' = posts \ {q}
  /\ filled' = filled \ FormOf[on].clears
  /\ entry' = Blank /\ busy' = FALSE
  /\ UNCHANGED <<on, opened, listVars, entries, sends, recorded, broken>>

\* An error of the server: the form stays as it is, but a file must be chosen again.
Refused(q) ==
  /\ q \in posts /\ q.at = "sent" /\ q.here
  /\ posts' = posts \ {q}
  /\ filled' = IF on = "AddPhoto" THEN {} ELSE filled
  /\ busy' = FALSE
  /\ UNCHANGED <<on, opened, listVars, entry, entries, sends, recorded, broken>>

\* The page hears an error; the request may have been served, or yet be.
ConnectionBreaks(q) ==
  /\ q \in posts /\ q.here /\ broken[q.entry] < MaxBroken
  /\ broken' = [broken EXCEPT ![q.entry] = @ + 1]
  /\ posts' = (posts \ {q}) \cup (IF q.at = "sent" THEN {[q EXCEPT !.here = FALSE]} ELSE {})
  /\ filled' = IF on = "AddPhoto" THEN {} ELSE filled
  /\ busy' = FALSE
  /\ UNCHANGED <<on, opened, listVars, entry, entries, sends, recorded>>

-----------------------------------------------------------------------------
PagesNext ==
  \/ \E p \in Part : Open(p)
  \/ AskByButton \/ AskByPager \/ AskFreely \/ Type \/ AskAfterTyping \/ ClearSearch \/ MoveCard
  \/ \E q \in 1..MaxQuestion : ServeList(q) \/ Rows(q) \/ Error(q)
  \/ IsForm /\ (\E f \in FormOf[on].needs : Fill(f))
  \/ Submit
  \/ \E q \in posts : Record(q) \/ Accepted(q) \/ Refused(q) \/ ConnectionBreaks(q)

Settled == IF This.says THEN ~loading ELSE Unanswered = {}

\* A list that does not say it is loading shows the answer to its last question, unless
\* that was an error, or was asked while an older one had yet to be answered: then the
\* older answer may come last, and stay (the loaders of apps/front; none is cancelled).
ShownIsLastAsked ==
  IsList /\ Settled /\ ~refused => shown = latest \/ overlapped

\* What was entered once is recorded twice only after a connection broke under it: the
\* form is kept, the button works again, and the queue has no key to tell (the submit
\* functions of apps/front, POST /sync/pending-changes, POST /pos/sale).
RecordedTwiceNeedsBreak ==
  \A e \in Entry : recorded[e] <= 1 + broken[e]

\* The inductive strengthening of the two.  Until it is overlapped, a list has one
\* question open at most, its last; nothing is answered twice.
AirInv ==
  /\ \A a \in answers : a[1] \notin air
  /\ \A a, b \in answers : a[1] = b[1] => a = b
ListInv ==
  ~overlapped =>
    /\ Unanswered \subseteq {latest}
    /\ Unanswered # {} => loading
    /\ Unanswered = {} => shown = latest \/ refused

\* What is at the server and has yet to be served counts as recorded, and what stands
\* in the form has cost a connection for each time before; only the button's last
\* request is listened to, and the form it left cannot be sent half empty.
SentTries(e) == {q.try : q \in {p \in posts : p.entry = e /\ p.at = "sent"}}
Counted(e)   == recorded[e] + Cardinality(SentTries(e))
EntryInv ==
  \A e \in Entry :
    /\ Counted(e) <= 1 + broken[e] /\ Counted(e) <= sends[e]
    /\ e = entry /\ ~busy => Counted(e) <= broken[e]
    /\ e > entries => sends[e] = 0
PostInv ==
  /\ \A q \in posts : /\ q.try <= sends[q.entry]
                      /\ q.here => busy /\ IsForm /\ q.entry = entry
                      /\ q.at = "done" => q.here
  /\ \A q, r \in posts : (q.entry = r.entry /\ q.try = r.try) \/ (q.here /\ r.here) => q = r
BlankInv == IsForm /\ entry = Blank => ~(FormOf[on].needs \subseteq filled)

PagesInv == AirInv /\ ListInv /\ EntryInv /\ PostInv /\ BlankInv
=============================================================================
