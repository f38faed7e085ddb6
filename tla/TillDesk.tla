------------------------------ MODULE TillDesk ------------------------------
(***************************************************************************)
(* One new till (apps/desktop) as the person at it uses it: the screens in *)
(* the renderer, and the main process with the session, the settings and   *)
(* the Database object, whose statements run one after another down a      *)
(* single line (fumas-core, connection.ts).  Every answer comes later than *)
(* it was asked for; meanwhile items are tapped, screens left, users       *)
(* changed and the till pointed at another database.  What a sale does to  *)
(* the books is TillSale's; here it is three turns in the line.  The till  *)
(* may write (writesEnabled); its users' passwords and rights are fixed.   *)
(***************************************************************************)
EXTENDS Integers, Sequences

CONSTANTS
  User, NoUser,
  Right,      \* Right[u]: the screens u's rights show (users_rights)
  Base, Home, \* databases, and the one the till is set up for
  Key, Today, \* what figures can be asked for: dates, searches, rows; what they open with
  Nothing,
  MaxTap,     \* bound: items tapped
  MaxSale,    \* bound: sales begun
  MaxAsk,     \* bound: other presses: users signing in, screens, figures, receipts
  MaxSave,    \* bound: times Settings is saved
  MaxMishap   \* bound: failed statements, settings that cannot be written

Gated  == {"sell", "reprint", "items", "sales", "suppliers"}
Screen == Gated \cup {"dashboard", "settings"}
Figures == {"dashboard", "items", "sales", "suppliers"}
Panel  == {"list", "detail"}

ASSUME DeskConstantsOK ==
  /\ NoUser \notin User /\ Right \in [User -> SUBSET Gated]
  /\ Home \in Base /\ Today \in Key /\ Nothing \notin Base \cup Key
  /\ {MaxTap, MaxSale, MaxAsk, MaxSave, MaxMishap} \subseteq Nat

VARIABLES
  session,   \* currentUser in the main process
  conf,      \* the database named by the settings in force
  file,      \* and by the settings on disk
  unsaved,   \* history: the settings in force could not be written when they last changed
  desk,      \* the Database objects there have been, the one in use last
  booked,      \* receipts, in whichever database
  number,    \* number[b]: the last receipt number taken there
  who,       \* the user the renderer shows
  screen,
  allowed,   \* the gated screens App shows
  cart, busy, done,            \* the Sell screen
  panel,     \* panel[p]: what useLoader holds, [key, shows, loading, error]
  receipt,   \* the Reprint screen: the receipt shown, 0 for none
  customer,  \* which customer is at the counter
  tapped,    \* history: the items tapped for them
  hasty,     \* history: customers whose Complete and taps overlapped
  taps, sales, asks, saves, mishaps

mainVars  == <<session, conf, file, unsaved>>
bookedVars  == <<booked, number>>
appVars   == <<who, screen, allowed>>
sellVars  == <<cart, busy, done>>
counterVars == <<customer, tapped, hasty>>
boundVars == <<taps, sales, asks, saves, mishaps>>
deskVars == <<mainVars, desk, bookedVars, appVars, sellVars, panel, receipt, counterVars, boundVars>>

NoPanel   == [p \in Panel |-> [key |-> Nothing, shows |-> Nothing, loading |-> FALSE, error |-> FALSE]]
NoReceipt == 0
NewDesk   == [base |-> Nothing, line |-> <<>>, ahead |-> -1]

Drafts == [customer : Nat, lines : SUBSET Nat, wanted : SUBSET Nat, staff : User \cup {NoUser},
            shown : User \cup {NoUser}, named : Base, unsaved : BOOLEAN, no : Nat]
Entries == [base : Base, no : Nat, staff : User \cup {NoUser}, shown : User \cup {NoUser},
             named : Base, unsaved : BOOLEAN, customer : Nat, lines : SUBSET Nat, wanted : SUBSET Nat]

\* Calls, with what each is about.
Asking(ops, args) == [op : ops, arg : args, turn : Nat, live : BOOLEAN]
Call ==
  Asking({"login", "rights"}, User) \cup Asking({"receipt"}, 0..MaxSale)
    \cup Asking(Panel, Key \cup {Nothing})
    \cup Asking({"cost"}, [item : Nat, seen : SUBSET Nat]) \cup Asking({"sale"}, Drafts)
Object == [base : Base \cup {Nothing}, line : Seq(Call), ahead : Nat \cup {-1}]

DeskTypeOK ==
  /\ session \in User \cup {NoUser} /\ who \in User \cup {NoUser}
  /\ conf \in Base /\ file \in Base /\ unsaved \in BOOLEAN
  /\ desk \in Seq(Object) /\ desk # <<>>
  /\ number \in [Base -> Nat] /\ booked \subseteq Entries
  /\ screen \in Screen \cup {"login"} /\ allowed \subseteq Gated
  /\ {taps, sales, asks, saves, mishaps} \subseteq Nat
  /\ cart \subseteq 1..taps /\ tapped \subseteq 1..taps /\ {busy, done} \subseteq BOOLEAN
  /\ panel \in [Panel -> [key : Key \cup {Nothing}, shows : Key \cup {Nothing},
                          loading : BOOLEAN, error : BOOLEAN]]
  /\ receipt \in 0..MaxSale
  /\ customer \in Nat \ {0} /\ hasty \subseteq 1..customer

DeskInit ==
  /\ session = NoUser /\ conf = Home /\ file = Home /\ unsaved = FALSE /\ desk = <<NewDesk>>
  /\ booked = {} /\ number = [b \in Base |-> 0]
  /\ who = NoUser /\ screen = "login" /\ allowed = {}
  /\ cart = {} /\ busy = FALSE /\ done = FALSE
  /\ panel = NoPanel /\ receipt = NoReceipt
  /\ customer = 1 /\ tapped = {} /\ hasty = {}
  /\ taps = 0 /\ sales = 0 /\ asks = 0 /\ saves = 0 /\ mishaps = 0

Press == asks < MaxAsk /\ asks' = asks + 1
Mishap == mishaps < MaxMishap /\ mishaps' = mishaps + 1

-----------------------------------------------------------------------------
(* The line.                                                               *)

Now == Len(desk)

\* database(): an object is made when it is first needed, from the settings in
\* force; the statement goes to the end of its line.
Put(d, call) ==
  LET n == Len(d)
  IN  [d EXCEPT ![n].line = Append(@, call), ![n].base = IF @ = Nothing THEN conf ELSE @]

Asked(d, op, arg) == Put(d, [op |-> op, arg |-> arg, turn |-> 1, live |-> TRUE])

CallsIn(g) == {desk[g].line[i] : i \in DOMAIN desk[g].line}
Waiting(op) == \E g \in DOMAIN desk : \E c \in CallsIn(g) : c.op = op /\ c.live

\* Nobody listens any more to what these calls will answer.
Muted(c, ops) == [c EXCEPT !.live = @ /\ c.op \notin ops]

Dropped(d, ops) ==
  [g \in DOMAIN d |-> [d[g] EXCEPT !.line = [i \in DOMAIN @ |-> Muted(@[i], ops)]]]

ScreenOps == Panel \cup {"cost", "sale", "receipt"}
AppOps    == {"login", "rights"}

\* The statement at the head of object g's line runs.  An object being closed
\* still runs what was in its line by then.
Head1(g) == Head(desk[g].line)
Runs(g, op, turn) ==
  /\ desk[g].line # <<>> /\ desk[g].ahead # 0
  /\ Head1(g).op = op /\ Head1(g).turn = turn

MovedOn(g) ==
  [desk EXCEPT ![g].line = Tail(@), ![g].ahead = IF @ > 0 THEN @ - 1 ELSE @]

\* The call has another statement, on the object it began with.
Again(g, arg) ==
  [MovedOn(g) EXCEPT ![g].line = Append(@, [Head1(g) EXCEPT !.arg = arg, !.turn = @ + 1])]

-----------------------------------------------------------------------------
(* Signing in and out, and the screens.                                    *)

\* useLoader: what was still expected for this panel is cancelled.
Loading(pan, p, k) ==
  [pan EXCEPT ![p] = [@ EXCEPT !.key = k, !.loading = TRUE, !.error = FALSE]]

Loaded(d, p, k) == Asked(Dropped(d, {p}), p, k)

SignIn(u) ==
  /\ who = NoUser /\ ~ Waiting("login") /\ Press
  /\ desk' = Asked(desk, "login", u)
  /\ UNCHANGED <<mainVars, bookedVars, appVars, sellVars, panel, receipt, counterVars, taps, sales, saves, mishaps>>

\* The session is the user's from here on, whatever becomes of the forms, which
\* are asked of the object in use by then.
Authenticated(g) ==
  /\ Runs(g, "login", 1) /\ Head1(g).live
  /\ session' = Head1(g).arg
  /\ desk' = Put(MovedOn(g), [Head1(g) EXCEPT !.turn = 2])
  /\ UNCHANGED <<conf, file, unsaved, bookedVars, appVars, sellVars, panel, receipt, counterVars, boundVars>>

SignedIn(g) ==
  /\ Runs(g, "login", 2) /\ Head1(g).live
  /\ who' = Head1(g).arg
  /\ screen' = "dashboard"
  /\ panel' = Loading(NoPanel, "list", Today)
  /\ desk' = Asked(Loaded(MovedOn(g), "list", Today), "rights", who')
  /\ UNCHANGED <<mainVars, bookedVars, allowed, sellVars, receipt, counterVars, boundVars>>

\* App takes the answer whoever is signed in by then.
RightsAnswered(g) ==
  /\ Runs(g, "rights", 1) /\ Head1(g).live
  /\ allowed' = Right[Head1(g).arg]
  /\ desk' = MovedOn(g)
  /\ UNCHANGED <<mainVars, bookedVars, who, screen, sellVars, panel, receipt, counterVars, boundVars>>

\* A screen that is left takes its state with it.  The customer stays, unless
\* served, and whatever was picked for them is picked again.
Leave ==
  /\ cart' = {} /\ busy' = FALSE /\ done' = FALSE
  /\ receipt' = NoReceipt
  /\ customer' = IF done THEN customer + 1 ELSE customer
  /\ tapped' = {}
  /\ UNCHANGED hasty

SignOut ==
  /\ who # NoUser
  /\ session' = NoUser /\ who' = NoUser
  /\ screen' = "login" /\ panel' = NoPanel
  /\ Leave
  /\ desk' = Dropped(desk, ScreenOps)
  /\ UNCHANGED <<conf, file, unsaved, bookedVars, allowed, boundVars>>

Go(s) ==
  /\ who # NoUser /\ s # screen /\ Press
  /\ s \in Gated => s \in allowed
  /\ screen' = s
  /\ Leave
  /\ LET left == Dropped(desk, ScreenOps)
     IN  IF s \in Figures
         THEN panel' = Loading(NoPanel, "list", Today) /\ desk' = Loaded(left, "list", Today)
         ELSE panel' = NoPanel /\ desk' = left
  /\ UNCHANGED <<mainVars, bookedVars, who, allowed, taps, sales, saves, mishaps>>

-----------------------------------------------------------------------------
(* Selling.                                                                *)

\* addToCart: the cost is asked for first.
Tap ==
  /\ screen = "sell" /\ ~ done /\ taps < MaxTap
  /\ taps' = taps + 1
  /\ tapped' = tapped \cup {taps'}
  /\ hasty' = IF busy THEN hasty \cup {customer} ELSE hasty
  /\ desk' = Asked(desk, "cost", [item |-> taps', seen |-> cart])
  /\ UNCHANGED <<mainVars, bookedVars, appVars, sellVars, panel, receipt, customer, sales, asks, saves, mishaps>>

\* Slip: the line is added to the basket as it was when the item was tapped.
mut_CostAnswered(g) ==
  /\ Runs(g, "cost", 1)
  /\ cart' = IF Head1(g).live THEN Head1(g).arg.seen \cup {Head1(g).arg.item} ELSE cart
  /\ desk' = MovedOn(g)
  /\ UNCHANGED <<mainVars, bookedVars, appVars, busy, done, panel, receipt, counterVars, boundVars>>

CostAnswered(g) ==
  /\ Runs(g, "cost", 1)
  /\ cart' = IF Head1(g).live THEN cart \cup {Head1(g).arg.item} ELSE cart
  /\ desk' = MovedOn(g)
  /\ UNCHANGED <<mainVars, bookedVars, appVars, busy, done, panel, receipt, counterVars, boundVars>>

RemoveLine(i) ==
  /\ screen = "sell" /\ ~ done /\ i \in cart
  /\ cart' = cart \ {i} /\ tapped' = tapped \ {i}
  /\ UNCHANGED <<mainVars, desk, bookedVars, appVars, busy, done, panel, receipt, customer, hasty, boundVars>>

\* The basket goes with the call; staff is the session's at that moment.
Draft ==
  [customer |-> customer, lines |-> cart, wanted |-> tapped,
   staff |-> session, shown |-> who, named |-> conf, unsaved |-> unsaved, no |-> 0]

Complete ==
  /\ screen = "sell" /\ ~ done /\ cart # {} /\ sales < MaxSale
  /\ ~ busy
  /\ busy' = TRUE
  /\ sales' = sales + 1
  /\ hasty' = IF Waiting("cost") THEN hasty \cup {customer} ELSE hasty
  /\ desk' = Asked(desk, "sale", Draft)
  /\ UNCHANGED <<mainVars, bookedVars, appVars, cart, done, panel, receipt, customer, tapped, taps, asks, saves, mishaps>>

\* The settings and the period are read.
SaleChecked(g) ==
  /\ Runs(g, "sale", 1)
  /\ desk' = Again(g, Head1(g).arg)
  /\ UNCHANGED <<mainVars, bookedVars, appVars, sellVars, panel, receipt, counterVars, boundVars>>

NumberTaken(g) ==
  LET b == desk[g].base IN
  /\ Runs(g, "sale", 2)
  /\ number' = [number EXCEPT ![b] = @ + 1]
  /\ desk' = Again(g, [Head1(g).arg EXCEPT !.no = number'[b]])
  /\ UNCHANGED <<mainVars, booked, appVars, sellVars, panel, receipt, counterVars, boundVars>>

Entry(g, staff) ==
  LET draft == Head1(g).arg
  IN  [base |-> desk[g].base, no |-> draft.no, staff |-> staff, shown |-> draft.shown,
       named |-> draft.named, unsaved |-> draft.unsaved, customer |-> draft.customer,
       lines |-> draft.lines, wanted |-> draft.wanted]

\* The screen that asked, if it is still there, clears its basket and says so.
Recorded(g) ==
  IF Head1(g).live THEN cart' = {} /\ busy' = FALSE /\ done' = TRUE ELSE UNCHANGED sellVars

\* Slip: staff is whoever is signed in when the sale is posted.
mut_Posted(g) ==
  /\ Runs(g, "sale", 3)
  /\ booked' = booked \cup {Entry(g, session)}
  /\ Recorded(g)
  /\ desk' = MovedOn(g)
  /\ UNCHANGED <<mainVars, number, appVars, panel, receipt, counterVars, boundVars>>

Posted(g) ==
  /\ Runs(g, "sale", 3)
  /\ booked' = booked \cup {Entry(g, Head1(g).arg.staff)}
  /\ Recorded(g)
  /\ desk' = MovedOn(g)
  /\ UNCHANGED <<mainVars, number, appVars, panel, receipt, counterVars, boundVars>>

NextSale ==
  /\ done
  /\ done' = FALSE /\ customer' = customer + 1 /\ tapped' = {}
  /\ UNCHANGED <<mainVars, desk, bookedVars, appVars, cart, busy, panel, receipt, hasty, boundVars>>

-----------------------------------------------------------------------------
(* Figures and receipts.                                                   *)

Load(p, k) ==
  /\ Press
  /\ panel' = Loading(panel, p, k) /\ desk' = Loaded(desk, p, k)
  /\ UNCHANGED <<mainVars, bookedVars, appVars, sellVars, receipt, counterVars, taps, sales, saves, mishaps>>

\* Dashboard: another day, or Refresh; the charts too once they were asked for.
ChooseDay(k) ==
  /\ screen = "dashboard"
  /\ IF panel["detail"].key = Nothing THEN Load("list", k)
     ELSE /\ Press
          /\ panel' = Loading(Loading(panel, "list", k), "detail", k)
          /\ desk' = Loaded(Loaded(desk, "list", k), "detail", k)
          /\ UNCHANGED <<mainVars, bookedVars, appVars, sellVars, receipt, counterVars, taps, sales, saves, mishaps>>

ShowMore ==
  /\ screen = "dashboard" /\ panel["detail"].key = Nothing
  /\ Load("detail", panel["list"].key)

\* Items: a search is sent off; a row shows its movements.
Search(k) == screen = "items" /\ k # panel["list"].key /\ Load("list", k)

OpenItem(k) ==
  /\ screen = "items" /\ panel["list"].shows # Nothing /\ k # panel["detail"].key
  /\ Load("detail", k)

\* Sales: the dates, or Refresh; a row shows its lines.
ChooseRange(k) == screen = "sales" /\ Load("list", k)

OpenSale(k) ==
  /\ screen = "sales" /\ panel["list"].shows # Nothing /\ k # panel["detail"].key
  /\ Load("detail", k)

PanelAnswered(g) ==
  \E p \in Panel :
    /\ Runs(g, p, 1)
    /\ panel' = IF Head1(g).live
                THEN [panel EXCEPT ![p] = [@ EXCEPT !.shows = Head1(g).arg, !.loading = FALSE]]
                ELSE panel
    /\ desk' = MovedOn(g)
    /\ UNCHANGED <<mainVars, bookedVars, appVars, sellVars, receipt, counterVars, boundVars>>

\* Receipts of the database in use, and 0 for a number that is in none.
Openable == {0} \cup {r.no : r \in {b \in booked : b.base = conf}}

OpenReceipt(n) ==
  /\ screen = "reprint" /\ n \in Openable /\ Press
  /\ desk' = Asked(desk, "receipt", n)
  /\ UNCHANGED <<mainVars, bookedVars, appVars, sellVars, panel, receipt, counterVars, taps, sales, saves, mishaps>>

\* Header, lines and tenders: three statements, or one when there is no header.
ReceiptRead(g) ==
  \E turn \in 1..3 :
    /\ Runs(g, "receipt", turn)
    /\ IF Head1(g).arg = 0 \/ turn = 3
       THEN /\ desk' = MovedOn(g)
            /\ receipt' = IF Head1(g).arg # 0 /\ Head1(g).live
                          THEN Head1(g).arg ELSE receipt
       ELSE desk' = Again(g, Head1(g).arg) /\ UNCHANGED receipt
    /\ UNCHANGED <<mainVars, bookedVars, appVars, sellVars, panel, counterVars, boundVars>>

CloseReceipt ==
  /\ receipt # NoReceipt
  /\ receipt' = NoReceipt
  /\ UNCHANGED <<mainVars, desk, bookedVars, appVars, sellVars, panel, counterVars, boundVars>>

-----------------------------------------------------------------------------
(* Settings, and what fails.                                               *)

\* The object in use is let go of, and closed once what is in its line has run.
Reset(d) ==
  IF d[Now].base = Nothing THEN d
  ELSE Append([d EXCEPT ![Now].ahead = Len(d[Now].line)], NewDesk)

\* Whatever was changed in them.
SaveSettings(b) ==
  /\ screen = "settings" /\ saves < MaxSave
  /\ conf' = b /\ file' = b /\ unsaved' = FALSE
  /\ saves' = saves + 1
  /\ desk' = Reset(desk)
  /\ UNCHANGED <<session, bookedVars, appVars, sellVars, panel, receipt, counterVars, taps, sales, asks, mishaps>>

\* The file cannot be written: the settings are in force already, the object is
\* still the old one.
SaveFails(b) ==
  /\ screen = "settings" /\ Mishap
  /\ conf' = b /\ unsaved' = TRUE
  /\ UNCHANGED <<session, file, desk, bookedVars, appVars, sellVars, panel, receipt, counterVars, taps, sales, asks, saves>>

\* The window is closed and the till started again.  The process that was there
\* runs what is in its line and quits; nobody is told.
CloseWindow ==
  /\ screen # "login" /\ Press
  /\ session' = NoUser /\ who' = NoUser /\ allowed' = {}
  /\ conf' = file /\ unsaved' = FALSE
  /\ screen' = "login" /\ panel' = NoPanel
  /\ Leave
  /\ desk' = Reset(Dropped(desk, ScreenOps \cup AppOps))
  /\ UNCHANGED <<file, bookedVars, taps, sales, saves, mishaps>>

\* What an error does where the answer was expected: the menu loses its screens,
\* the item is not added, the basket stays, the panel says so.
Failed(g) ==
  LET c == Head1(g) IN
  /\ allowed' = IF c.op = "rights" /\ c.live THEN {} ELSE allowed
  /\ tapped' = IF c.op = "cost" /\ c.live THEN tapped \ {c.arg.item} ELSE tapped
  /\ busy' = IF c.op = "sale" /\ c.live THEN FALSE ELSE busy
  /\ panel' = IF c.op \in Panel /\ c.live
              THEN [panel EXCEPT ![c.op] = [@ EXCEPT !.loading = FALSE, !.error = TRUE]] ELSE panel
  /\ UNCHANGED <<mainVars, number, who, screen, cart, done, receipt, customer, hasty, taps, sales, asks, saves>>

\* Of a COMMIT only the answer may be what is lost.
StatementFails(g) ==
  /\ desk[g].line # <<>> /\ desk[g].ahead # 0 /\ Mishap
  /\ Failed(g)
  /\ desk' = MovedOn(g)
  /\ \/ UNCHANGED booked
     \/ Runs(g, "sale", 3) /\ booked' = booked \cup {Entry(g, Head1(g).arg.staff)}

\* The pool of an object that was let go of has ended, or its process has.
PoolClosed(g) ==
  /\ desk[g].line # <<>> /\ desk[g].ahead = 0
  /\ Failed(g)
  /\ desk' = MovedOn(g)
  /\ UNCHANGED <<booked, mishaps>>

-----------------------------------------------------------------------------
\* A sign-in or a question of rights left over from a process that has quit.
Unheard(g) ==
  /\ desk[g].line # <<>> /\ desk[g].ahead # 0
  /\ Head1(g).op \in AppOps /\ ~ Head1(g).live
  /\ desk' = MovedOn(g)
  /\ UNCHANGED <<mainVars, bookedVars, appVars, sellVars, panel, receipt, counterVars, boundVars>>

LineStep(g) ==
  \/ Authenticated(g) \/ SignedIn(g) \/ RightsAnswered(g)
  \/ CostAnswered(g) \/ SaleChecked(g) \/ NumberTaken(g) \/ Posted(g)
  \/ PanelAnswered(g) \/ ReceiptRead(g)
  \/ StatementFails(g) \/ PoolClosed(g) \/ Unheard(g)

DeskNext ==
  \/ \E u \in User : SignIn(u)
  \/ SignOut
  \/ \E s \in Screen : Go(s)
  \/ Tap \/ Complete \/ NextSale
  \/ \E i \in cart : RemoveLine(i)
  \/ \E k \in Key : ChooseDay(k) \/ Search(k) \/ OpenItem(k) \/ ChooseRange(k) \/ OpenSale(k)
  \/ ShowMore
  \/ \E n \in 0..MaxSale : OpenReceipt(n)
  \/ CloseReceipt \/ CloseWindow
  \/ \E b \in Base : SaveSettings(b) \/ SaveFails(b)
  \/ \E g \in DOMAIN desk : LineStep(g)

DeskSpec == DeskInit /\ [][DeskNext]_deskVars

-----------------------------------------------------------------------------
\* A receipt is in the name of the user the till showed when Complete was pressed,
\* and in the database its settings named then, whoever signs in, wherever the
\* till is pointed and whatever fails before the sale's turn comes; only when the
\* settings in force at the press could not be written may the till be on an
\* older database (main.ts, config:save: conf is set before saveConfig throws).
BookedAsPressed ==
  \A r \in booked : r.staff = r.shown /\ (r.base = r.named \/ r.unsaved)

\* A receipt holds what was tapped and not removed, no more and no less, whatever
\* answers are slow; items are lost or slip into the next basket only after
\* Complete was pressed with one on its way, or one tapped while the sale was
\* being recorded.
PicksReachTheReceipt ==
  \A r \in booked : (\A h \in hasty : h > r.customer) => r.lines = r.wanted

-----------------------------------------------------------------------------
(* The inductive strengthening of the two.                                 *)

\* What stands in line, with the database it is asked of.
Said(d) == UNION {{<<d[g].base, d[g].line[i]>> : i \in DOMAIN d[g].line} : g \in DOMAIN d}

\* One sign-in, one sale, and one question about an item are on their way at a time.
Apart(c, e) ==
  c.live /\ e.live /\ c.op = e.op =>
    /\ c.op \notin {"login", "sale"}
    /\ c.op = "cost" => c.arg.item # e.arg.item

Alone(d) ==
  \A g, h \in DOMAIN d : \A i \in DOMAIN d[g].line, j \in DOMAIN d[h].line :
    <<g, i>> # <<h, j>> => Apart(d[g].line[i], d[h].line[j])

\* The object in use is for the database of the settings in force.
LineInv ==
  /\ \A g \in DOMAIN desk : desk[g].base = Nothing => desk[g].line = <<>>
  /\ desk[Now].base \in {Nothing, conf} \/ unsaved
  /\ Alone(desk)

\* The till shows the user of the session, and nobody while somebody is signing in.
LoginInv ==
  /\ who = NoUser <=> screen = "login"
  /\ who # NoUser => session = who
  /\ \A x \in Said(desk) :
       x[2].op = "login" /\ x[2].live => who = NoUser /\ (x[2].turn = 2 => session = x[2].arg)

\* A sale in line already is as its receipt must be.
AsPressed(b, draft) ==
  /\ draft.staff = draft.shown /\ (b = draft.named \/ draft.unsaved)
  /\ (\A h \in hasty : h > draft.customer) => draft.lines = draft.wanted

DraftOK(x) ==
  /\ AsPressed(x[1], x[2].arg)
  /\ x[2].arg.customer <= customer
  /\ x[2].turn = 3 => x[2].arg.no \in 1..number[x[1]]
  /\ x[2].live => busy

DraftInv == \A x \in Said(desk) : x[2].op = "sale" => DraftOK(x)

\* Unless somebody was hasty, what was tapped is in the basket or on its way there,
\* and nothing is on its way while a sale is being recorded or has been.
Picked(c) == c.op = "cost" /\ c.live

BasketInv ==
  /\ \A x \in Said(desk) : Picked(x[2]) => x[2].arg.item \in (1..taps) \ cart
  /\ hasty = {} =>
       /\ \A x \in Said(desk) : Picked(x[2]) => x[2].arg.item \in tapped /\ ~ busy /\ ~ done
       /\ cart \subseteq tapped
       /\ \A i \in tapped \ cart :
            done \/ \E x \in Said(desk) : Picked(x[2]) /\ x[2].arg.item = i
       /\ done => cart = {}

BookInv ==
  /\ \A r \in booked : r.no \in 1..number[r.base]
  /\ BookedAsPressed /\ PicksReachTheReceipt

DeskInv == DeskTypeOK /\ LineInv /\ LoginInv /\ DraftInv /\ BasketInv /\ BookInv
=============================================================================
