------------------------------ MODULE Accounts ------------------------------
(***************************************************************************)
(* Logins, clock-in PINs, reset links and customer records: routes/auth.ts *)
(* and lib/clockPin.ts on the server, the Staff page (dashboard/admin) in  *)
(* each admin's browser, the tablet that enrols new staff.  A handler      *)
(* awaits between its statements, so that requests overlap, and what a     *)
(* token says of its owner was true when the owner signed in.              *)
(***************************************************************************)
EXTENDS Integers, FiniteSets

CONSTANTS
  Person,      \* addresses of staff
  Bootstrap,   \* admins, signed in on the Staff page
  Visitor,     \* addresses of customers
  Pin,         \* the PINs randomPin may draw
  Call,        \* requests in hand at once
  NoPin, NoOne,
  MaxRequest,  \* bound: requests of more than one statement, signing in apart
  MaxLink,     \* bound: reset links ever made
  MaxMishap    \* bound: failed statements, lost answers, crashes

ASSUME AccountConstantsOK ==
  /\ Bootstrap \subseteq Person /\ Bootstrap # {} /\ Person \cap Visitor = {}
  /\ NoPin \notin Pin /\ NoOne \notin Person \cup Visitor
  /\ Cardinality(Pin) >= Cardinality(Person)
  /\ {MaxRequest, MaxLink, MaxMishap} \subseteq Nat

VARIABLES
  account,   \* the User rows of staff: role, disabled, clockBoard
  pin,       \* clockPinHash
  session,   \* the role in the token a person's browser keeps
  link,      \* the PasswordReset rows
  visitor,   \* a customer's User row, and how many Customer rows have the address
  call,      \* call[c]: where a request handler stands
  page,      \* page[p]: the PINs p's Staff page shows, the one-time sheet, its buttons
  overlap,   \* history: whose PIN, links or record two requests were at at once
  stale,     \* history: a change that would have been refused when it was written
  halfway,   \* history: whose switching-off broke off before their links were deleted
  unheard,   \* history: whose new PIN no page got to see
  requests, failed, cut

staffVars   == <<account, pin, session>>
historyVars == <<overlap, stale>>
faultVars   == <<failed, cut, halfway, unheard>>
accountsVars == <<staffVars, link, visitor, call, page, historyVars, requests, faultVars>>

NoLogin   == [role |-> "none", off |-> FALSE, board |-> TRUE]
NoSlips   == [p \in Person |-> NoPin]
FreshPage == [shown |-> NoSlips, sheet |-> NoSlips, open |-> FALSE, busy |-> NoOne, issuing |-> FALSE]
Idle      == [op |-> "none", at |-> "idle", by |-> NoOne, who |-> NoOne, what |-> "none",
              covers |-> {}, todo |-> {}, slips |-> NoSlips, got |-> 0]

AccountsInit ==
  /\ account = [p \in Person |-> IF p \in Bootstrap THEN [NoLogin EXCEPT !.role = "ADMIN"] ELSE NoLogin]
  /\ pin = NoSlips /\ session = [p \in Person |-> account[p].role]
  /\ link = [l \in 1..MaxLink |-> [who |-> NoOne, at |-> "unborn"]]
  /\ visitor = [v \in Visitor |-> [user |-> FALSE, rows |-> 0]]
  /\ call = [c \in Call |-> Idle]
  /\ page = [p \in Person |-> FreshPage]
  /\ overlap = {} /\ stale = FALSE
  /\ requests = 0 /\ failed = 0 /\ cut = 0 /\ halfway = {} /\ unheard = {}

Mishap == failed + cut < MaxMishap

IsStaff(p)      == account[p].role # "none"
EnabledAdmin(p) == account[p].role = "ADMIN" /\ ~account[p].off

\* A request is taken up; whoever another request of the group is at too is noted.
Begin(c, record, group) ==
  /\ call[c].at = "idle" /\ requests < MaxRequest
  /\ requests' = requests + 1
  /\ call' = [call EXCEPT ![c] = record]
  /\ overlap' = overlap \cup
       {w \in record.covers : \E d \in Call : call[d].op \in group /\ w \in call[d].covers}

At(c, op, at) == call[c].op = op /\ call[c].at = at
Move(c, at)   == call' = [call EXCEPT ![c].at = at]
Done(c)       == call' = [call EXCEPT ![c] = Idle]

-----------------------------------------------------------------------------
(* Signing in and out.                                                     *)

\* authenticate: the right password of a login that is not switched off.
Login(c, p) ==
  /\ IsStaff(p) /\ ~account[p].off /\ session[p] = "none"
  /\ call[c].at = "idle"
  /\ call' = [call EXCEPT ![c] =
       [Idle EXCEPT !.op = "login", !.at = "read", !.who = p, !.what = account[p].role]]
  /\ UNCHANGED <<staffVars, link, visitor, page, historyVars, requests, faultVars>>

\* The token says what the row said when it was read; it is good for seven days.
SignedIn(c) ==
  /\ At(c, "login", "read")
  /\ session' = [session EXCEPT ![call[c].who] = call[c].what]
  /\ Done(c)
  /\ UNCHANGED <<account, pin, link, visitor, page, historyVars, requests, faultVars>>

\* Signing out, or the seven days are over and the next page finds out; what a page
\* was showing goes with it.  Leaving a page that waits is LostAnswer.
SignOut(p) ==
  /\ session[p] # "none" /\ \A c \in Call : call[c].by # p
  /\ session' = [session EXCEPT ![p] = "none"]
  /\ page' = [page EXCEPT ![p] = FreshPage]
  /\ UNCHANGED <<account, pin, link, visitor, call, historyVars, requests, faultVars>>

-----------------------------------------------------------------------------
(* The Staff page: roles and switches.                                     *)

AddLogin(p, q, role) ==
  /\ session[p] = "ADMIN" /\ ~IsStaff(q)
  /\ account' = [account EXCEPT ![q] = [NoLogin EXCEPT !.role = role]]
  /\ UNCHANGED <<pin, session, link, visitor, call, page, historyVars, requests, faultVars>>

Changed(row, what) ==
  CASE what = "on"      -> [row EXCEPT !.off = FALSE]
    [] what = "off"     -> [row EXCEPT !.off = TRUE]
    [] what = "board"   -> [row EXCEPT !.board = ~@]
    [] OTHER            -> [row EXCEPT !.role = what]

Change   == {"ADMIN", "STAFF", "on", "off", "board"}
LocksOut(q, what) == what # "board" /\ Changed(account[q], what) # account[q]

\* PATCH /staff/:id, up to the row read.  One's own role and switch are one's own
\* only to leave as they are.
\* Slip: whose row it is makes no difference.
mut_Patch(c, p, q, what) ==
  /\ session[p] = "ADMIN" /\ IsStaff(q)
  /\ Begin(c, [Idle EXCEPT !.op = "patch", !.at = "read", !.by = p, !.who = q, !.what = what,
                           !.got = IF LocksOut(q, what) THEN 1 ELSE 0,
                           !.covers = IF what = "off" THEN {q} ELSE {}], {"forgot"})
  /\ UNCHANGED <<staffVars, link, visitor, page, stale, faultVars>>

Patch(c, p, q, what) ==
  /\ session[p] = "ADMIN" /\ IsStaff(q)
  /\ ~(p = q /\ LocksOut(q, what))
  /\ Begin(c, [Idle EXCEPT !.op = "patch", !.at = "read", !.by = p, !.who = q, !.what = what,
                           !.got = IF LocksOut(q, what) THEN 1 ELSE 0,
                           !.covers = IF what = "off" THEN {q} ELSE {}], {"forgot"})
  /\ UNCHANGED <<staffVars, link, visitor, page, stale, faultVars>>

\* What was read no longer holds: the one who asks is no admin now, or his own row
\* has been changed by another since.
Outdated(q) ==
  ~EnabledAdmin(q.by) \/ (q.by = q.who /\ q.got = 0 /\ LocksOut(q.who, q.what))

PatchWrite(c) ==
  /\ At(c, "patch", "read")
  /\ account' = [account EXCEPT ![call[c].who] = Changed(@, call[c].what)]
  /\ stale' = (stale \/ (call[c].what # "board" /\ Outdated(call[c])))
  /\ IF call[c].what = "off" THEN Move(c, "tidy") ELSE Done(c)
  /\ UNCHANGED <<pin, session, link, visitor, page, overlap, requests, faultVars>>

\* The row of every unused link of q is deleted.
Deleted(q) == [l \in 1..MaxLink |->
  IF link[l].who = q /\ link[l].at \in {"open", "expired"} THEN [link[l] EXCEPT !.at = "gone"] ELSE link[l]]

\* Slip: a login taken away keeps the links it had.
mut_PatchTidy(c) ==
  /\ At(c, "patch", "tidy")
  /\ Done(c)
  /\ halfway' = halfway \ {call[c].who}
  /\ UNCHANGED <<staffVars, link, visitor, page, historyVars, requests, failed, cut, unheard>>

PatchTidy(c) ==
  /\ At(c, "patch", "tidy")
  /\ link' = Deleted(call[c].who)
  /\ Done(c)
  /\ halfway' = halfway \ {call[c].who}
  /\ UNCHANGED <<staffVars, visitor, page, historyVars, requests, failed, cut, unheard>>

-----------------------------------------------------------------------------
(* Reset links.                                                            *)

\* POST /forgot: the row is read, what is outstanding deleted, a new link made.
Forgot(c, q) ==
  /\ IsStaff(q) /\ ~account[q].off
  /\ Begin(c, [Idle EXCEPT !.op = "forgot", !.at = "read", !.who = q, !.covers = {q}],
           {"forgot", "reset", "patch"})
  /\ UNCHANGED <<staffVars, link, visitor, page, stale, faultVars>>

ForgotDelete(c) ==
  /\ At(c, "forgot", "read")
  /\ link' = Deleted(call[c].who)
  /\ Move(c, "deleted")
  /\ UNCHANGED <<staffVars, visitor, page, historyVars, requests, faultVars>>

ForgotCreate(c) ==
  /\ At(c, "forgot", "deleted")
  /\ \E l \in 1..MaxLink :
       /\ link[l].at = "unborn" /\ \A k \in 1..(l - 1) : link[k].at # "unborn"
       /\ link' = [link EXCEPT ![l] = [who |-> call[c].who, at |-> "open"]]
  /\ Done(c)
  /\ UNCHANGED <<staffVars, visitor, page, historyVars, requests, faultVars>>

LinkExpires(l) ==
  /\ link[l].at = "open"
  /\ link' = [link EXCEPT ![l].at = "expired"]
  /\ UNCHANGED <<staffVars, visitor, call, page, historyVars, requests, faultVars>>

\* POST /reset reads the link and its owner, hashes the password, and then spends
\* the link in one transaction, which fails if the row has gone.
FollowLink(c, l) ==
  /\ link[l].at = "open" /\ ~account[link[l].who].off
  /\ Begin(c, [Idle EXCEPT !.op = "reset", !.at = "read", !.who = link[l].who,
                           !.covers = {link[l].who}, !.got = l], {"forgot"})
  /\ UNCHANGED <<staffVars, link, visitor, page, stale, faultVars>>

ResetSpend(c) ==
  /\ At(c, "reset", "read")
  /\ link' = IF link[call[c].got].at = "gone" THEN link
             ELSE [Deleted(call[c].who) EXCEPT ![call[c].got].at = "used"]
  /\ Done(c)
  /\ UNCHANGED <<staffVars, visitor, page, historyVars, requests, faultVars>>

-----------------------------------------------------------------------------
(* Clock-in PINs.                                                          *)

\* withFreshPin: digits are drawn until the unique index takes them.
Fresh == Pin \ {pin[p] : p \in Person}

\* POST /staff/:id/pin, up to the row read.  The page keeps the one button down.
Issue(c, p, q) ==
  /\ session[p] = "ADMIN" /\ IsStaff(q) /\ page[p].busy # q
  /\ Begin(c, [Idle EXCEPT !.op = "issue", !.at = "read", !.by = p, !.who = q, !.covers = {q}],
           {"issue", "sheet"})
  /\ page' = [page EXCEPT ![p].busy = q]
  /\ UNCHANGED <<staffVars, link, visitor, stale, faultVars>>

\* Another page, or this one's answer to another request, may have the old digits.
IssueWrite(c) ==
  /\ At(c, "issue", "read")
  /\ \E d \in Fresh :
       /\ pin' = [pin EXCEPT ![call[c].who] = d]
       /\ call' = [call EXCEPT ![c].at = "answer", ![c].slips = [NoSlips EXCEPT ![call[c].who] = d]]
  /\ overlap' = overlap \cup {q \in {call[c].who} :
       \E p \in Person \ {call[c].by} : NoPin # page[p].shown[q] \/ NoPin # page[p].sheet[q]}
  /\ UNCHANGED <<account, session, link, visitor, page, stale, requests, faultVars>>

\* The digits are on that person's row, and on the sheet if they are on it.
\* Slip: the sheet is left as it is.
mut_IssueShown(c) ==
  /\ At(c, "issue", "answer")
  /\ LET p == call[c].by  q == call[c].who  d == call[c].slips[q]
     IN  page' = [page EXCEPT ![p].shown[q] = d, ![p].busy = NoOne]
  /\ Done(c)
  /\ UNCHANGED <<staffVars, link, visitor, overlap, stale, requests, faultVars>>

IssueShown(c) ==
  /\ At(c, "issue", "answer")
  /\ LET p == call[c].by  q == call[c].who  d == call[c].slips[q]
     IN  page' = [page EXCEPT ![p].shown[q] = d, ![p].busy = NoOne,
                              ![p].sheet[q] = IF @ = NoPin THEN NoPin ELSE d]
  /\ Done(c)
  /\ UNCHANGED <<staffVars, link, visitor, overlap, stale, requests, faultVars>>

HidePin(p, q) ==
  /\ page[p].shown[q] # NoPin
  /\ page' = [page EXCEPT ![p].shown[q] = NoPin]
  /\ UNCHANGED <<staffVars, link, visitor, call, historyVars, requests, faultVars>>

\* POST /staff/pins/issue-missing, up to the list of those without one.
Missing == {q \in Person : IsStaff(q) /\ ~account[q].off /\ account[q].board /\ pin[q] = NoPin}

IssueMissing(c, p) ==
  /\ session[p] = "ADMIN" /\ ~page[p].issuing /\ ~page[p].open
  /\ Begin(c, [Idle EXCEPT !.op = "sheet", !.at = "read", !.by = p,
                           !.covers = Missing, !.todo = Missing], {"issue", "sheet"})
  /\ page' = [page EXCEPT ![p].issuing = TRUE]
  /\ UNCHANGED <<staffVars, link, visitor, stale, faultVars>>

\* One person after another, in the order of the list, and only onto an empty PIN.
SheetWrite(c) ==
  /\ At(c, "sheet", "read")
  /\ \E q \in call[c].todo, d \in Fresh :
       IF pin[q] = NoPin
       THEN /\ pin' = [pin EXCEPT ![q] = d]
            /\ call' = [call EXCEPT ![c].todo = @ \ {q}, ![c].slips[q] = d]
       ELSE /\ call' = [call EXCEPT ![c].todo = @ \ {q}]
            /\ UNCHANGED pin
  /\ UNCHANGED <<account, session, link, visitor, page, historyVars, requests, faultVars>>

\* A write that fails is passed over.
SheetSkips(c) ==
  /\ At(c, "sheet", "read") /\ Mishap /\ failed' = failed + 1
  /\ \E q \in call[c].todo : call' = [call EXCEPT ![c].todo = @ \ {q}]
  /\ UNCHANGED <<staffVars, link, visitor, page, historyVars, requests, cut, halfway, unheard>>

\* The answer is the one time the digits are shown.
SheetShown(c) ==
  /\ At(c, "sheet", "read") /\ call[c].todo = {}
  /\ LET p == call[c].by  slips == call[c].slips
     IN  page' = [page EXCEPT ![p].issuing = FALSE,
                      ![p].sheet = IF slips = NoSlips THEN @ ELSE slips,
                      ![p].open  = slips # NoSlips]
  /\ Done(c)
  /\ UNCHANGED <<staffVars, link, visitor, overlap, stale, requests, faultVars>>

HandedOut(p) ==
  /\ page[p].open
  /\ page' = [page EXCEPT ![p].sheet = NoSlips, ![p].open = FALSE]
  /\ UNCHANGED <<staffVars, link, visitor, call, historyVars, requests, faultVars>>

\* POST /clockings/staff: a row, its PIN with it, and the digits on the tablet.
Enrol(q) ==
  /\ ~IsStaff(q)
  /\ \E d \in Fresh : pin' = [pin EXCEPT ![q] = d]
  /\ account' = [account EXCEPT ![q] = [NoLogin EXCEPT !.role = "STAFF"]]
  /\ UNCHANGED <<session, link, visitor, call, page, overlap, stale, requests, faultVars>>

-----------------------------------------------------------------------------
(* Customers: POST /register, and the callbacks of Google and Facebook.    *)

\* The address is taken only once, by the unique index; the Customer row is found,
\* or made, after that.
Join(c, v, register) ==
  /\ register => ~visitor[v].user
  /\ Begin(c, [Idle EXCEPT !.op = "join", !.at = "read", !.who = v, !.covers = {v},
                           !.what = IF register THEN "register" ELSE "oauth",
                           !.got = IF visitor[v].user THEN 1 ELSE 0], {"join"})
  /\ UNCHANGED <<staffVars, link, visitor, page, stale, faultVars>>

JoinUser(c) ==
  /\ At(c, "join", "read")
  /\ LET v == call[c].who
     IN  IF call[c].got = 0 /\ visitor[v].user
         THEN Done(c) /\ UNCHANGED visitor
         ELSE /\ visitor' = [visitor EXCEPT ![v].user = TRUE]
              /\ Move(c, "user")
  /\ UNCHANGED <<staffVars, link, page, historyVars, requests, faultVars>>

\* ensureCustomerRecord.
EnsureFind(c) ==
  /\ At(c, "join", "user")
  /\ call' = [call EXCEPT ![c].at = "found", ![c].got = visitor[call[c].who].rows]
  /\ UNCHANGED <<staffVars, link, visitor, page, historyVars, requests, faultVars>>

EnsureWrite(c) ==
  /\ At(c, "join", "found")
  /\ visitor' = IF call[c].got > 0 THEN visitor
                ELSE [visitor EXCEPT ![call[c].who].rows = @ + 1]
  /\ Done(c)
  /\ UNCHANGED <<staffVars, link, page, historyVars, requests, faultVars>>

-----------------------------------------------------------------------------
(* Faults.  A page whose request is lost has its buttons back.             *)

Released(p, c) ==
  page' = IF p = NoOne THEN page
          ELSE [page EXCEPT ![p].busy = IF call[c].op = "issue" THEN NoOne ELSE @,
                            ![p].issuing = IF call[c].op = "sheet" THEN FALSE ELSE @]

\* Whose links are still to be deleted, and who has digits that are still to be shown.
ToTidy(c) == {q \in Person : At(c, "patch", "tidy") /\ call[c].who = q}
ToShow(c) == {q \in Person : At(c, "issue", "answer") /\ call[c].who = q}

\* A statement fails and ends the request, which is answered, if at all, with that.
StatementFails(c) ==
  /\ call[c].at \notin {"idle", "answer"} /\ call[c].op # "sheet"
  /\ Mishap /\ failed' = failed + 1
  /\ Released(call[c].by, c)
  /\ Done(c)
  /\ halfway' = halfway \cup ToTidy(c)
  /\ UNCHANGED <<staffVars, link, visitor, historyVars, requests, cut, unheard>>

\* The server goes down, or the answer is lost, or the page has been left.
LostAnswer(c) ==
  /\ call[c].at # "idle"
  /\ Mishap /\ cut' = cut + 1
  /\ Released(call[c].by, c)
  /\ Done(c)
  /\ halfway' = halfway \cup ToTidy(c) /\ unheard' = unheard \cup ToShow(c)
  /\ UNCHANGED <<staffVars, link, visitor, historyVars, requests, failed>>

-----------------------------------------------------------------------------
Step(c) ==
  \/ SignedIn(c) \/ PatchWrite(c) \/ PatchTidy(c)
  \/ ForgotDelete(c) \/ ForgotCreate(c) \/ ResetSpend(c)
  \/ IssueWrite(c) \/ IssueShown(c) \/ SheetWrite(c) \/ SheetSkips(c) \/ SheetShown(c)
  \/ JoinUser(c) \/ EnsureFind(c) \/ EnsureWrite(c)
  \/ StatementFails(c) \/ LostAnswer(c)

AccountsNext ==
  \/ \E c \in Call : Step(c)
  \/ \E c \in Call, p \in Person :
       \/ Login(c, p) \/ Forgot(c, p) \/ IssueMissing(c, p)
       \/ \E q \in Person : Issue(c, p, q) \/ \E what \in Change : Patch(c, p, q, what)
  \/ \E c \in Call, l \in 1..MaxLink : FollowLink(c, l)
  \/ \E c \in Call, v \in Visitor, register \in BOOLEAN : Join(c, v, register)
  \/ \E l \in 1..MaxLink : LinkExpires(l)
  \/ \E p \in Person :
       \/ SignOut(p) \/ HandedOut(p) \/ Enrol(p)
       \/ \E q \in Person : HidePin(p, q) \/ \E role \in {"ADMIN", "STAFF"} : AddLogin(p, q, role)

AccountsSpec == AccountsInit /\ [][AccountsNext]_accountsVars

-----------------------------------------------------------------------------
Calls == [op : {"none", "login", "patch", "forgot", "reset", "issue", "sheet", "join"},
          at : {"idle", "read", "tidy", "deleted", "answer", "user", "found"},
          by : Person \cup {NoOne}, who : Person \cup Visitor \cup {NoOne},
          what : Change \cup {"none", "register", "oauth"},
          covers : SUBSET (Person \cup Visitor), todo : SUBSET Person,
          slips : [Person -> Pin \cup {NoPin}], got : Nat]
Pages == [shown : [Person -> Pin \cup {NoPin}], sheet : [Person -> Pin \cup {NoPin}],
          open : BOOLEAN, busy : Person \cup {NoOne}, issuing : BOOLEAN]

AccountsTypeOK ==
  /\ account \in [Person -> [role : {"none", "ADMIN", "STAFF"}, off : BOOLEAN, board : BOOLEAN]]
  /\ pin \in [Person -> Pin \cup {NoPin}]
  /\ session \in [Person -> {"none", "ADMIN", "STAFF"}]
  /\ link \in [1..MaxLink -> [who : Person \cup {NoOne},
                               at : {"unborn", "open", "expired", "used", "gone"}]]
  /\ \A l \in 1..MaxLink : link[l].at = "unborn" \/ link[l].who \in Person
  /\ visitor \in [Visitor -> [user : BOOLEAN, rows : Nat]]
  /\ call \in [Call -> Calls] /\ page \in [Person -> Pages]
  /\ overlap \subseteq Person \cup Visitor /\ stale \in BOOLEAN
  /\ halfway \subseteq Person /\ unheard \subseteq Person
  /\ requests \in 0..MaxRequest /\ failed \in Nat /\ cut \in Nat /\ failed + cut <= MaxMishap

\* The shop is left without an admin who can sign in only by a change the server
\* would have refused had it looked again: a token, or a row already read, said that
\* whoever asked for it was an admin, or that it changed nothing of his own.
LockoutNeedsStaleAdmin == (\E p \in Person : EnabledAdmin(p)) \/ stale

\* A slip a Staff page shows, or would print, is the PIN that works, unless two
\* requests were at that person's PIN at once, another page reset it, the page is
\* waiting to hear of that person's reset, or the answer to one was lost after the PIN
\* had been written.  Nothing that fails over anybody else makes a slip wrong.
DeadSlipNeedsOverlap ==
  \A p, q \in Person :
    \/ {page[p].shown[q], page[p].sheet[q]} \subseteq {NoPin, pin[q]}
    \/ q \in overlap \cup unheard
    \/ \E c \in Call : call[c].op = "issue" /\ call[c].by = p /\ call[c].who = q

Open(q) == {l \in 1..MaxLink : link[l].who = q /\ link[l].at = "open"}

\* A person has one link that works at most, unless a link of theirs was being made
\* while something else was done with their links.  None works once the login is
\* switched off, from the statement on that deletes them: neither older ones nor any
\* made since, whatever fails or overlaps over anybody else.  What is excused is the
\* person whose own switching-off stands, or was broken off, between the two
\* statements (user.update and deleteMany of PATCH /staff/:id), until it is done again.
LinksDie ==
  \A q \in Person \ overlap :
    /\ Cardinality(Open(q)) <= 1
    /\ account[q].off => Open(q) = {} \/ q \in halfway \/ \E c \in Call : q \in ToTidy(c)

\* The inductive strengthening of the three.  Of a request: whom it is about, and what
\* it is noted to be at.
CallOK(q) ==
  /\ q.op \in {"login", "patch", "forgot", "reset", "issue"} => q.who \in Person
  /\ q.op \in {"forgot", "reset", "issue"} => q.covers = {q.who}
  /\ q.op \in {"patch", "issue", "sheet"} => q.by \in Person
  /\ q.op = "login"  => q.what \in {"ADMIN", "STAFF"}
  /\ q.op = "patch"  => /\ q.what \in Change /\ (q.by = q.who => q.got = 0)
                        /\ q.what = "off" => q.covers = {q.who}
                        /\ q.at = "tidy" => q.what = "off"
  /\ q.op = "forgot" => q.at \in {"read", "deleted"}
  /\ q.op = "issue"  => q.at \in {"read", "answer"} /\ IsStaff(q.who)
  /\ q.op = "reset"  => /\ q.got \in 1..MaxLink
                        /\ link[q.got].who = q.who /\ link[q.got].at # "unborn"
  /\ q.op = "sheet"  => /\ q.todo \subseteq q.covers
                        /\ \A p \in q.covers : p \in Person /\ IsStaff(p)
  /\ q.op = "join"   => q.who \in Visitor
  /\ q.op # "none"   => q.at # "idle"
CallInv == \A c \in Call : CallOK(call[c])

\* Nothing else is done with the links of a person whose new link is being made; until
\* it is there no link of theirs works, and none of a login that is off.
Doing(c, q, ops) == call[c].op \in ops /\ q \in call[c].covers
LinkOK(q) ==
  /\ \A c, d \in Call : Doing(c, q, {"forgot"}) /\ Doing(d, q, {"forgot", "reset", "patch"}) => c = d
  /\ \A k, l \in Open(q) : k = l
  /\ (\E c \in Call : At(c, "forgot", "deleted") /\ call[c].who = q) => Open(q) = {}
  /\ account[q].off => /\ \A c \in Call : ~ Doing(c, q, {"forgot"})
                       /\ Open(q) = {} \/ q \in halfway \/ \E c \in Call : q \in ToTidy(c)
LinkInv == \A q \in Person \ overlap : LinkOK(q)

\* One request at a time is at a person's PIN, and has the digits that work; so does
\* every page, but for the one that is about to hear of a reset it asked for.
SlipsAgree(q) ==
  /\ \A c, d \in Call : Doing(c, q, {"issue", "sheet"}) /\ Doing(d, q, {"issue", "sheet"}) => c = d
  /\ \A c \in Call : call[c].op = "sheet" => call[c].slips[q] \in {NoPin, pin[q]}
  /\ \A c \in Call : At(c, "issue", "answer") /\ call[c].who = q => call[c].slips[q] = pin[q]
  /\ \A p \in Person :
       \/ {page[p].shown[q], page[p].sheet[q]} \subseteq {NoPin, pin[q]}
       \/ \E c \in Call : At(c, "issue", "answer") /\ call[c].by = p /\ call[c].who = q
SlipOK(q) ==
  /\ \A p \in Person : IsStaff(q) \/ (page[p].shown[q] = NoPin /\ page[p].sheet[q] = NoPin)
  /\ \A c \in Call : call[c].op = "sheet" /\ call[c].slips[q] # NoPin => q \in call[c].covers
  /\ q \notin overlap \cup unheard => SlipsAgree(q)
SlipInv == \A q \in Person : SlipOK(q)

AccountsInv == CallInv /\ LockoutNeedsStaleAdmin /\ LinkInv /\ SlipInv
=============================================================================
