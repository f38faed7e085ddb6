------------------------------ MODULE WebJobs ------------------------------
(***************************************************************************)
(* The two pages of the dashboard that go on polling for something done in *)
(* the shop: the receipt waits for the number its sale is given in MySQL   *)
(* (dashboard/pos), and the upload of the history for the watermark of the *)
(* mirror to move (dashboard/history).  They share nothing.                *)
(***************************************************************************)
EXTENDS Integers, Sequences, FiniteSets, FiniteSetsExt, SequencesExt

CONSTANTS
  MaxSale,   \* bound: sales made on the page
  MaxPrint,  \* bound: receipts sent to the office printer
  MaxRun,    \* bound: uploads queued
  MaxMark,   \* bound: dates the watermark moves by
  MaxSlip    \* bound: requests that fail, and waits that run out

ASSUME WebJobsConstantsOK ==
  {MaxSale, MaxPrint, MaxRun, MaxMark, MaxSlip} \subseteq Nat

VARIABLES
  sales,     \* sales[s]: the receipt number of the order, 0 until the shop wrote it
  receipt,   \* on screen: sale, number, and whether an earlier number was awaited
  polling,   \* the sales whose number is awaited
  syncing,   \* the page says that it is
  printed,   \* the receipts sent to the office
  status,              \* last_mirrored_date and mirror_paused of the server
  queued, done,        \* mirror_run changes there have been, and those applied
  base,                \* the date the run being applied began with
  posted,              \* history: the last run to have posted its watermark
  known,               \* the page's copy of the status
  opening,             \* where resumeIfActive stands, and the status it has read
  watches, mirroring,  \* the loops that poll, and the flag they share
  said,                \* what the page last said, and of which run
  slips

saleVars   == <<sales, receipt, polling, syncing, printed>>
runVars    == <<queued, done, base, posted>>
watchVars  == <<known, opening, watches, mirroring, said>>
mirrorVars == <<status, runVars, watchVars>>
jobVars    == <<saleVars, mirrorVars, slips>>

NoReceipt == [sale |-> 0, no |-> 0, mixed |-> FALSE]
Silence   == [text |-> "", run |-> 0, amid |-> FALSE]
Sale      == DOMAIN sales

\* Dates are counted from one; no date yet is null, and an error has none at all.
Null   == 0
NoRun   == -1
Fresh  == [mark |-> Null, paused |-> FALSE]
Garbled  == [mark |-> -1, paused |-> FALSE]
Status == [mark : -1..MaxMark, paused : BOOLEAN]

JobsTypeOK ==
  /\ sales \in Seq(0..MaxSale) /\ Len(sales) <= MaxSale
  /\ receipt.sale \in 0..Len(sales) /\ polling \subseteq Sale /\ syncing \in BOOLEAN
  /\ Len(printed) <= MaxPrint
  /\ status \in Status /\ status # Garbled /\ known \in Status
  /\ queued \in 0..MaxRun /\ done \in 0..queued /\ posted \in 0..queued /\ base \in NoRun..MaxMark
  /\ opening.at \in {"status", "queue", "over"} /\ mirroring \in BOOLEAN
  /\ \A w \in watches : w.was \in Status /\ w.kind \in {"resumed", "started"} /\ w.run \in 1..queued
  /\ slips \in 0..MaxSlip

JobsInit ==
  /\ sales = <<>> /\ receipt = NoReceipt /\ polling = {} /\ syncing = FALSE /\ printed = <<>>
  /\ status = Fresh /\ queued \in 0..1 /\ done = 0 /\ base = NoRun /\ posted = 0
  /\ known = Fresh /\ opening = [at |-> "status", was |-> Fresh]
  /\ watches = {} /\ mirroring = FALSE /\ said = Silence
  /\ slips = 0

Slip == slips < MaxSlip /\ slips' = slips + 1

-----------------------------------------------------------------------------
(* The receipt and its number.                                             *)

\* The sale is answered; its receipt covers the page and its number is polled for.
CompleteSale ==
  /\ receipt = NoReceipt /\ Len(sales) < MaxSale
  /\ sales' = Append(sales, 0)
  /\ receipt' = [sale |-> Len(sales'), no |-> 0, mixed |-> polling # {}]
  /\ polling' = polling \cup {Len(sales')}
  /\ syncing' = TRUE
  /\ UNCHANGED <<printed, mirrorVars, slips>>

\* The agent writes the order into MySQL, under the next number.
WriteSale(s) ==
  /\ sales[s] = 0
  /\ sales' = [sales EXCEPT ![s] = Max({sales[t] : t \in Sale}) + 1]
  /\ UNCHANGED <<receipt, polling, syncing, printed, mirrorVars, slips>>

\* Whatever receipt is on screen by then is given the number.
NumberArrives(s) ==
  /\ s \in polling /\ sales[s] # 0
  /\ receipt' = IF receipt = NoReceipt THEN receipt ELSE [receipt EXCEPT !.no = sales[s]]
  /\ polling' = polling \ {s} /\ syncing' = FALSE
  /\ UNCHANGED <<sales, printed, mirrorVars, slips>>

\* Two minutes are over.
NumberAwaitedTooLong(s) ==
  /\ s \in polling /\ Slip
  /\ polling' = polling \ {s} /\ syncing' = FALSE
  /\ UNCHANGED <<sales, receipt, printed, mirrorVars>>

PrintOnOfficePrinter ==
  /\ receipt # NoReceipt /\ Len(printed) < MaxPrint
  /\ printed' = Append(printed, receipt)
  /\ UNCHANGED <<sales, receipt, polling, syncing, mirrorVars, slips>>

NewSale ==
  /\ receipt # NoReceipt
  /\ receipt' = NoReceipt /\ syncing' = FALSE
  /\ UNCHANGED <<sales, polling, printed, mirrorVars, slips>>

-----------------------------------------------------------------------------
(* The upload of the history: the server and the shop.                     *)

\* A batch begins with the date it finds; it ends at once when paused or up to date.
BeginRun ==
  /\ done < queued /\ base = NoRun
  /\ IF status.paused THEN done' = done + 1 /\ UNCHANGED base ELSE base' = status.mark /\ UNCHANGED done
  /\ UNCHANGED <<saleVars, status, queued, posted, watchVars, slips>>

\* The date is set once, when the days of the batch are done.
PostWatermark ==
  /\ base # NoRun /\ posted <= done
  /\ \E d \in (base + 1)..MaxMark : status' = [status EXCEPT !.mark = d]
  /\ posted' = done + 1
  /\ UNCHANGED <<saleVars, queued, done, base, watchVars, slips>>

\* The change is marked, unless that fails and it is run again.  A run to completion
\* has queued the next batch by then.
EndRun ==
  /\ base # NoRun /\ base' = NoRun
  /\ \/ done' = done + 1 /\ UNCHANGED slips
     \/ done' = done /\ Slip
  /\ queued' \in queued..(IF status.paused THEN queued ELSE queued + 1) /\ queued' <= MaxRun
  /\ UNCHANGED <<saleVars, status, posted, watchVars>>

\* The nightly task moves the same date.
NightlyMirror ==
  /\ \E d \in (status.mark + 1)..MaxMark : status' = [status EXCEPT !.mark = d]
  /\ watches' = {[w EXCEPT !.amid = TRUE] : w \in watches}
  /\ UNCHANGED <<saleVars, runVars, known, opening, mirroring, said, slips>>

-----------------------------------------------------------------------------
(* The upload of the history: the page.                                    *)

\* run: the one it waits for.  amid: another may move the date, or has already.
Watch(kind, was, run) ==
  [kind |-> kind, was |-> was, run |-> run, amid |-> was.mark # status.mark \/ run > done + 1]

\* GET /sync/mirror/progress: an error of the server is taken for a status.
Answer == \/ known' = status /\ UNCHANGED slips
          \/ known' = Garbled /\ Slip

LoadMirrorStatus ==
  /\ opening.at = "status"
  /\ Answer
  /\ opening' = [at |-> "queue", was |-> known']
  /\ UNCHANGED <<saleVars, status, runVars, watches, mirroring, said>>

\* A run found pending is watched, though its date may have been posted by now.
ResumeIfActive ==
  /\ opening.at = "queue" /\ opening' = [opening EXCEPT !.at = "over"]
  /\ IF done < queued
     THEN /\ watches' = watches \cup {Watch("resumed", opening.was, done + 1)}
          /\ mirroring' = TRUE /\ said' = Silence
     ELSE UNCHANGED <<watches, mirroring, said>>
  /\ UNCHANGED <<saleVars, status, runVars, known, slips>>

\* The snapshot is the status as the page knew it when the button was drawn.
StartMirrorBatch ==
  /\ ~mirroring /\ queued < MaxRun
  /\ status' = [status EXCEPT !.paused = FALSE]
  /\ queued' = queued + 1
  /\ watches' = watches \cup {Watch("started", known, queued')}
  /\ mirroring' = TRUE /\ said' = Silence
  /\ UNCHANGED <<saleVars, done, base, posted, known, opening, slips>>

\* The change cannot be queued, or the answer is lost; the pause is off either way.
StartFails ==
  /\ ~mirroring /\ Slip
  /\ status' = [status EXCEPT !.paused = FALSE]
  /\ queued' \in {queued, queued + 1} /\ queued' <= MaxRun
  /\ said' = [Silence EXCEPT !.text = "could not queue"]
  /\ UNCHANGED <<saleVars, done, base, posted, known, opening, watches, mirroring>>

PauseMirror ==
  /\ mirroring
  /\ status' = [status EXCEPT !.paused = TRUE]
  /\ said' = [Silence EXCEPT !.text = "pause requested"]
  /\ known' = status'
  /\ UNCHANGED <<saleVars, runVars, opening, watches, mirroring, slips>>

\* Another date than the snapshot, or the pause, ends the loop.
\* Slip: any date does.
mut_Judged(w, got) ==
  IF got.mark # Null \/ got.paused
  THEN /\ said' = [text |-> IF got.paused THEN "paused" ELSE "batch complete",
                   run |-> w.run, amid |-> w.amid \/ got = Garbled]
       /\ watches' = watches \ {w} /\ mirroring' = FALSE
  ELSE UNCHANGED <<said, watches, mirroring>>

Judged(w, got) ==
  IF got.mark # w.was.mark \/ got.paused
  THEN /\ said' = [text |-> IF got.paused THEN "paused" ELSE "batch complete",
                   run |-> w.run, amid |-> w.amid \/ got = Garbled]
       /\ watches' = watches \ {w} /\ mirroring' = FALSE
  ELSE UNCHANGED <<said, watches, mirroring>>

PollProgress(w) ==
  /\ w \in watches
  /\ Answer
  /\ Judged(w, known')
  /\ UNCHANGED <<saleVars, status, runVars, opening>>

\* No answer: the snapshot is judged instead, with the pause it was taken under.
PollUnanswered(w) ==
  /\ w \in watches /\ Slip
  /\ known' = w.was
  /\ Judged(w, w.was)
  /\ UNCHANGED <<saleVars, status, runVars, opening>>

\* Twenty minutes are over; a resumed loop says nothing.
WatchedTooLong(w) ==
  /\ w \in watches /\ Slip
  /\ watches' = watches \ {w} /\ mirroring' = FALSE
  /\ said' = IF w.kind = "started" THEN [Silence EXCEPT !.text = "timed out"] ELSE said
  /\ UNCHANGED <<saleVars, status, runVars, known, opening>>

-----------------------------------------------------------------------------
SaleStep ==
  \/ CompleteSale \/ PrintOnOfficePrinter \/ NewSale
  \/ \E s \in Sale : WriteSale(s)
  \/ \E s \in polling : NumberArrives(s) \/ NumberAwaitedTooLong(s)

MirrorStep ==
  \/ BeginRun \/ PostWatermark \/ EndRun \/ NightlyMirror
  \/ LoadMirrorStatus \/ ResumeIfActive \/ StartMirrorBatch \/ StartFails \/ PauseMirror
  \/ \E w \in watches : PollProgress(w) \/ PollUnanswered(w) \/ WatchedTooLong(w)

JobsNext == SaleStep \/ MirrorStep

-----------------------------------------------------------------------------
\* A receipt, on the screen or sent to the office printer, bears its own number unless
\* it was made while the number of an earlier one was awaited: the loop of that one
\* goes on, and gives its number to whatever is on screen (syncReceiptNo, newSale and
\* printOnOfficePrinter in dashboard/pos/page.tsx).
OwnNumber ==
  \A r \in {receipt} \cup ToSet(printed) : r.no # 0 => r.no = sales[r.sale] \/ r.mixed

\* When the page says that a batch is complete, the run it waited for has posted its
\* date, unless another run or the nightly task moved the date, the snapshot was not
\* the server's, or an error was taken for a status: the loop only sees a date that
\* differs (startMirrorBatch and resumeIfActive in dashboard/history/page.tsx).
CompleteMeansOwnRun ==
  said.text = "batch complete" => said.run <= posted \/ said.amid

\* The two loops outlive the sale and the press they were started by.  What they leave
\* on the page is of that sale, and of that press.
LoopsTellTheirOwn == OwnNumber /\ CompleteMeansOwnRun

\* The inductive strengthening of the two.  The loops that go on beside a receipt's own
\* are those it was made among; and the date of the server is the one a loop began
\* with, for as long as neither its run nor another has moved it.
ReceiptInv ==
  /\ sales \in Seq(ToSet(sales)) /\ printed \in Seq(ToSet(printed)) /\ DOMAIN receipt = DOMAIN NoReceipt
  /\ receipt # NoReceipt => receipt.sale \in Sale /\ (receipt.mixed \/ polling \subseteq {receipt.sale})
  /\ \A r \in {receipt} \cup ToSet(printed) : r.no # 0 => r.sale \in Sale
WatchInv ==
  /\ {status, known} \subseteq Status /\ opening \in [at : {"status", "queue", "over"}, was : Status]
  /\ watches \subseteq [kind : {"resumed", "started"}, was : Status, run : Nat, amid : BOOLEAN]
  /\ {done, queued, posted, said.run} \subseteq Nat /\ posted <= done + 1 /\ base \in NoRun..MaxMark
  /\ \A w \in watches :
       w.amid \/ w.run <= posted \/ (w.was.mark = status.mark /\ w.run <= done + 1)

SalesInv  == ReceiptInv /\ OwnNumber
MirrorInv == WatchInv /\ CompleteMeansOwnRun
=============================================================================
