---------------------------- MODULE MCDashboard ----------------------------
(* The refresh with all that is behind it, the lists and forms of the pages, and *)
(* the two pages that poll share no state: a behaviour is of one of them, and    *)
(* the others stand still.  The refresh is seen twice: with an old agent, a day  *)
(* and a sale less, and without one, which is what the stock is about.           *)
EXTENDS SyncCycle, WebPages, WebJobs

VARIABLE scene

DashboardInit ==
  /\ Init /\ PagesInit /\ JobsInit
  /\ scene \in {"refresh", "stock", "pages", "sales", "mirror"}
  /\ scene # "pages" => on = "Snapshot"
  /\ scene # "mirror" => queued = 0

DashboardNext ==
  /\ UNCHANGED scene
  /\ \/ scene = "refresh" /\ Next       /\ UNCHANGED <<pageVars, jobVars>> /\ today' < LastDay
                            /\ Total(moved') < MaxMove
     \/ scene = "stock"   /\ Next       /\ UNCHANGED <<pageVars, jobVars>> /\ olds' = 0
     \/ scene = "pages"   /\ PagesNext  /\ UNCHANGED <<vars, jobVars>>
     \/ scene = "sales"   /\ SaleStep   /\ UNCHANGED <<vars, pageVars>>
     \/ scene = "mirror"  /\ MirrorStep /\ UNCHANGED <<vars, pageVars>>

DashboardSpec == DashboardInit /\ [][DashboardNext]_<<vars, pageVars, jobVars, scene>>

Sym == Permutations(Post)
=============================================================================
