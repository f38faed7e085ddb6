----------------------------- MODULE AgentLoop -----------------------------
(***************************************************************************)
(* What keeps the agent running on the shop's PC.  A scheduled task starts *)
(* loop.js, which refuses to run twice by a pid file; the loop starts the  *)
(* agent, pusher.js, again and again, one at a time; the agent fetches its *)
(* own next version, and the modules it needs, from the server and writes  *)
(* them over itself (checkForUpdate).                                      *)
(***************************************************************************)
EXTENDS Integers, FiniteSets

CONSTANTS
  Loop,       \* loop.js processes
  MaxDeploy,  \* bound: new versions put on the server
  MaxMishap    \* bound: kills, power cuts, failed downloads

ASSUME LoopConstantsOK == {MaxDeploy, MaxMishap} \subseteq Nat

Version  == 0..MaxDeploy
Torn     == -1          \* a file written half
NoLock   == "none"
Stale    == "stale"     \* a pid of no process
Stranger == "stranger"  \* a dead loop's pid that another process has got

VARIABLES
  loop,     \* loop[l]: not running, about to write its pid, or running
  lock,     \* loop.pid
  running,  \* running[l]: the loop's own flag
  agent,    \* agent[l]: the agent l started; it may outlive l, and until it
            \* ends the name l is not given to another loop
  files,    \* the version of the files the server hands out
  version,  \* the version the server says there is
  pusher,   \* pusher.js on the PC
  sidecar,  \* the modules it requires
  mishaps,
  unguarded, \* history: of the loops that run, two started across each other, or one
             \* could not write its pid
  behind     \* history: the modules may be older than what is run (RunsWithItsModules)

loopVars   == <<loop, lock, running>>
serverVars == <<files, version>>
diskVars   == <<pusher, sidecar>>
machineVars == <<loopVars, agent, serverVars, diskVars, mishaps, unguarded, behind>>

\* An agent: the version it runs, and the file it has fetched and is writing.
NoAgent == [at |-> "none", runs |-> 0, got |-> 0]
Alive(l) == agent[l].at # "none"
WritingModules(l) == agent[l].at = "sidecar"

LoopTypeOK ==
  /\ loop \in [Loop -> {"down", "checked", "up"}]
  /\ lock \in Loop \cup {NoLock, Stale, Stranger}
  /\ running \in [Loop -> BOOLEAN]
  /\ agent \in [Loop -> [at : {"none", "run", "old", "sidecar", "fetched", "pusher"},
                         runs : Version, got : Version]]
  /\ files \in Version /\ version \in 0..files
  /\ pusher \in Version \cup {Torn} /\ sidecar \in Version \cup {Torn}
  /\ mishaps \in 0..MaxMishap
  /\ unguarded \in BOOLEAN /\ behind \in BOOLEAN

LoopInit ==
  /\ loop = [l \in Loop |-> "down"] /\ lock = NoLock /\ running = [l \in Loop |-> FALSE]
  /\ agent = [l \in Loop |-> NoAgent]
  /\ files = 0 /\ version = 0 /\ pusher = 0 /\ sidecar = 0
  /\ mishaps = 0 /\ unguarded = FALSE /\ behind = FALSE

Mishap == mishaps < MaxMishap /\ mishaps' = mishaps + 1

-----------------------------------------------------------------------------
(* loop.js.                                                                *)

\* alreadyRunning: whether the pid in the file is a process that lives.
AlreadyRunning == lock \in Loop \cup {Stranger}

\* The scheduled task, or the logon, starts a loop; one that finds another leaves.
\* Slip: the pid in the file is taken for one of no process.
mut_Start(l) ==
  /\ loop[l] = "down" /\ ~Alive(l)
  /\ loop' = [loop EXCEPT ![l] = "checked"]
  /\ unguarded' = (unguarded \/ \E k \in Loop \ {l} : loop[k] = "checked")
  /\ UNCHANGED <<lock, running, agent, serverVars, diskVars, mishaps, behind>>

Start(l) ==
  /\ loop[l] = "down" /\ ~Alive(l) /\ ~AlreadyRunning
  /\ loop' = [loop EXCEPT ![l] = "checked"]
  /\ unguarded' = (unguarded \/ \E k \in Loop \ {l} : loop[k] = "checked")
  /\ UNCHANGED <<lock, running, agent, serverVars, diskVars, mishaps, behind>>

WriteLock(l) ==
  /\ loop[l] = "checked"
  /\ loop' = [loop EXCEPT ![l] = "up"]
  /\ lock' = l
  /\ UNCHANGED <<running, agent, serverVars, diskVars, mishaps, unguarded, behind>>

\* The pid file cannot be written: not fatal, as the code says.
LockNotWritten(l) ==
  /\ loop[l] = "checked" /\ Mishap
  /\ loop' = [loop EXCEPT ![l] = "up"]
  /\ unguarded' = TRUE
  /\ UNCHANGED <<lock, running, agent, serverVars, diskVars, behind>>

\* runSync.  Half a pusher.js does not start.
RunSync(l) ==
  /\ loop[l] = "up" /\ ~running[l] /\ pusher # Torn
  /\ running' = [running EXCEPT ![l] = TRUE]
  /\ agent' = [agent EXCEPT ![l] = [at |-> "run", runs |-> pusher, got |-> 0]]
  /\ UNCHANGED <<loop, lock, serverVars, diskVars, mishaps, unguarded, behind>>

\* A loop that is killed leaves its pid behind, and its agent running; one that ends
\* by an error of its own removes the file, whoever's pid is in it.
LoopDies(l) ==
  /\ loop[l] # "down" /\ Mishap
  /\ loop' = [loop EXCEPT ![l] = "down"]
  /\ running' = [running EXCEPT ![l] = FALSE]
  /\ lock' \in (IF lock = l THEN {Stale, Stranger} ELSE {lock})
                \cup (IF loop[l] = "up" THEN {NoLock} ELSE {})
  /\ unguarded' = (unguarded /\ \E k \in Loop \ {l} : loop[k] # "down")
  /\ UNCHANGED <<agent, serverVars, diskVars, behind>>

\* Everything stops where it is.
PowerCut ==
  /\ Mishap
  /\ loop' = [l \in Loop |-> "down"] /\ running' = [l \in Loop |-> FALSE]
  /\ agent' = [l \in Loop |-> NoAgent]
  /\ lock' \in IF lock \in Loop THEN {Stale, Stranger} ELSE {lock}
  /\ unguarded' = FALSE
  /\ behind' = (behind \/ \E l \in Loop : WritingModules(l))
  /\ UNCHANGED <<serverVars, diskVars>>

-----------------------------------------------------------------------------
(* pusher.js: checkForUpdate, and the end of a run.                        *)

\* The agent ends, and its loop, when that still lives, hears of it.
Gone(l) ==
  /\ agent' = [agent EXCEPT ![l] = NoAgent]
  /\ running' = [running EXCEPT ![l] = FALSE]
  /\ UNCHANGED <<loop, lock>>

\* With no newer version, or none asked for this minute, the run goes on to its end.
Ends(l) ==
  /\ agent[l].at = "run"
  /\ Gone(l)
  /\ UNCHANGED <<serverVars, diskVars, mishaps, unguarded, behind>>

\* Slip: it is the modules whose version is looked at.
mut_CheckForUpdate(l) ==
  /\ agent[l].at = "run" /\ version # sidecar
  /\ agent' = [agent EXCEPT ![l].at = "old"]
  /\ UNCHANGED <<loopVars, serverVars, diskVars, mishaps, unguarded, behind>>

CheckForUpdate(l) ==
  /\ agent[l].at = "run" /\ version # agent[l].runs
  /\ agent' = [agent EXCEPT ![l].at = "old"]
  /\ UNCHANGED <<loopVars, serverVars, diskVars, mishaps, unguarded, behind>>

\* writeFileSync empties the file before it fills it.
\* Slip: the modules are left for another time.
mut_FetchSidecar(l) ==
  /\ agent[l].at = "old"
  /\ agent' = [agent EXCEPT ![l].at = "fetched"]
  /\ UNCHANGED <<loopVars, serverVars, diskVars, mishaps, unguarded, behind>>

FetchSidecar(l) ==
  /\ agent[l].at = "old"
  /\ agent' = [agent EXCEPT ![l].at = "sidecar", ![l].got = files]
  /\ sidecar' = Torn
  /\ behind' = (behind /\ \E k \in Loop \ {l} : WritingModules(k))
  /\ UNCHANGED <<loopVars, serverVars, pusher, mishaps, unguarded>>

\* A sidecar that fails to download is logged and left as it is.
SidecarFails(l) ==
  /\ agent[l].at = "old" /\ Mishap
  /\ agent' = [agent EXCEPT ![l].at = "fetched"]
  /\ behind' = (behind \/ sidecar < files)
  /\ UNCHANGED <<loopVars, serverVars, diskVars, unguarded>>

WriteSidecar(l) ==
  /\ agent[l].at = "sidecar"
  /\ sidecar' = agent[l].got
  /\ agent' = [agent EXCEPT ![l].at = "fetched"]
  /\ UNCHANGED <<loopVars, serverVars, pusher, mishaps, unguarded, behind>>

FetchPusher(l) ==
  /\ agent[l].at = "fetched"
  /\ agent' = [agent EXCEPT ![l].at = "pusher", ![l].got = files]
  /\ pusher' = Torn
  /\ UNCHANGED <<loopVars, serverVars, sidecar, mishaps, unguarded, behind>>

\* The run goes on as the version it is; the next one is the new version.
WritePusher(l) ==
  /\ agent[l].at = "pusher"
  /\ pusher' = agent[l].got
  /\ Gone(l)
  /\ UNCHANGED <<serverVars, sidecar, mishaps, unguarded, behind>>

\* The agent dies, or a download fails and the update is left for the next minute.
AgentDies(l) ==
  /\ Alive(l) /\ Mishap
  /\ Gone(l)
  /\ behind' = (behind \/ WritingModules(l))
  /\ UNCHANGED <<serverVars, diskVars, unguarded>>

-----------------------------------------------------------------------------
(* The server.  A deploy changes the files first; the version it says there*)
(* is is a constant of the process, and changes when that is restarted.    *)

Deploy ==
  /\ files < MaxDeploy
  /\ files' = files + 1
  /\ behind' = (behind \/ \E l \in Loop : agent[l].at \in {"sidecar", "fetched"})
  /\ UNCHANGED <<loopVars, agent, version, diskVars, mishaps, unguarded>>

Restart ==
  /\ version < files
  /\ version' = files
  /\ UNCHANGED <<loopVars, agent, files, diskVars, mishaps, unguarded, behind>>

-----------------------------------------------------------------------------
Update(l) == FetchSidecar(l) \/ WriteSidecar(l) \/ FetchPusher(l) \/ WritePusher(l)

LoopNext ==
  \/ PowerCut \/ Deploy \/ Restart
  \/ \E l \in Loop :
       \/ Start(l) \/ WriteLock(l) \/ LockNotWritten(l) \/ RunSync(l) \/ LoopDies(l)
       \/ Ends(l) \/ CheckForUpdate(l) \/ Update(l) \/ SidecarFails(l) \/ AgentDies(l)

LoopSpec == LoopInit /\ [][LoopNext]_machineVars

\* The task starts a loop every few minutes, timers fire, an agent looks for its
\* next version once a minute, and a deploy ends with a restart.
FairLoopSpec ==
  /\ LoopSpec
  /\ WF_machineVars(\E l \in Loop : Start(l)) /\ WF_machineVars(Restart)
  /\ \A l \in Loop :
       /\ WF_machineVars(WriteLock(l)) /\ WF_machineVars(RunSync(l)) /\ WF_machineVars(Ends(l) \/ CheckForUpdate(l))
       /\ SF_machineVars(CheckForUpdate(l)) /\ WF_machineVars(Update(l))

-----------------------------------------------------------------------------
\* Two agents are at the shop's database at once only if two of the loops that run
\* started across each other (the check and the write of the pid file are two steps) or
\* one of them could not write its pid, or if an agent has outlived its loop.  No other
\* kill, no power cut and no stale pid leads to two.
TwoAgentsNeedRaceOrKill ==
  \/ Cardinality({l \in Loop : Alive(l)}) <= 1
  \/ unguarded
  \/ \E l \in Loop : Alive(l) /\ loop[l] = "down"

\* An agent has on the disk the modules of its own version or of a later one, wherever
\* an update was cut off and whoever else is updating, unless the modules are being
\* written, or were left behind: their last download failed, or was cut short halfway
\* through the writing, or the files on the server changed before pusher.js was
\* fetched after them (checkForUpdate writes them first).
RunsWithItsModules ==
  \A l \in Loop :
    Alive(l) => sidecar >= agent[l].runs \/ behind \/ \E k \in Loop : WritingModules(k)

\* The inductive strengthening of the two.  An agent has its loop, which knows of it, or
\* has lost it; while nothing has gone wrong over the pid file since loops last ran, one
\* loop at most is not down, and the pid in the file is its own once it is up; and
\* modules that were not left behind are as new as anything that is run or being written.
LoopInv ==
  /\ \A l \in Loop : Alive(l) => loop[l] = "down" \/ (loop[l] = "up" /\ running[l])
  /\ ~unguarded =>
       /\ \A k, l \in Loop : loop[k] # "down" /\ loop[l] # "down" => k = l
       /\ \A l \in Loop : loop[l] = "up" => lock = l
Modules(v) == sidecar >= v \/ \E k \in Loop : WritingModules(k)
DiskInv ==
  /\ pusher <= files
  /\ \A l \in Loop : agent[l].runs <= files /\ agent[l].got <= files
  /\ ~behind =>
       /\ Modules(pusher)
       /\ \A l \in Loop : /\ Alive(l) => Modules(agent[l].runs)
                          /\ agent[l].at = "sidecar" => agent[l].got = files
                          /\ agent[l].at = "fetched" => Modules(files)
                          /\ agent[l].at = "pusher"  => Modules(agent[l].got)
AgentLoopInv == LoopInv /\ DiskInv

\* The PC comes to run what the server has, unless pusher.js was cut short while it
\* was written: nothing on the PC can mend that.
UpdatesArrive == <>[](pusher = files \/ pusher = Torn) \/ <>[](lock = Stranger)
=============================================================================
