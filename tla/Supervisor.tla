----------------------------- MODULE Supervisor -----------------------------
(***************************************************************************)
(* How the Multi64 app supervises multi64d                                 *)
(* (crates/multi64/src-tauri/src/lib.rs).                                  *)
(*                                                                         *)
(* Commands of the window and of the tray run as tasks on a blocking pool, *)
(* auto-start on a thread of its own, and the exit on the main thread.     *)
(* DAEMON_OPS serializes what spawns and kills; the daemon's handle and    *)
(* the settings have a lock each, held for one step; STARTING, SPAWNED_ONCE *)
(* and SHUTTING_DOWN are flags read without a lock.  A step is what a      *)
(* thread does between two points where another can run.                   *)
(***************************************************************************)
CONSTANTS
  Tasks,   \* of the blocking pool
  AutoStart,  \* the thread of auto_start
  Main,    \* the main thread
  None,    \* nobody, nothing
  Pids,    \* processes; the pid of one that is gone, and whose watcher is, may be used again
  Args     \* what of the settings a daemon is spawned with: port, cart, listen address...

Threads == Tasks \cup {AutoStart}

ASSUME ThreadsAssumption ==
  /\ AutoStart \notin Tasks /\ Main \notin Threads
  /\ None \notin Threads \cup {Main}
ASSUME PidsAssumption ==
  /\ None \notin Pids
  /\ Pids \cap {"off", "due", "asks", "nobody"} = {}

VARIABLES
  saved,     \* AppState.settings, as far as a daemon is spawned with them
  child,     \* DaemonInner.child
  link,      \* DaemonInner.link: the process whose answer it is, None for Unknown
  procs,     \* the multi64d processes alive, with what each was spawned with
  watch,     \* per process: its watch_link thread: "off", "due" to look, "asks", or whom it heard
  ops,       \* who holds DAEMON_OPS
  starting,  \* STARTING
  spawned,   \* SPAWNED_ONCE
  shutdown,  \* SHUTTING_DOWN
  does,      \* per thread: the command it runs, "tray" for the tray's and for Stop
  pc,        \* per thread: where it is
  used,      \* the settings the start that holds DAEMON_OPS uses, None without one
  born,      \* the process it spawned and has not recorded yet
  news,      \* something auto-start depends on has changed since its last attempt
  main       \* the main thread: its "loop", or where its exit is

vars == <<saved, child, link, procs, watch, ops, starting, spawned,
          shutdown, does, pc, used, born, news, main>>

daemonVars   == <<child, link, procs>>
spawnVars    == <<watch, spawned, born>>
flagVars     == <<starting, shutdown>>


\* Where a thread that begun a start has not yet settled it, and where it holds DAEMON_OPS.
Beginning == {"announce", "startWaits"}
Starting  == {"read", "kill", "resolve", "spawn", "record", "compare"}
Operating == Starting \cup {"release", "killing"}
Places    == Beginning \cup Operating \cup
             {"idle", "check", "begin", "guard", "tell", "killWaits", "exit",
              "saving", "saveCheck", "look", "off"}

Init ==
  /\ saved \in Args
  /\ child = None /\ link = None /\ procs = {} /\ born = None
  /\ watch = [p \in Pids |-> "off"]
  /\ ops = None
  /\ starting = FALSE /\ spawned = FALSE /\ shutdown = FALSE
  /\ does = [t \in Threads |-> IF t = AutoStart THEN "auto" ELSE "none"]
  /\ \E auto \in {"look", "off"} : pc = [t \in Threads |-> IF t = AutoStart THEN auto ELSE "idle"]
  /\ used = None
  /\ news = TRUE
  /\ main = "loop"

-----------------------------------------------------------------------------

At(t, place) == pc[t] = place
Go(t, place) == pc' = [pc EXCEPT ![t] = place]

\* The command is over; auto-start looks again.
Finish(t) == Go(t, IF t = AutoStart THEN "look" ELSE "idle")

Alive(p) == \E a \in Args : <<p, a>> \in procs
Running  == child # None /\ Alive(child)

\* daemon_is_running: a daemon that has exited on its own is forgotten.
Observe ==
  /\ child' = IF Running THEN child ELSE None
  /\ link' = IF Running THEN link ELSE None
  /\ UNCHANGED procs

\* kill_daemon_locked: killed, and waited for, under the daemon's lock.
KillChild ==
  /\ procs' = {d \in procs : d[1] # child}
  /\ child' = None
  /\ link' = None

\* Variant: DAEMON_OPS is not waited for.
TakeOps_Anyway(who) == ops' = who

TakeOps(who) == ops = None /\ ops' = who

-----------------------------------------------------------------------------
(* Commands.                                                               *)

\* The window's Start button is off while its command runs, and so is Save.
Alone(c) == \A t \in Tasks : does[t] # c

Click(t, c) ==
  /\ main = "loop" /\ At(t, "idle")
  /\ c \in {"start", "save"} => Alone(c)
  /\ does' = [does EXCEPT ![t] = c]

\* The window's Start, or the tray's toggle.
ClickStart(t) ==
  /\ \E c \in {"start", "tray"} : Click(t, c)
  /\ Go(t, "check")
  /\ UNCHANGED <<saved, daemonVars, spawnVars, flagVars, ops, used, news, main>>

\* The tray's Restart.
ClickRestart(t) ==
  /\ Click(t, "tray")
  /\ Go(t, "begin")
  /\ UNCHANGED <<saved, daemonVars, spawnVars, flagVars, ops, used, news, main>>

\* The window's Stop.
ClickStop(t) ==
  /\ Click(t, "tray")
  /\ Go(t, "killWaits")
  /\ UNCHANGED <<saved, daemonVars, spawnVars, flagVars, ops, used, news, main>>

\* The tray's Exit: the flag is set on the main thread, the kill runs on the pool.
ClickQuit(t) ==
  /\ Click(t, "quit")
  /\ shutdown' = TRUE
  /\ Go(t, "killWaits")
  /\ UNCHANGED <<saved, daemonVars, spawnVars, starting, ops, used, news, main>>

ClickSave(t) ==
  /\ Click(t, "save")
  /\ Go(t, "saving")
  /\ UNCHANGED <<saved, daemonVars, spawnVars, flagVars, ops, used, news, main>>

\* Start does nothing while the bridge runs; the tray's toggle stops it.
CheckRunning(t) ==
  /\ At(t, "check")
  /\ Go(t, IF ~Running THEN "begin" ELSE IF does[t] = "tray" THEN "killWaits" ELSE "tell")
  /\ Observe
  /\ UNCHANGED <<saved, spawnVars, flagVars, ops, does, used, news, main>>

\* The settings replaced and STARTING read under one lock. No other Save has come between
\* since this one read the settings it compares with.
SaveWrites(t) ==
  /\ At(t, "saving")
  /\ saved' \in Args
  /\ Go(t, IF saved' # saved /\ ~starting THEN "saveCheck" ELSE "tell")
  /\ UNCHANGED <<daemonVars, spawnVars, flagVars, ops, does, used, news, main>>

\* The file or the sign-in entry could not be written: nothing is saved.
SaveFails(t) ==
  /\ At(t, "saving")
  /\ Go(t, "tell")
  /\ UNCHANGED <<saved, daemonVars, spawnVars, flagVars, ops, does, used, news, main>>

SaveRestarts(t) ==
  /\ At(t, "saveCheck")
  /\ Go(t, IF Running THEN "begin" ELSE "tell")
  /\ Observe
  /\ UNCHANGED <<saved, spawnVars, flagVars, ops, does, used, news, main>>

\* "daemon-changed" runs the tray's listener on this thread, which rebuilds the menu through
\* the main thread and waits for it.
Tell(t) ==
  /\ At(t, "tell") /\ main = "loop"
  /\ Finish(t)
  /\ does' = [does EXCEPT ![t] = IF t = AutoStart THEN "auto" ELSE "none"]
  /\ UNCHANGED <<saved, daemonVars, spawnVars, flagVars, ops, used, news, main>>

-----------------------------------------------------------------------------
(* auto_start.                                                             *)

\* AutoStart-start is over once anything has spawned a daemon, or its setting is turned off.
AutoLooks ==
  /\ At(AutoStart, "look")
  /\ \/ /\ Go(AutoStart, "off")
        /\ UNCHANGED daemonVars
     \/ /\ ~shutdown /\ ~spawned
        /\ ~starting /\ ~Running /\ news
        /\ Go(AutoStart, "begin")
        /\ Observe
  /\ UNCHANGED <<saved, spawnVars, flagVars, ops, does, used, news, main>>

\* A port appears, or the plan changes, while auto-start may yet look.
PortsChange ==
  /\ ~news /\ ~spawned /\ pc[AutoStart] # "off"
  /\ news' = TRUE
  /\ UNCHANGED <<saved, daemonVars, spawnVars, flagVars, ops, does, pc, used, main>>

-----------------------------------------------------------------------------
(* start_daemon.                                                           *)

Begin(t) ==
  /\ At(t, "begin")
  /\ \/ starting /\ Go(t, "tell") /\ UNCHANGED starting       \* AlreadyStarting
     \/ ~starting /\ starting' = TRUE /\ Go(t, "announce")
  /\ UNCHANGED <<saved, daemonVars, spawnVars, shutdown, ops, does, used, news, main>>

\* Variant: announced under DAEMON_OPS.
Announce_Locked(t) ==
  /\ At(t, "announce")
  /\ \/ ops # t /\ TakeOps(t) /\ UNCHANGED pc
     \/ ops = t /\ main = "loop" /\ Go(t, "read") /\ UNCHANGED ops
  /\ UNCHANGED <<saved, daemonVars, spawnVars, flagVars, does, used, news, main>>

\* The window and the tray show the start before it waits for DAEMON_OPS, which a main
\* thread that exits may be waiting for too.
Announce(t) ==
  /\ At(t, "announce") /\ main = "loop"
  /\ Go(t, "startWaits")
  /\ UNCHANGED <<saved, daemonVars, spawnVars, flagVars, ops, does, used, news, main>>

StartTakesOps(t) ==
  /\ At(t, "startWaits") /\ TakeOps(t)
  /\ Go(t, "read")
  /\ UNCHANGED <<saved, daemonVars, spawnVars, flagVars, does, used, news, main>>

ReadSettings(t) ==
  /\ At(t, "read")
  /\ used' = saved
  /\ Go(t, "kill")
  /\ UNCHANGED <<saved, daemonVars, spawnVars, flagVars, ops, does, news, main>>

KillOld(t) ==
  /\ At(t, "kill")
  /\ KillChild
  /\ Go(t, "resolve")
  /\ UNCHANGED <<saved, spawnVars, flagVars, ops, does, used, news, main>>

\* Variant: an exit is not looked for.
Resolve_Regardless(t) ==
  /\ At(t, "resolve")
  /\ \/ Go(t, "spawn") /\ UNCHANGED news
     \/ Go(t, "compare") /\ news' = (news /\ t # AutoStart)
  /\ UNCHANGED <<saved, daemonVars, spawnVars, flagVars, ops, does, used, main>>

\* The listen address is free, a port was found, and Multi64 is not exiting; or not.
Resolve(t) ==
  /\ At(t, "resolve")
  /\ \/ ~shutdown /\ Go(t, "spawn") /\ UNCHANGED news
     \/ Go(t, "compare") /\ news' = (news /\ t # AutoStart)
  /\ UNCHANGED <<saved, daemonVars, spawnVars, flagVars, ops, does, used, main>>

Spawn(t) ==
  /\ At(t, "spawn")
  /\ \E p \in Pids :
        /\ ~Alive(p) /\ watch[p] = "off"
        /\ procs' = procs \cup {<<p, used>>}
        /\ born' = p
  /\ Go(t, "record")
  /\ UNCHANGED <<saved, child, link, watch, spawned, flagVars, ops, does, used, news, main>>

SpawnFails(t) ==
  /\ At(t, "spawn")
  /\ news' = (news /\ t # AutoStart)
  /\ Go(t, "compare")
  /\ UNCHANGED <<saved, daemonVars, spawnVars, flagVars, ops, does, used, main>>

\* DaemonInner names the new daemon, SPAWNED_ONCE is set, and its watch_link begins.
Record(t) ==
  /\ At(t, "record")
  /\ child' = born /\ link' = None /\ UNCHANGED procs
  /\ spawned' = TRUE
  /\ watch' = [watch EXCEPT ![born] = "due"]
  /\ born' = None
  /\ Go(t, "compare")
  /\ UNCHANGED <<saved, flagVars, ops, does, used, news, main>>

\* Variant: settled whatever was saved meanwhile.
Settle_Anyway(t) ==
  /\ At(t, "compare")
  /\ starting' = FALSE /\ used' = None
  /\ Go(t, "release")
  /\ UNCHANGED <<saved, daemonVars, spawnVars, shutdown, ops, does, news, main>>

\* start_until_settled, under the settings' lock: again if a Save replaced what was used.
Settle(t) ==
  /\ At(t, "compare")
  /\ \/ /\ shutdown \/ saved = used
        /\ starting' = FALSE /\ used' = None
        /\ Go(t, "release")
     \/ /\ ~shutdown /\ saved # used
        /\ Go(t, "read")
        /\ UNCHANGED <<starting, used>>
  /\ UNCHANGED <<saved, daemonVars, spawnVars, shutdown, ops, does, news, main>>

ReleaseOps(t) ==
  /\ At(t, "release")
  /\ ops' = None
  /\ Go(t, "guard")
  /\ UNCHANGED <<saved, daemonVars, spawnVars, flagVars, does, used, news, main>>

\* StartingGuard is dropped.
DropGuard(t) ==
  /\ At(t, "guard")
  /\ starting' = FALSE
  /\ Go(t, "tell")
  /\ UNCHANGED <<saved, daemonVars, spawnVars, shutdown, ops, does, used, news, main>>

-----------------------------------------------------------------------------
(* kill_daemon.                                                            *)

KillTakesOps(t) ==
  /\ At(t, "killWaits") /\ TakeOps(t)
  /\ Go(t, "killing")
  /\ UNCHANGED <<saved, daemonVars, spawnVars, flagVars, does, used, news, main>>

Kill(t) ==
  /\ At(t, "killing")
  /\ KillChild
  /\ ops' = None
  /\ Go(t, IF does[t] = "quit" THEN "exit" ELSE "tell")
  /\ UNCHANGED <<saved, spawnVars, flagVars, does, used, news, main>>

\* app.exit(0), at the end of the tray's Exit.
AskExit(t) ==
  /\ At(t, "exit")
  /\ main' = IF main = "loop" THEN "exitWaits" ELSE main
  /\ Go(t, "tell")
  /\ UNCHANGED <<saved, daemonVars, spawnVars, flagVars, ops, does, used, news>>

\* The window is closed, with no tray to hide to: RunEvent::Exit.
CloseWindow ==
  /\ main = "loop"
  /\ main' = "exitWaits"
  /\ shutdown' = TRUE
  /\ UNCHANGED <<saved, daemonVars, spawnVars, starting, ops, does, pc, used, news>>

MainTakesOps ==
  /\ main = "exitWaits" /\ TakeOps(Main)
  /\ main' = "killing"
  /\ UNCHANGED <<saved, daemonVars, spawnVars, flagVars, does, pc, used, news>>

MainKills ==
  /\ main = "killing"
  /\ KillChild
  /\ ops' = None
  /\ main' = "gone"
  /\ UNCHANGED <<saved, spawnVars, flagVars, does, pc, used, news>>

-----------------------------------------------------------------------------
(* The daemon, and who looks at it.                                        *)

Dies ==
  /\ \E d \in procs : procs' = procs \ {d}
  /\ UNCHANGED <<saved, child, link, spawnVars, flagVars, ops, does, pc, used, news, main>>

\* The window's status poll, or the tray's menu.
Poll ==
  /\ child # None /\ ~Running
  /\ Observe
  /\ UNCHANGED <<saved, spawnVars, flagVars, ops, does, pc, used, news, main>>

\* watch_link goes on for as long as its daemon is the one running.
WatchLooks(p) ==
  /\ watch[p] = "due"
  /\ watch' = [watch EXCEPT ![p] = IF ~shutdown /\ child = p THEN "asks" ELSE "off"]
  /\ UNCHANGED <<saved, daemonVars, spawned, born, flagVars, ops, does, pc, used,
                 news, main>>

\* It asks whoever answers at its daemon's address by then.
WatchAsks(p) ==
  /\ watch[p] = "asks"
  /\ \E q \in {"nobody"} \cup {d[1] : d \in procs} : watch' = [watch EXCEPT ![p] = q]
  /\ UNCHANGED <<saved, daemonVars, spawned, born, flagVars, ops, does, pc, used,
                 news, main>>

\* Variant: no answer is recorded as one.
Heard_Raw(p) == watch[p]

Heard(p) == IF watch[p] = "nobody" THEN None ELSE watch[p]

\* Variant: whoever runs now is told what the daemon before it said.
WatchRecords_Any(p) ==
  /\ watch[p] \notin {"off", "due", "asks"}
  /\ watch' = [watch EXCEPT ![p] = "due"]
  /\ link' = IF child # None THEN Heard(p) ELSE link
  /\ UNCHANGED <<saved, child, procs, spawned, born, flagVars, ops, does, pc, used,
                 news, main>>

\* record_link: only about the daemon that is still the one running.
WatchRecords(p) ==
  /\ watch[p] \notin {"off", "due", "asks"}
  /\ watch' = [watch EXCEPT ![p] = "due"]
  /\ link' = IF child = p THEN Heard(p) ELSE link
  /\ UNCHANGED <<saved, child, procs, spawned, born, flagVars, ops, does, pc, used,
                 news, main>>

-----------------------------------------------------------------------------

Clicks(t) ==
  ClickStart(t) \/ ClickRestart(t) \/ ClickStop(t) \/ ClickQuit(t) \/ ClickSave(t)

\* What a thread does by itself, once it has what it waits for.
Turn(t) ==
  \/ CheckRunning(t) \/ SaveWrites(t) \/ SaveFails(t) \/ SaveRestarts(t) \/ Tell(t)
  \/ Begin(t) \/ Announce(t) \/ ReadSettings(t) \/ KillOld(t) \/ Resolve(t)
  \/ Spawn(t) \/ SpawnFails(t) \/ Record(t) \/ Settle(t) \/ ReleaseOps(t) \/ DropGuard(t)
  \/ Kill(t) \/ AskExit(t)

Waits(t) == StartTakesOps(t) \/ KillTakesOps(t)

Next ==
  \/ \E t \in Tasks : Clicks(t)
  \/ \E t \in Threads : Turn(t) \/ Waits(t)
  \/ AutoLooks \/ PortsChange
  \/ CloseWindow \/ MainTakesOps \/ MainKills
  \/ Dies \/ Poll
  \/ \E p \in Pids : WatchLooks(p) \/ WatchAsks(p) \/ WatchRecords(p)

Spec == Init /\ [][Next]_vars

-----------------------------------------------------------------------------
(* Properties.                                                             *)

\* Every variable has the type its comment gives it.
TypeOK ==
  /\ saved \in Args
  /\ child \in Pids \cup {None}
  /\ link \in Pids \cup {None}
  /\ procs \subseteq Pids \X Args
  /\ watch \in [Pids -> Pids \cup {"off", "due", "asks", "nobody"}]
  /\ ops \in Threads \cup {Main, None}
  /\ starting \in BOOLEAN /\ spawned \in BOOLEAN /\ shutdown \in BOOLEAN
  /\ does \in [Threads -> {"none", "auto", "start", "tray", "save", "quit"}]
  /\ pc \in [Threads -> Places]
  /\ used \in Args \cup {None}
  /\ born \in Pids \cup {None}
  /\ news \in BOOLEAN
  /\ main \in {"loop", "exitWaits", "killing", "gone"}

\* No two daemons: two overlapping starts would leave one that nobody knows of and that
\* still holds the port (DAEMON_OPS).
OneDaemon == \A d, e \in procs : d = e

\* When no command is under way, a bridge that runs is on the saved settings, whatever was
\* saved during a start, a stop or a crash (start_until_settled).
OnSaved ==
  Running /\ ~shutdown /\ (\A t \in Threads : pc[t] \in {"idle", "look", "off"})
    => <<child, saved>> \in procs

\* Once Multi64's exit has killed the daemon, no start that was under way leaves another
\* (SHUTTING_DOWN).
NoneAfterExit == main = "gone" => procs = {}

\* What is recorded of the link was said by the daemon that runs, never by the one before
\* (record_link).
LinkIsChilds == link \in {None, child}

\* STARTING is set for the whole of a start, from before it waits for DAEMON_OPS until it
\* has spawned the daemon or failed, so a second one is refused (STARTING).
StartingCovers ==
  \A t \in Threads :
    pc[t] \in {"startWaits", "read", "kill", "resolve", "spawn"} => starting

\* The exit never waits on DAEMON_OPS for a thread that waits for the main thread (start_daemon).
NoHangOnExit ==
  \A t \in Threads : ops = t /\ pc[t] \in {"announce", "tell"} => main # "exitWaits"
=============================================================================
