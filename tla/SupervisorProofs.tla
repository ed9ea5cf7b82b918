-------------------------- MODULE SupervisorProofs --------------------------
(***************************************************************************)
(* Proofs about Supervisor: for any number of commands under way, any      *)
(* settings and any processes.                                             *)
(***************************************************************************)
EXTENDS Supervisor, TLAPS

USE ThreadsAssumption, PidsAssumption

-----------------------------------------------------------------------------
(* The inductive invariant.                                                *)

\* DAEMON_OPS is held by the thread that is between taking it and giving it back.
OpsHeld ==
  /\ \A t \in Threads : ops = t <=> pc[t] \in Operating
  /\ ops = Main <=> main = "killing"

\* A process is the recorded daemon, or the one its start is about to record; and there is
\* none at all from the kill of the old daemon to the spawn of the new one.
ProcsKnown ==
  /\ \A d \in procs : d[1] \in {child, born}
  /\ born # None => \E t \in Threads : pc[t] = "record"
  /\ \A t \in Threads :
       /\ pc[t] \in {"resolve", "spawn"} => procs = {}
       /\ pc[t] \in {"resolve", "spawn", "record"} => child = None
       /\ pc[t] = "record" => born # None
       /\ pc[t] \in {"record", "compare"} => \A d \in procs : d[2] = used
       /\ pc[t] \in {"kill", "resolve", "spawn"} => used \in Args

\* STARTING is set by a start that is yet to compare what it used with what is saved.
StartingIsStart ==
  starting => \E t \in Threads : pc[t] \in Beginning \cup Starting

\* A daemon on settings that are not the saved ones is about to be replaced.
StaleIsReplaced ==
  shutdown \/ (\A d \in procs : d[2] = saved)
           \/ \E t \in Threads : pc[t] \in Beginning \cup Starting \cup {"begin", "saveCheck"}

\* The exit sets its flag first, and when it has killed the daemon nothing is spawned.
ExitFlagged ==
  /\ main # "loop" => shutdown
  /\ \A t \in Threads :
       /\ pc[t] = "exit" => does[t] = "quit"
       /\ does[t] = "quit" => shutdown
  /\ main = "gone" => procs = {} /\ \A t \in Threads : pc[t] \notin {"spawn", "record"}

\* A watcher that has heard another daemon than its own is one whose daemon is gone.
WatchesOwn ==
  /\ \A p \in Pids : watch[p] \in Pids \ {p} => p \notin {child, born}
  /\ link \in {None, child}

IInv ==
  TypeOK /\ OneDaemon /\ OpsHeld /\ ProcsKnown /\ StartingIsStart /\ StaleIsReplaced
         /\ ExitFlagged /\ WatchesOwn

-----------------------------------------------------------------------------

\* Every step below is about the conjuncts of IInv and the places of a thread.
USE DEF IInv, TypeOK, OneDaemon, OpsHeld, ProcsKnown, StartingIsStart, StaleIsReplaced,
        ExitFlagged, WatchesOwn, Threads, Beginning, Starting, Operating, Places,
        daemonVars, spawnVars, flagVars

\* The app starts with no daemon and no command.
LEMMA Starts == ASSUME Init PROVE IInv
BY DEF Init

\* A command only takes a thread out of its rest.
LEMMA ClicksKeep ==
  ASSUME IInv, NEW t \in Tasks,
         ClickStart(t) \/ ClickRestart(t) \/ ClickStop(t) \/ ClickQuit(t) \/ ClickSave(t)
  PROVE  IInv'
<1>1. CASE ClickStart(t)
  BY <1>1 DEF ClickStart, Go, Click, At, Alone
<1>2. CASE ClickRestart(t)
  BY <1>2 DEF ClickRestart, Go, Click, At, Alone
<1>3. CASE ClickStop(t)
  BY <1>3 DEF ClickStop, Go, Click, At, Alone
<1>4. CASE ClickQuit(t)
  BY <1>4 DEF ClickQuit, Go, Click, At, Alone
<1>5. CASE ClickSave(t)
  BY <1>5 DEF ClickSave, Go, Click, At, Alone
<1>6. QED
  BY <1>1, <1>2, <1>3, <1>4, <1>5

\* A Save that changes what a running daemon was spawned with goes on to restart it, unless a
\* start that has yet to settle does.
LEMMA CommandsKeep ==
  ASSUME IInv, NEW t \in Threads,
         CheckRunning(t) \/ SaveWrites(t) \/ SaveFails(t) \/ SaveRestarts(t) \/ Tell(t)
  PROVE  IInv'
<1>1. CASE CheckRunning(t)
  <2>1. TypeOK'
    BY <1>1 DEF CheckRunning, At, Go, Running, Observe, Alive
  <2>2. OneDaemon' /\ OpsHeld' /\ ProcsKnown'
    BY <1>1 DEF CheckRunning, At, Go, Running, Observe, Alive
  <2>3. StartingIsStart' /\ StaleIsReplaced'
    BY <1>1 DEF CheckRunning, At, Go, Running, Observe, Alive
  <2>4. ExitFlagged' /\ WatchesOwn'
    BY <1>1 DEF CheckRunning, At, Go, Running, Observe, Alive
  <2>5. QED
    BY <2>1, <2>2, <2>3, <2>4
<1>2. CASE SaveWrites(t)
  BY <1>2 DEF SaveWrites, At, Go
<1>3. CASE SaveFails(t)
  BY <1>3 DEF SaveFails, At, Go
<1>4. CASE SaveRestarts(t)
  <2>1. TypeOK'
    BY <1>4 DEF SaveRestarts, At, Go, Running, Observe, Alive
  <2>2. OneDaemon' /\ OpsHeld' /\ ProcsKnown'
    BY <1>4 DEF SaveRestarts, At, Go, Running, Observe, Alive
  <2>3. StartingIsStart' /\ StaleIsReplaced'
    BY <1>4 DEF SaveRestarts, At, Go, Running, Observe, Alive
  <2>4. ExitFlagged' /\ WatchesOwn'
    BY <1>4 DEF SaveRestarts, At, Go, Running, Observe, Alive
  <2>5. QED
    BY <2>1, <2>2, <2>3, <2>4
<1>5. CASE Tell(t)
  BY <1>5 DEF Tell, At, Finish, Go
<1>6. QED
  BY <1>1, <1>2, <1>3, <1>4, <1>5

\* A start up to the spawn: the old daemon is gone before the new one is there.
LEMMA StartsKeep ==
  ASSUME IInv, NEW t \in Threads,
         Begin(t) \/ Announce(t) \/ StartTakesOps(t) \/ ReadSettings(t)
         \/ KillOld(t) \/ Resolve(t) \/ Spawn(t) \/ SpawnFails(t)
  PROVE  IInv'
<1>1. CASE Begin(t)
  <2>1. TypeOK'
    <3>1. starting' \in BOOLEAN
      BY <1>1 DEF Begin
    <3>2. pc' \in [Threads -> Places]
      BY <1>1 DEF Begin, At, Go
    <3>3. UNCHANGED <<saved, daemonVars, spawnVars, shutdown, ops, does, used, news, main>>
      BY <1>1 DEF Begin
    <3>4. QED
      BY <3>1, <3>2, <3>3
  <2>2. OneDaemon' /\ OpsHeld' /\ ProcsKnown'
    BY <1>1 DEF Begin, At, Go
  <2>3. StartingIsStart' /\ StaleIsReplaced'
    <3>1. \E u \in Threads : pc'[u] \in Beginning \cup Starting
      <4>1. CASE starting
        <5>1. PICK u \in Threads : pc[u] \in Beginning \cup Starting
          BY <4>1
        <5>2. u # t /\ pc'[u] = pc[u]
          BY <1>1, <5>1 DEF Begin, At, Go
        <5>3. QED
          BY <5>1, <5>2
      <4>2. CASE ~starting
        <5>1. pc'[t] \in Beginning
          BY <1>1, <4>2 DEF Begin, Go
        <5>2. QED
          BY <5>1
      <4>3. QED
        BY <4>1, <4>2
    <3>2. QED
      BY <3>1
  <2>4. ExitFlagged' /\ WatchesOwn'
    BY <1>1 DEF Begin, At, Go
  <2>5. QED
    BY <2>1, <2>2, <2>3, <2>4
<1>2. CASE Announce(t)
  BY <1>2 DEF Announce, At, Go
<1>3. CASE StartTakesOps(t)
  BY <1>3 DEF StartTakesOps, At, Go, TakeOps
<1>4. CASE ReadSettings(t)
  BY <1>4 DEF ReadSettings, At, Go
<1>5. CASE KillOld(t)
  BY <1>5 DEF KillOld, At, Go, KillChild
<1>6. CASE Resolve(t)
  <2>1. TypeOK'
    <3>1. news' \in BOOLEAN
      BY <1>6 DEF Resolve
    <3>2. pc' \in [Threads -> Places]
      BY <1>6 DEF Resolve, At, Go
    <3>3. UNCHANGED <<saved, daemonVars, spawnVars, flagVars, ops, does, used, main>>
      BY <1>6 DEF Resolve
    <3>4. QED
      BY <3>1, <3>2, <3>3
  <2>2. OneDaemon' /\ OpsHeld' /\ ProcsKnown'
    BY <1>6 DEF Resolve, At, Go
  <2>3. StartingIsStart' /\ StaleIsReplaced'
    BY <1>6 DEF Resolve, At, Go
  <2>4. ExitFlagged' /\ WatchesOwn'
    BY <1>6 DEF Resolve, At, Go
  <2>5. QED
    BY <2>1, <2>2, <2>3, <2>4
<1>7. CASE Spawn(t)
  <2>1. TypeOK'
    BY <1>7 DEF Spawn, At, Go, Alive
  <2>2. OneDaemon' /\ OpsHeld'
    BY <1>7 DEF Spawn, At, Go, Alive
  <2>3. ProcsKnown'
    <3>1. PICK p \in Pids : procs' = procs \cup {<<p, used>>} /\ born' = p
      BY <1>7 DEF Spawn
    <3>2. procs' = {<<p, used>>} /\ used' = used /\ child' = child
      BY <1>7, <3>1 DEF Spawn, At
    <3>3. pc'[t] = "record" /\ child' = None
      BY <1>7 DEF Spawn, At, Go
    <3>4. \A u \in Threads : u # t => pc'[u] \notin Operating
      BY <1>7 DEF Spawn, At, Go
    <3>5. \A u \in Threads : pc'[u] \in Starting => u = t
      BY <3>4
    <3>6. \A u \in Threads :
            /\ pc'[u] \in {"resolve", "spawn"} => procs' = {}
            /\ pc'[u] \in {"resolve", "spawn", "record"} => child' = None
            /\ pc'[u] = "record" => born' # None
            /\ pc'[u] \in {"record", "compare"} => \A d \in procs' : d[2] = used'
            /\ pc'[u] \in {"kill", "resolve", "spawn"} => used' \in Args
      BY <3>1, <3>2, <3>3, <3>5
    <3>7. QED
      BY <3>1, <3>2, <3>3, <3>6
  <2>4. StartingIsStart' /\ StaleIsReplaced'
    BY <1>7 DEF Spawn, At, Go, Alive
  <2>5. ExitFlagged' /\ WatchesOwn'
    BY <1>7 DEF Spawn, At, Go, Alive
  <2>6. QED
    BY <2>1, <2>2, <2>3, <2>4, <2>5
<1>8. CASE SpawnFails(t)
  BY <1>8 DEF SpawnFails, At, Go
<1>9. QED
  BY <1>1, <1>2, <1>3, <1>4, <1>5, <1>6, <1>7, <1>8

\* A start from its spawn on: it is not settled while what it used is not what is saved.
LEMMA SettlesKeep ==
  ASSUME IInv, NEW t \in Threads,
         Record(t) \/ Settle(t) \/ ReleaseOps(t) \/ DropGuard(t)
  PROVE  IInv'
<1>1. CASE Record(t)
  <2>1. TypeOK'
    BY <1>1 DEF Record, At, Go
  <2>2. OneDaemon' /\ OpsHeld' /\ ProcsKnown'
    BY <1>1 DEF Record, At, Go
  <2>3. StartingIsStart' /\ StaleIsReplaced'
    BY <1>1 DEF Record, At, Go
  <2>4. ExitFlagged' /\ WatchesOwn'
    BY <1>1 DEF Record, At, Go
  <2>5. QED
    BY <2>1, <2>2, <2>3, <2>4
<1>2. CASE Settle(t)
  <2>1. TypeOK'
    <3>1. CASE UNCHANGED <<starting, used>>
      BY <1>2, <3>1 DEF Settle, At, Go
    <3>2. CASE starting' = FALSE /\ used' = None
      <4>1. pc' \in [Threads -> Places]
        BY <1>2 DEF Settle, At, Go
      <4>2. UNCHANGED <<saved, daemonVars, spawnVars, shutdown, ops, does, news, main>>
        BY <1>2 DEF Settle
      <4>3. QED
        BY <3>2, <4>1, <4>2
    <3>3. QED
      BY <1>2, <3>1, <3>2, Zenon DEF Settle
  <2>2. OneDaemon' /\ OpsHeld' /\ ProcsKnown'
    BY <1>2 DEF Settle, At, Go
  <2>3. StartingIsStart' /\ StaleIsReplaced'
    BY <1>2 DEF Settle, At, Go
  <2>4. ExitFlagged' /\ WatchesOwn'
    BY <1>2 DEF Settle, At, Go
  <2>5. QED
    BY <2>1, <2>2, <2>3, <2>4
<1>3. CASE ReleaseOps(t)
  BY <1>3 DEF ReleaseOps, At, Go
<1>4. CASE DropGuard(t)
  <2>1. TypeOK'
    <3>1. starting' \in BOOLEAN /\ pc' \in [Threads -> Places]
      BY <1>4 DEF DropGuard, At, Go
    <3>2. UNCHANGED <<saved, daemonVars, spawnVars, shutdown, ops, does, used, news, main>>
      BY <1>4 DEF DropGuard
    <3>3. QED
      BY <3>1, <3>2
  <2>2. OneDaemon' /\ OpsHeld' /\ ProcsKnown'
    BY <1>4 DEF DropGuard, At, Go
  <2>3. StartingIsStart' /\ StaleIsReplaced'
    BY <1>4 DEF DropGuard, At, Go
  <2>4. ExitFlagged' /\ WatchesOwn'
    BY <1>4 DEF DropGuard, At, Go
  <2>5. QED
    BY <2>1, <2>2, <2>3, <2>4
<1>5. QED
  BY <1>1, <1>2, <1>3, <1>4

\* A stop, and the tray's Exit.
LEMMA KillsKeep ==
  ASSUME IInv, NEW t \in Threads,
         KillTakesOps(t) \/ Kill(t) \/ AskExit(t)
  PROVE  IInv'
<1>1. CASE KillTakesOps(t)
  BY <1>1 DEF KillTakesOps, At, Go, TakeOps
<1>2. CASE Kill(t)
  BY <1>2 DEF Kill, At, Go, KillChild
<1>3. CASE AskExit(t)
  <2>1. TypeOK'
    BY <1>3 DEF AskExit, At, Go
  <2>2. OneDaemon' /\ OpsHeld' /\ ProcsKnown'
    BY <1>3 DEF AskExit, At, Go
  <2>3. StartingIsStart' /\ StaleIsReplaced'
    BY <1>3 DEF AskExit, At, Go
  <2>4. WatchesOwn'
    BY <1>3 DEF AskExit, At, Go
  <2>5. ExitFlagged'
    <3>1. pc[t] = "exit" /\ UNCHANGED <<shutdown, does, procs>>
      BY <1>3 DEF AskExit, At
    <3>2. \A u \in Threads : pc'[u] = IF u = t THEN "tell" ELSE pc[u]
      BY <1>3 DEF AskExit, Go
    <3>3. main' = "gone" => main = "gone"
      BY <1>3 DEF AskExit
    <3>4. shutdown
      BY <3>1
    <3>5. QED
      BY <3>1, <3>2, <3>3, <3>4
  <2>6. QED
    BY <2>1, <2>2, <2>3, <2>4, <2>5
<1>4. QED
  BY <1>1, <1>2, <1>3

\* Auto-start, the main thread, the daemon itself and the window's poll.
LEMMA OthersKeep ==
  ASSUME IInv,
         AutoLooks \/ PortsChange \/ CloseWindow \/ MainTakesOps \/ MainKills \/ Dies \/ Poll
  PROVE  IInv'
<1>1. CASE AutoLooks
  <2>1. TypeOK'
    <3>1. pc' \in [Threads -> Places]
      BY <1>1 DEF AutoLooks, At, Go
    <3>2. child' \in {child, None} /\ link' \in {link, None} /\ procs' = procs
      BY <1>1 DEF AutoLooks, Observe
    <3>3. UNCHANGED <<saved, spawnVars, flagVars, ops, does, used, news, main>>
      BY <1>1 DEF AutoLooks
    <3>4. QED
      BY <3>1, <3>2, <3>3
  <2>2. OneDaemon' /\ OpsHeld' /\ ProcsKnown'
    BY <1>1 DEF AutoLooks, At, Go, Running, Observe, Alive
  <2>3. StartingIsStart' /\ StaleIsReplaced'
    BY <1>1 DEF AutoLooks, At, Go, Running, Observe, Alive
  <2>4. ExitFlagged'
    BY <1>1 DEF AutoLooks, At, Go, Running, Observe, Alive
  <2>5. WatchesOwn'
    BY <1>1 DEF AutoLooks, At, Go, Running, Observe, Alive
  <2>6. QED
    BY <2>1, <2>2, <2>3, <2>4, <2>5
<1>2. CASE PortsChange
  BY <1>2 DEF PortsChange
<1>3. CASE CloseWindow
  BY <1>3 DEF CloseWindow
<1>4. CASE MainTakesOps
  BY <1>4 DEF MainTakesOps, TakeOps
<1>5. CASE MainKills
  BY <1>5 DEF MainKills, KillChild
<1>6. CASE Dies
  BY <1>6 DEF Dies
<1>7. CASE Poll
  <2>1. TypeOK'
    BY <1>7 DEF Poll, Running, Observe, Alive
  <2>2. OneDaemon' /\ OpsHeld' /\ ProcsKnown'
    BY <1>7 DEF Poll, Running, Observe, Alive
  <2>3. StartingIsStart' /\ StaleIsReplaced'
    BY <1>7 DEF Poll, Running, Observe, Alive
  <2>4. ExitFlagged' /\ WatchesOwn'
    BY <1>7 DEF Poll, Running, Observe, Alive
  <2>5. QED
    BY <2>1, <2>2, <2>3, <2>4
<1>8. QED
  BY <1>1, <1>2, <1>3, <1>4, <1>5, <1>6, <1>7

\* A watcher whose daemon is the one recorded has heard that daemon, or nobody.
LEMMA WatchersKeep ==
  ASSUME IInv, NEW p \in Pids,
         WatchLooks(p) \/ WatchAsks(p) \/ WatchRecords(p)
  PROVE  IInv'
<1>1. CASE WatchLooks(p)
  BY <1>1 DEF WatchLooks
<1>2. CASE WatchAsks(p)
  BY <1>2 DEF WatchAsks
<1>3. CASE WatchRecords(p)
  BY <1>3 DEF WatchRecords, Heard
<1>4. QED
  BY <1>1, <1>2, <1>3

\* Every step of the app keeps the invariant.
LEMMA Steps == ASSUME IInv, [Next]_vars PROVE IInv'
<1>1. CASE Next
  BY <1>1, ClicksKeep, CommandsKeep, StartsKeep, SettlesKeep, KillsKeep, OthersKeep, WatchersKeep
     DEF Next, Clicks, Turn, Waits
<1>2. CASE UNCHANGED vars
  BY <1>2 DEF vars
<1>3. QED
  BY <1>1, <1>2

HIDE DEF IInv, TypeOK, OneDaemon, OpsHeld, ProcsKnown, StartingIsStart, StaleIsReplaced,
         ExitFlagged, WatchesOwn, Threads, Beginning, Starting, Operating, Places,
         daemonVars, spawnVars, flagVars

\* The invariant holds throughout, whatever the app does.
LEMMA Always == Spec => []IInv
<1>1. Init => IInv
  BY Starts
<1>2. IInv /\ [Next]_vars => IInv'
  BY Steps
<1>3. QED
  BY <1>1, <1>2, PTL DEF Spec

-----------------------------------------------------------------------------
(* The theorems.                                                           *)

\* Every variable keeps its type, whatever the commands and their number.
THEOREM SupervisorTypes == Spec => []TypeOK
<1>1. IInv => TypeOK
  BY DEF IInv
<1>2. QED
  BY <1>1, Always, PTL

\* Never two daemons, however starts, stops, Saves and the exit overlap (DAEMON_OPS).
THEOREM SupervisorOneDaemon == Spec => []OneDaemon
<1>1. IInv => OneDaemon
  BY DEF IInv
<1>2. QED
  BY <1>1, Always, PTL

\* With no command under way, a running bridge is on the saved settings (start_until_settled).
THEOREM SupervisorOnSaved == Spec => []OnSaved
<1>1. IInv => OnSaved
  BY DEF IInv, ProcsKnown, StaleIsReplaced, OnSaved, Running, Alive, TypeOK, Beginning, Starting
<1>2. QED
  BY <1>1, Always, PTL

\* The exit leaves no daemon behind (SHUTTING_DOWN).
THEOREM SupervisorNoneAfterExit == Spec => []NoneAfterExit
<1>1. IInv => NoneAfterExit
  BY DEF IInv, ExitFlagged, NoneAfterExit
<1>2. QED
  BY <1>1, Always, PTL

\* What is shown of the link is the running daemon's (record_link).
THEOREM SupervisorLink == Spec => []LinkIsChilds
<1>1. IInv => LinkIsChilds
  BY DEF IInv, WatchesOwn, LinkIsChilds
<1>2. QED
  BY <1>1, Always, PTL

\* The exit waits for no thread that waits for the main thread (start_daemon).
THEOREM SupervisorNoHang == Spec => []NoHangOnExit
<1>1. IInv => NoHangOnExit
  BY DEF IInv, OpsHeld, NoHangOnExit, Operating, Starting
<1>2. QED
  BY <1>1, Always, PTL
=============================================================================
