----------------------------- MODULE SdSession -----------------------------
(***************************************************************************)
(* Xfer64's session with the SD card of a SummerCart64.  Commands go over  *)
(* the port one at a time and the cart carries them out in order; an       *)
(* answer names only the kind of command it answers, so one that comes     *)
(* after its command was given up on is met by the commands that follow.   *)
(* During a session the card is taken from the console, and what was read  *)
(* is kept in a cache of whole requests.                                   *)
(***************************************************************************)
EXTENDS Integers, Sequences, FiniteSets

CONSTANTS
  LastSector,
  Budget,      \* BUDGET_BYTES, in sectors
  MaxQueued    \* bound: commands and answers under way

ASSUME SectorsAssumption == LastSector \in Nat
ASSUME BudgetAssumption == Budget \in Nat

VARIABLES
  phase,      \* the host: where the session stands
  want,       \* the sectors being read or written: [lba, len]
  commands,   \* sent to the cart and not carried out
  answers,    \* the cart's, not yet received
  locked,     \* cart: the card is locked to the PC
  buffer,     \* cart: SD_CARD_BUFFER
  sd,         \* who wrote each of the card's sectors last: "host", "console"
  cache,      \* the host's cached requests, oldest first
  mounted,    \* the partition was found
  released,   \* the session's flag that it was closed
  timedOut,   \* a command of this session was given up on
  mixedUp     \* an answer was taken for another command's in this session

sdVars == <<phase, want, commands, answers, locked, buffer, sd, cache, mounted,
            released, timedOut, mixedUp>>
sessionVars == <<want, cache, mounted, released, timedOut, mixedUp>>

Sectors == 1..LastSector
Requests == {r \in [lba : Sectors, len : 1..LastSector] : r.lba + r.len - 1 \in Sectors}
None == [lba |-> 1, len |-> 0]

\* Init and deinit are one command with different arguments.
Kind(c) == IF c \in {"INIT", "DEINIT"} THEN "SD_CARD_OP" ELSE c

\* The phases that wait for an answer, with the command they sent.
Awaited == [identify |-> "IDENTIFIER_GET", tidy |-> "DEINIT", init |-> "INIT",
            read |-> "SD_READ", fetch |-> "MEMORY_READ", load |-> "MEMORY_WRITE",
            store |-> "SD_WRITE", giveup |-> "DEINIT", close |-> "DEINIT",
            drop |-> "DEINIT"]

SendCommand(to) ==
  /\ phase' = to
  /\ Len(commands) + Len(answers) < MaxQueued
  /\ commands' = Append(commands, [cmd |-> Awaited[to], req |-> want', late |-> FALSE])
  /\ UNCHANGED <<answers, locked, buffer, sd>>

Begun == SubSeq(commands, 1, IF commands = <<>> THEN 0 ELSE 1)
Late(q) == [i \in 1..Len(q) |-> [q[i] EXCEPT !.late = TRUE]]

-----------------------------------------------------------------------------
(* The read cache.                                                         *)

Span(lba, len) == lba..lba + len - 1
Overlaps(e, lba, len) == Span(e.lba, Len(e.data)) \cap Span(lba, len) # {}

\* The others keep their order.
Invalidated(c, lba, len) ==
  LET kept[i \in 0..Len(c)] ==
        IF i = 0 THEN <<>>
        ELSE IF Overlaps(c[i], lba, len) THEN kept[i - 1]
        ELSE Append(kept[i - 1], c[i])
  IN kept[Len(c)]

CachedSectors(c) ==
  LET sum[i \in 0..Len(c)] == IF i = 0 THEN 0 ELSE sum[i - 1] + Len(c[i].data)
  IN sum[Len(c)]

\* Oldest entries go until the new one fits.
Evicted(c, len) ==
  LET keep == {i \in 0..Len(c) : CachedSectors(SubSeq(c, i + 1, Len(c))) + len <= Budget}
      least == CHOOSE i \in keep : \A j \in keep : i <= j
  IN SubSeq(c, least + 1, Len(c))

Inserted(lba, bytes) ==
  IF Len(bytes) > Budget THEN cache
  ELSE Append(Evicted(Invalidated(cache, lba, Len(bytes)), Len(bytes)),
              [lba |-> lba, data |-> bytes])

Covered(lba, len) ==
  \E i \in 1..Len(cache) : Span(lba, len) \subseteq Span(cache[i].lba, Len(cache[i].data))

-----------------------------------------------------------------------------
(* The host.                                                               *)

\* Variant: no IDENTIFIER_GET: the first command is the deinit.
OpenSession_Trusting ==
  /\ phase = "closed"
  /\ want' = None /\ cache' = <<>>
  /\ mounted' = FALSE /\ released' = FALSE /\ timedOut' = FALSE /\ mixedUp' = FALSE
  /\ phase' = "tidy"
  /\ commands' = Append(Late(Begun),
                        [cmd |-> "DEINIT", req |-> None, late |-> FALSE])
  /\ answers' = <<>>
  /\ UNCHANGED <<locked, buffer, sd>>

\* Port opened, link reset: the buffers are cleared on both sides.  The command
\* the cart is in the middle of, if any, is still answered.
OpenSession ==
  /\ phase = "closed"
  /\ want' = None /\ cache' = <<>>
  /\ mounted' = FALSE /\ released' = FALSE /\ timedOut' = FALSE /\ mixedUp' = FALSE
  /\ phase' = "identify"
  /\ commands' = Append(Late(Begun),
                        [cmd |-> "IDENTIFIER_GET", req |-> None, late |-> FALSE])
  /\ answers' = <<>>
  /\ UNCHANGED <<locked, buffer, sd>>

ReadSectors(r) ==
  /\ phase = "open"
  /\ IF Covered(r.lba, r.len) THEN UNCHANGED sdVars
     ELSE /\ want' = r
          /\ SendCommand("read")
          /\ UNCHANGED <<cache, mounted, released, timedOut, mixedUp>>

\* Variant: the cache follows a write that succeeded, see Stored.
WriteSectors_Unchecked(r) ==
  /\ phase = "open" /\ mounted
  /\ want' = r
  /\ SendCommand("load")
  /\ UNCHANGED <<cache, mounted, released, timedOut, mixedUp>>

WriteSectors(r) ==
  /\ phase = "open" /\ mounted
  /\ want' = r
  /\ cache' = Invalidated(cache, r.lba, r.len)
  /\ SendCommand("load")
  /\ UNCHANGED <<mounted, released, timedOut, mixedUp>>

CloseSession ==
  /\ phase = "open" /\ mounted
  /\ cache' = <<>> /\ released' = TRUE
  /\ UNCHANGED <<want, mounted, timedOut, mixedUp>>
  /\ SendCommand("close")

\* The session's value goes away: it releases the card unless that was done.
DropSession ==
  /\ phase \in {"open", "closing"} /\ mounted
  /\ IF released
     THEN /\ phase' = "closed"
          /\ UNCHANGED <<commands, answers, locked, buffer, sd, sessionVars>>
     ELSE /\ cache' = <<>> /\ released' = TRUE
          /\ UNCHANGED <<want, mounted, timedOut, mixedUp>>
          /\ SendCommand("drop")

\* The first sectors were read and the partition found; or not, whatever the
\* reason, and the card is given back.
Mounted ==
  /\ phase = "open" /\ ~mounted
  /\ mounted' = TRUE
  /\ UNCHANGED <<phase, commands, answers, locked, buffer, sd, want, cache, released,
                 timedOut, mixedUp>>


MountFails ==
  /\ phase = "open" /\ ~mounted
  /\ cache' = <<>>
  /\ UNCHANGED <<want, mounted, released, timedOut, mixedUp>>
  /\ SendCommand("giveup")

\* Variant: init's error is passed over like the deinit's before it.
After_AnyInit(p, ok) ==
  CASE p = "identify" -> IF ok THEN "tidying" ELSE "closed"
    [] p = "tidy" -> "initing"
    [] p = "init" -> "open"
    [] p = "read" -> IF ok THEN "fetching" ELSE "open"
    [] p = "load" -> IF ok THEN "storing" ELSE "open"
    [] p \in {"fetch", "store"} -> "open"
    [] p = "giveup" -> "closed"
    [] p = "close" -> "closing"
    [] p = "drop" -> "closed"

\* What a phase leads to, given its answer: ok, or an error or none.
After(p, ok) ==
  CASE p = "identify" -> IF ok THEN "tidying" ELSE "closed"
    [] p = "tidy" -> "initing"
    [] p = "init" -> IF ok THEN "open" ELSE "closed"
    [] p = "read" -> IF ok THEN "fetching" ELSE "open"
    [] p = "load" -> IF ok THEN "storing" ELSE "open"
    [] p \in {"fetch", "store"} -> "open"
    [] p = "giveup" -> "closed"
    [] p = "close" -> "closing"
    [] p = "drop" -> "closed"

\* Commands that follow without a choice.
Follow ==
  /\ UNCHANGED sessionVars
  /\ \/ phase = "tidying" /\ SendCommand("tidy")
     \/ phase = "initing" /\ SendCommand("init")
     \/ phase = "fetching" /\ SendCommand("fetch")
     \/ phase = "storing" /\ SendCommand("store")

Finish(ok) ==
  /\ phase' = After(phase, ok)
  /\ want' = IF phase' = "open" THEN None ELSE want
  /\ released' = (released /\ (ok \/ phase \notin {"close", "drop"}))

\* An answer of the awaited kind is taken, another passed over.  What was read
\* must be of the length asked for.
ReceiveAnswer ==
  LET a == Head(answers)
      mine == Kind(a.cmd) = Kind(Awaited[phase])
      good == a.ok /\ (phase = "fetch" => Len(a.data) = want.len)
  IN /\ phase \in DOMAIN Awaited /\ answers # <<>>
     /\ answers' = Tail(answers)
     /\ IF ~mine THEN UNCHANGED <<phase, want, released, cache, mixedUp>>
        ELSE /\ Finish(good)
             /\ mixedUp' = (mixedUp \/ (a.late /\ phase # "identify"))
             /\ cache' = IF phase = "fetch" /\ good THEN Inserted(want.lba, a.data)
                         ELSE cache
     /\ UNCHANGED <<commands, locked, buffer, sd, mounted, timedOut>>

GiveUpCommand ==
  /\ phase \in DOMAIN Awaited
  /\ Finish(FALSE)
  /\ timedOut' = TRUE
  /\ commands' = Late(commands) /\ answers' = Late(answers)
  /\ UNCHANGED <<cache, mounted, mixedUp, locked, buffer, sd>>

-----------------------------------------------------------------------------
(* The cart.                                                               *)

\* Carries out the next command; a card command may fail, a write part-way.
CarryOut ==
  LET c == Head(commands)
      answer(ok, bytes) == answers' = Append(answers,
        [cmd |-> c.cmd, ok |-> ok, data |-> bytes, late |-> c.late])
      span == Span(c.req.lba, c.req.len)
  IN /\ commands # <<>>
     /\ commands' = Tail(commands)
     /\ \/ /\ c.cmd = "IDENTIFIER_GET"
           /\ answer(TRUE, <<>>) /\ UNCHANGED <<locked, buffer, sd>>
        \/ /\ c.cmd = "INIT"
           /\ locked' \in BOOLEAN /\ answer(locked', <<>>)
           /\ UNCHANGED <<buffer, sd>>
        \/ /\ c.cmd = "DEINIT"
           /\ locked' = FALSE /\ answer(locked, <<>>)
           /\ UNCHANGED <<buffer, sd>>
        \/ /\ c.cmd = "SD_READ" /\ locked
           /\ buffer' = [i \in 1..c.req.len |-> sd[c.req.lba + i - 1]]
           /\ answer(TRUE, <<>>) /\ UNCHANGED <<locked, sd>>
        \/ /\ c.cmd = "MEMORY_READ"
           /\ answer(TRUE, [i \in 1..c.req.len |->
                              IF i \in DOMAIN buffer THEN buffer[i] ELSE "console"])
           /\ UNCHANGED <<locked, buffer, sd>>
        \/ /\ c.cmd = "MEMORY_WRITE"
           /\ buffer' = [i \in 1..c.req.len |-> "host"]
           /\ answer(TRUE, <<>>) /\ UNCHANGED <<locked, sd>>
        \/ /\ c.cmd = "SD_WRITE" /\ locked
           /\ \E n \in 0..c.req.len :
                /\ sd' = [s \in Sectors |->
                            LET i == s - c.req.lba + 1
                            IN IF i \in (1..n) \cap DOMAIN buffer THEN buffer[i] ELSE sd[s]]
                /\ answer(n = c.req.len, <<>>)
           /\ UNCHANGED <<locked, buffer>>
        \/ /\ c.cmd \in {"SD_READ", "SD_WRITE"}
           /\ answer(FALSE, <<>>) /\ UNCHANGED <<locked, buffer, sd>>
     /\ UNCHANGED <<phase, sessionVars>>

\* The console saves to its card when it has it.
ConsoleWrites(s) ==
  /\ ~locked
  /\ sd' = [sd EXCEPT ![s] = "console"]
  /\ UNCHANGED <<phase, commands, answers, locked, buffer, sessionVars>>

SdInit ==
  /\ phase = "closed" /\ want = None
  /\ commands = <<>> /\ answers = <<>>
  /\ locked = FALSE /\ buffer = <<>>
  /\ sd = [s \in Sectors |-> "console"]
  /\ cache = <<>>
  /\ mounted = FALSE /\ released = TRUE /\ timedOut = FALSE /\ mixedUp = FALSE

SdNext ==
  \/ OpenSession \/ CloseSession \/ DropSession \/ Mounted \/ MountFails \/ Follow
  \/ ReceiveAnswer \/ GiveUpCommand \/ CarryOut
  \/ \E r \in Requests : ReadSectors(r) \/ WriteSectors(r)
  \/ \E s \in Sectors : ConsoleWrites(s)

SdSpec == SdInit /\ [][SdNext]_sdVars

-----------------------------------------------------------------------------
(* Properties.                                                             *)

\* Every variable stays in its type; cached requests never overlap, and
\* together stay within the budget.
SdTypeOK ==
  /\ phase \in {"closed", "tidying", "initing", "fetching", "storing",
                "open", "closing"} \cup DOMAIN Awaited
  /\ sd \in [Sectors -> {"host", "console"}]
  /\ {locked, mounted, released, timedOut, mixedUp} \subseteq BOOLEAN
  /\ \A i, j \in 1..Len(cache) :
        i # j => ~Overlaps(cache[i], cache[j].lba, Len(cache[j].data))
  /\ CachedSectors(cache) <= Budget

\* In a session in which no command was given up on, every answer taken is
\* the answer to the command it is taken for, whatever commands of earlier
\* sessions are still to be answered: the reset drops what has arrived, and
\* the identification lets what was still to come pass by.
FreshAnswers == ~timedOut => ~mixedUp

\* In such a session the card is not the console's while it works; one that
\* has ended, by whatever path, has given it back.
CardPassedOn ==
  ~timedOut =>
    /\ phase \in {"open", "read", "fetching", "fetch", "load", "storing", "store"} => locked
    /\ phase = "closed" => ~locked

\* What the cache serves is what the card holds, though writes fail part-way
\* and the console writes between sessions.
CacheIsCard ==
  ~timedOut => \A i \in 1..Len(cache) : \A k \in 1..Len(cache[i].data) :
                  cache[i].data[k] = sd[cache[i].lba + k - 1]
=============================================================================
