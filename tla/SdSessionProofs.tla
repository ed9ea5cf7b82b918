--------------------------- MODULE SdSessionProofs ---------------------------
(***************************************************************************)
(* For any card, any budget of the cache and any number of messages under  *)
(* way: in a session in which no command was given up on, an answer is the *)
(* one to the command it is taken for, the card is the PC's while it is    *)
(* worked on, and the console's again when the session has ended; and what *)
(* is cached is what the card holds, within the budget.                    *)
(***************************************************************************)
EXTENDS SdSession, TLAPS, SequenceTheorems, NaturalsInduction, WellFoundedInduction

Waits == {"identify", "tidy", "init", "read", "fetch", "load", "store", "giveup",
          "close", "drop"}
Ours == {"open", "read", "fetching", "fetch", "load", "storing", "store"}
Phases == Waits \cup {"closed", "tidying", "initing", "fetching", "storing", "open",
                      "closing"}
Commands == {"IDENTIFIER_GET", "INIT", "DEINIT", "SD_READ", "MEMORY_READ",
             "MEMORY_WRITE", "SD_WRITE"}
Bytes == {"host", "console"}
CommandSet == [cmd : Commands, req : Requests \cup {None}, late : BOOLEAN]
AnswerSet == [cmd : Commands, ok : BOOLEAN, data : Seq(Bytes), late : BOOLEAN]

Types ==
  /\ phase \in Phases
  /\ want \in Requests \cup {None}
  /\ commands \in Seq(CommandSet)
  /\ answers \in Seq(AnswerSet)
  /\ buffer \in Seq(Bytes)
  /\ sd \in [Sectors -> Bytes]
  /\ locked \in BOOLEAN /\ released \in BOOLEAN /\ timedOut \in BOOLEAN
  /\ mixedUp \in BOOLEAN

\* Of what is on the cable, the answers are older than the commands.
Identifications(q) == \A i \in 1..Len(q) : q[i].cmd = "IDENTIFIER_GET"
EndsIn(q, c) ==
  /\ q # <<>>
  /\ q[Len(q)].cmd = c /\ ~q[Len(q)].late
  /\ \A i \in 1..Len(q) - 1 : q[i].cmd = "IDENTIFIER_GET"

\* The command last sent, or its answer, is behind identifications only.
Coming(c) ==
  \/ Identifications(answers) /\ EndsIn(commands, c)
  \/ commands = <<>> /\ EndsIn(answers, c)

\* Before the identification there is at most what the reset did not clear.
Identifying ==
  /\ Len(answers) + Len(commands) \in 1..2
  /\ IF commands = <<>> THEN answers[Len(answers)].cmd = "IDENTIFIER_GET"
     ELSE commands[Len(commands)].cmd = "IDENTIFIER_GET"

\* What is on the cable, by where the session stands.
OnCable ==
  /\ phase = "identify" => Identifying
  /\ phase \in Waits \ {"identify"} => Coming(Awaited[phase])
  /\ phase \notin Waits => Identifications(answers) /\ Identifications(commands)

Identified ==
  \A i \in 1..Len(answers) : answers[i].cmd = "IDENTIFIER_GET" => answers[i].ok

\* Who has the card, by where the session stands.
InitTold ==
  phase = "init" /\ commands = <<>> =>
    \A i \in 1..Len(answers) : answers[i].cmd = "INIT" => answers[i].ok = locked
WhoseCard ==
  /\ phase \in Ours => locked
  /\ phase \in {"closing", "closed"} => ~locked
  /\ phase \in {"giveup", "close", "drop"} /\ commands = <<>> => ~locked
  /\ InitTold

Orderly == ~timedOut => ~mixedUp /\ OnCable /\ WhoseCard

\* A session that works has not been released.
ReleasedWhenOver == released => phase \in {"close", "closing", "drop", "closed"}

IInv == Types /\ Identified /\ ReleasedWhenOver /\ Orderly

-----------------------------------------------------------------------------
LEMMA AwaitedIs ==
  /\ DOMAIN Awaited = Waits
  /\ Awaited["identify"] = "IDENTIFIER_GET"
  /\ Awaited["tidy"] = "DEINIT" /\ Awaited["init"] = "INIT"
  /\ Awaited["read"] = "SD_READ" /\ Awaited["fetch"] = "MEMORY_READ"
  /\ Awaited["load"] = "MEMORY_WRITE" /\ Awaited["store"] = "SD_WRITE"
  /\ Awaited["giveup"] = "DEINIT" /\ Awaited["close"] = "DEINIT"
  /\ Awaited["drop"] = "DEINIT"
BY DEF Awaited, Waits

LEMMA InitHolds == SdInit => IInv
<1> SUFFICES ASSUME SdInit PROVE IInv
  OBVIOUS
<1> USE DEF SdInit
<1>1. Types
  <2>1. <<>> \in Seq(CommandSet) /\ <<>> \in Seq(AnswerSet) /\ <<>> \in Seq(Bytes)
    OBVIOUS
  <2> QED BY <2>1 DEF Types, Phases, Waits, Bytes
<1>2. Len(answers) = 0 /\ Len(commands) = 0
  OBVIOUS
<1>3. Identified /\ OnCable
  BY <1>2 DEF Identified, OnCable, Identifications, Waits
<1>4. ReleasedWhenOver /\ WhoseCard
  BY DEF ReleasedWhenOver, WhoseCard, InitTold, Ours
<1> QED BY <1>1, <1>3, <1>4 DEF IInv, Orderly

-----------------------------------------------------------------------------
(* Sequences of messages.                                                  *)

\* Behind messages that are identifications, one more is the last.
LEMMA Appended ==
  ASSUME NEW S, NEW q \in Seq(S), NEW m \in S, Identifications(q)
  PROVE  /\ m.cmd = "IDENTIFIER_GET" => Identifications(Append(q, m))
         /\ ~m.late => EndsIn(Append(q, m), m.cmd)
<1> DEFINE r == Append(q, m)
<1>1. /\ Len(r) = Len(q) + 1 /\ r[Len(q) + 1] = m
      /\ \A i \in 1..Len(q) : r[i] = q[i]
      /\ Len(q) \in Nat
  BY AppendProperties, LenProperties
<1>2. r # <<>>
  BY AppendProperties
<1> HIDE DEF r
<1>3. m.cmd = "IDENTIFIER_GET" => Identifications(r)
  BY <1>1 DEF Identifications
<1>4. ~m.late => EndsIn(r, m.cmd)
  BY <1>1, <1>2 DEF EndsIn, Identifications
<1> QED BY <1>3, <1>4 DEF r

\* The first of them goes: the one waited for, when it is alone, or another.
LEMMA HeadGone ==
  ASSUME NEW S, NEW q \in Seq(S), NEW c, EndsIn(q, c)
  PROVE  \/ /\ Head(q).cmd = c /\ ~Head(q).late
            /\ Tail(q) = <<>> /\ Len(q) = 1
         \/ Head(q).cmd = "IDENTIFIER_GET" /\ EndsIn(Tail(q), c)
<1>1. q # <<>> /\ q[Len(q)].cmd = c /\ ~q[Len(q)].late
  BY DEF EndsIn
<1>2. /\ Len(q) \in Nat \ {0} /\ Tail(q) \in Seq(S) /\ Len(Tail(q)) = Len(q) - 1
      /\ \A i \in 1..Len(q) - 1 : Tail(q)[i] = q[i + 1]
      /\ Head(q) = q[1]
  BY <1>1, HeadTailProperties, EmptySeq
<1>3. CASE Len(q) = 1
  <2>1. Tail(q) = <<>>
    <3>1. Len(Tail(q)) = 0 /\ Tail(q) \in Seq(S)
      BY <1>2, <1>3
    <3> QED BY <3>1, EmptySeq
  <2> QED BY <1>1, <1>2, <1>3, <2>1
<1>4. CASE Len(q) # 1
  <2>1. Head(q).cmd = "IDENTIFIER_GET"
    BY <1>2, <1>4 DEF EndsIn
  <2>2. Tail(q) # <<>>
    BY <1>2, <1>4, EmptySeq
  <2> DEFINE r == Tail(q)
  <2>3. r[Len(r)] = q[Len(q)]
    BY <1>2, <1>4
  <2>4. \A i \in 1..Len(r) - 1 : r[i].cmd = "IDENTIFIER_GET"
    BY <1>2, <1>4 DEF EndsIn
  <2>5. EndsIn(r, c)
    BY <1>1, <2>2, <2>3, <2>4 DEF EndsIn
  <2> QED BY <2>1, <2>5
<1> QED BY <1>3, <1>4

LEMMA TailOfIdentifications ==
  ASSUME NEW S, NEW q \in Seq(S), q # <<>>, Identifications(q)
  PROVE  Head(q).cmd = "IDENTIFIER_GET" /\ Identifications(Tail(q))
<1>1. /\ Len(q) \in Nat \ {0} /\ Len(Tail(q)) = Len(q) - 1
      /\ \A i \in 1..Len(q) - 1 : Tail(q)[i] = q[i + 1]
      /\ Head(q) = q[1]
  BY HeadTailProperties, EmptySeq
<1> QED BY <1>1 DEF Identifications

-----------------------------------------------------------------------------
(* The cart.                                                               *)

\* What one command does, as far as it matters here.
LEMMA Carried ==
  ASSUME Types, CarryOut
  PROVE  /\ commands # <<>> /\ commands' = Tail(commands)
         /\ Types'
         /\ \E a \in AnswerSet :
              /\ answers' = Append(answers, a)
              /\ a.cmd = Head(commands).cmd /\ a.late = Head(commands).late
              /\ a.cmd = "IDENTIFIER_GET" => a.ok
              /\ a.cmd = "INIT" => a.ok = locked'
              /\ a.cmd = "DEINIT" => ~locked'
              /\ a.cmd \notin {"INIT", "DEINIT"} => locked' = locked
         /\ UNCHANGED <<phase, sessionVars>>
<1> DEFINE c == Head(commands)
           message(ok, bytes) == [cmd |-> c.cmd, ok |-> ok, data |-> bytes, late |-> c.late]
           Told(a) ==
             /\ answers' = Append(answers, a)
             /\ a.cmd = c.cmd /\ a.late = c.late
             /\ a.cmd = "IDENTIFIER_GET" => a.ok
             /\ a.cmd = "INIT" => a.ok = locked'
             /\ a.cmd = "DEINIT" => ~locked'
             /\ a.cmd \notin {"INIT", "DEINIT"} => locked' = locked
           span == Span(c.req.lba, c.req.len)
<1>1. commands # <<>> /\ commands' = Tail(commands) /\ UNCHANGED <<phase, sessionVars>>
  BY DEF CarryOut
<1>2. c \in CommandSet /\ Tail(commands) \in Seq(CommandSet)
  BY <1>1, HeadTailProperties DEF Types
<1>3. /\ c.cmd \in Commands /\ c.late \in BOOLEAN
      /\ c.req \in Requests \cup {None}
  BY <1>2 DEF CommandSet
<1> HIDE DEF c
<1>4. c.req.len \in Nat
  <2>1. \A r \in Requests : r.len \in Nat
    BY DEF Requests
  <2> QED BY <1>3, <2>1 DEF None
<1>5. ASSUME NEW ok \in BOOLEAN, NEW bytes \in Seq(Bytes)
      PROVE  message(ok, bytes) \in AnswerSet
  BY <1>3, <1>5 DEF AnswerSet
<1>6. \A a \in AnswerSet : Append(answers, a) \in Seq(AnswerSet)
  BY AppendProperties DEF Types
<1>7. locked \in BOOLEAN /\ buffer \in Seq(Bytes) /\ sd \in [Sectors -> Bytes]
      /\ <<>> \in Seq(Bytes)
  BY DEF Types
<1>8. SUFFICES /\ \E a \in AnswerSet : Told(a)
               /\ locked' \in BOOLEAN /\ buffer' \in Seq(Bytes)
               /\ sd' \in [Sectors -> Bytes]
  <2>1. ASSUME \E a \in AnswerSet : Told(a)
        PROVE  answers' \in Seq(AnswerSet)
    BY <1>6, <2>1
  <2> QED BY <1>1, <1>2, <1>8, <2>1 DEF Types, c, sessionVars
<1> HIDE DEF message
<1> DEFINE answered(ok, bytes) == answers' = Append(answers, message(ok, bytes))
<1>9. ASSUME NEW ok \in BOOLEAN, NEW bytes \in Seq(Bytes), answered(ok, bytes),
             c.cmd = "IDENTIFIER_GET" => ok, c.cmd = "INIT" => ok = locked',
             c.cmd = "DEINIT" => ~locked',
             c.cmd \notin {"INIT", "DEINIT"} => locked' = locked
      PROVE  \E a \in AnswerSet : Told(a)
  <2>1. message(ok, bytes) \in AnswerSet
    BY <1>5
  <2>2. /\ message(ok, bytes).cmd = c.cmd /\ message(ok, bytes).ok = ok
        /\ message(ok, bytes).late = c.late
    BY DEF message
  <2>3. Told(message(ok, bytes))
    BY <1>9, <2>2
  <2> QED BY <2>1, <2>3
<1>10. CASE c.cmd = "IDENTIFIER_GET" /\ answered(TRUE, <<>>) /\ UNCHANGED <<locked, buffer, sd>>
  BY <1>7, <1>9, <1>10
<1>11. CASE c.cmd = "INIT" /\ locked' \in BOOLEAN /\ answered(locked', <<>>)
            /\ UNCHANGED <<buffer, sd>>
  BY <1>7, <1>9, <1>11
<1>12. CASE c.cmd = "DEINIT" /\ locked' = FALSE /\ answered(locked, <<>>)
            /\ UNCHANGED <<buffer, sd>>
  BY <1>7, <1>9, <1>12
<1>13. CASE /\ c.cmd = "SD_READ" /\ locked
            /\ buffer' = [i \in 1..c.req.len |-> sd[c.req.lba + i - 1]]
            /\ answered(TRUE, <<>>) /\ UNCHANGED <<locked, sd>>
  <2>1. ASSUME NEW i \in 1..c.req.len PROVE sd[c.req.lba + i - 1] \in Bytes
    <3>1. c.req \in Requests
      BY <1>3, <2>1 DEF None
    <3>2. c.req.lba + i - 1 \in Sectors
      BY <2>1, <3>1, SectorsAssumption DEF Requests, Sectors
    <3> QED BY <1>7, <3>2
  <2>2. buffer' \in Seq(Bytes)
    BY <1>4, <1>13, <2>1, IsASeq
  <2> QED BY <1>7, <1>9, <1>13, <2>2
<1>14. CASE /\ c.cmd = "MEMORY_READ"
            /\ answered(TRUE, [i \in 1..c.req.len |->
                                 IF i \in DOMAIN buffer THEN buffer[i] ELSE "console"])
            /\ UNCHANGED <<locked, buffer, sd>>
  <2> DEFINE byte(i) == IF i \in DOMAIN buffer THEN buffer[i] ELSE "console"
  <2>1. \A i \in 1..c.req.len : byte(i) \in Bytes
    BY <1>7, LenProperties, ElementOfSeq DEF Bytes
  <2> HIDE DEF byte
  <2>2. [i \in 1..c.req.len |-> byte(i)] \in Seq(Bytes)
    BY <1>4, <2>1, IsASeq
  <2>3. answered(TRUE, [i \in 1..c.req.len |-> byte(i)])
    BY <1>14 DEF byte
  <2> QED BY <1>7, <1>9, <1>14, <2>2, <2>3
<1>15. CASE /\ c.cmd = "MEMORY_WRITE"
            /\ buffer' = [i \in 1..c.req.len |-> "host"]
            /\ answered(TRUE, <<>>) /\ UNCHANGED <<locked, sd>>
  <2>1. buffer' \in Seq(Bytes)
    BY <1>4, <1>15, IsASeq DEF Bytes
  <2> QED BY <1>7, <1>9, <1>15, <2>1
<1>16. CASE /\ c.cmd = "SD_WRITE" /\ locked
            /\ \E n \in 0..c.req.len :
                 /\ sd' = [s \in Sectors |->
                             LET i == s - c.req.lba + 1
                             IN IF i \in (1..n) \cap DOMAIN buffer THEN buffer[i] ELSE sd[s]]
                 /\ answered(n = c.req.len, <<>>)
            /\ UNCHANGED <<locked, buffer>>
  <2>1. PICK n \in 0..c.req.len :
          /\ sd' = [s \in Sectors |->
                      LET i == s - c.req.lba + 1
                      IN IF i \in (1..n) \cap DOMAIN buffer THEN buffer[i] ELSE sd[s]]
          /\ answered(n = c.req.len, <<>>)
    BY <1>16
  <2>2. ASSUME NEW i \in DOMAIN buffer PROVE buffer[i] \in Bytes
    BY <1>7, <2>2, LenProperties, ElementOfSeq
  <2>3. sd' \in [Sectors -> Bytes]
    BY <1>7, <2>1, <2>2
  <2>4. (n = c.req.len) \in BOOLEAN
    OBVIOUS
  <2> HIDE DEF answered
  <2>5. \E a \in AnswerSet : Told(a)
    BY <1>7, <1>9, <1>16, <2>1, <2>4
  <2> QED BY <1>7, <1>16, <2>3, <2>5
<1>17. CASE c.cmd \in {"SD_READ", "SD_WRITE"} /\ answered(FALSE, <<>>)
            /\ UNCHANGED <<locked, buffer, sd>>
  BY <1>7, <1>9, <1>17
<1> QED
  BY <1>10, <1>11, <1>12, <1>13, <1>14, <1>15, <1>16, <1>17 DEF CarryOut, c, message

LEMMA CarryOutKeeps == IInv /\ CarryOut => IInv'
<1> SUFFICES ASSUME IInv, CarryOut PROVE IInv'
  OBVIOUS
<1>1. Types /\ Identified /\ ReleasedWhenOver /\ Orderly
  BY DEF IInv
<1>2. /\ commands # <<>> /\ commands' = Tail(commands) /\ Types'
      /\ UNCHANGED <<phase, sessionVars>>
  BY <1>1, Carried
<1>3. PICK a \in AnswerSet :
         /\ answers' = Append(answers, a)
         /\ a.cmd = Head(commands).cmd /\ a.late = Head(commands).late
         /\ a.cmd = "IDENTIFIER_GET" => a.ok
         /\ a.cmd = "INIT" => a.ok = locked'
         /\ a.cmd = "DEINIT" => ~locked'
         /\ a.cmd \notin {"INIT", "DEINIT"} => locked' = locked
  BY <1>1, Carried
<1>4. answers \in Seq(AnswerSet) /\ commands \in Seq(CommandSet) /\ phase \in Phases
  BY <1>1 DEF Types
<1>5. /\ Len(answers) \in Nat /\ Len(answers') = Len(answers) + 1
      /\ answers'[Len(answers) + 1] = a /\ answers' # <<>>
      /\ \A i \in 1..Len(answers) : answers'[i] = answers[i]
  BY <1>3, <1>4, AppendProperties, LenProperties
<1>6. /\ Len(commands) \in Nat \ {0} /\ Len(commands') = Len(commands) - 1
      /\ commands' \in Seq(CommandSet) /\ Head(commands) = commands[1]
      /\ \A i \in 1..Len(commands) - 1 : commands'[i] = commands[i + 1]
  BY <1>2, <1>4, HeadTailProperties, EmptySeq
<1>7. Identified'
  BY <1>1, <1>3, <1>5 DEF Identified
<1>8. ReleasedWhenOver'
  BY <1>1, <1>2 DEF ReleasedWhenOver, sessionVars
<1>9. ASSUME ~timedOut PROVE (~mixedUp /\ OnCable /\ WhoseCard)'
  <2>1. ~mixedUp /\ OnCable /\ WhoseCard
    BY <1>1, <1>9 DEF Orderly
  <2>2. ~mixedUp'
    BY <1>2, <2>1 DEF sessionVars
  <2>3. CASE phase \notin Waits
    <3>1. Identifications(answers) /\ Identifications(commands)
      BY <2>1, <2>3 DEF OnCable
    <3>2. Head(commands).cmd = "IDENTIFIER_GET" /\ Identifications(commands')
      BY <1>2, <1>4, <3>1, TailOfIdentifications
    <3>3. Identifications(answers')
      BY <1>3, <1>4, <3>1, <3>2, Appended
    <3>4. locked' = locked
      BY <1>3, <3>2
    <3> QED BY <1>2, <2>1, <2>2, <2>3, <3>2, <3>3, <3>4
            DEF OnCable, WhoseCard, InitTold, Waits, sessionVars
  <2>4. CASE phase = "identify"
    <3>1. Identifying
      BY <2>1, <2>4 DEF OnCable
    <3>2. commands[Len(commands)].cmd = "IDENTIFIER_GET"
      BY <1>2, <3>1 DEF Identifying
    <3>3. Len(answers') + Len(commands') \in 1..2
      BY <1>5, <1>6, <3>1 DEF Identifying
    <3>4. ASSUME commands' = <<>> PROVE Identifying'
      <4>1. Len(commands) = 1
        BY <1>6, <3>4, EmptySeq
      <4>2. answers'[Len(answers')].cmd = "IDENTIFIER_GET"
        BY <1>3, <1>5, <1>6, <3>2, <4>1
      <4> QED BY <3>3, <3>4, <4>2 DEF Identifying
    <3>5. ASSUME commands' # <<>> PROVE Identifying'
      <4>1. Len(commands') \in Nat \ {0}
        BY <1>6, <3>5, EmptySeq
      <4>2. commands'[Len(commands')].cmd = "IDENTIFIER_GET"
        BY <1>6, <3>2, <4>1
      <4> QED BY <3>3, <3>5, <4>2 DEF Identifying
    <3>6. Identifying'
      BY <3>4, <3>5
    <3> QED BY <1>2, <2>2, <2>4, <3>6 DEF OnCable, WhoseCard, InitTold, Ours, Waits
  <2>5. CASE phase \in Waits \ {"identify"}
    <3> DEFINE c == Awaited[phase]
    <3>1. Identifications(answers) /\ EndsIn(commands, c)
      BY <1>2, <2>1, <2>5 DEF OnCable, Coming
    <3>2. CASE Head(commands).cmd = c /\ ~Head(commands).late /\ commands' = <<>>
      <4>1. EndsIn(answers', c)
        BY <1>3, <1>4, <3>1, <3>2, Appended
      <4>2. Coming(c)'
        BY <1>2, <3>2, <4>1 DEF Coming
      <4>3. OnCable'
        BY <1>2, <2>5, <4>2 DEF OnCable
      <4>4. ASSUME phase = "init"
            PROVE  \A i \in 1..Len(answers') :
                      answers'[i].cmd = "INIT" => answers'[i].ok = locked'
        BY <1>3, <1>5, <3>1 DEF Identifications
      <4>5. WhoseCard'
        BY <1>2, <1>3, <2>1, <2>5, <3>2, <4>4, AwaitedIs
        DEF WhoseCard, InitTold, Ours, Waits
      <4> QED BY <2>2, <4>3, <4>5
    <3>3. CASE Head(commands).cmd = "IDENTIFIER_GET" /\ EndsIn(commands', c)
      <4>1. Identifications(answers')
        BY <1>3, <1>4, <3>1, <3>3, Appended
      <4>2. OnCable'
        BY <1>2, <2>5, <3>3, <4>1 DEF OnCable, Coming
      <4>3. locked' = locked /\ commands' # <<>>
        BY <1>3, <3>3 DEF EndsIn
      <4>4. WhoseCard'
        BY <1>2, <2>1, <2>5, <4>3 DEF WhoseCard, InitTold, Ours, Waits
      <4> QED BY <2>2, <4>2, <4>4
    <3> QED BY <1>2, <1>4, <3>1, <3>2, <3>3, HeadGone
  <2> QED BY <2>3, <2>4, <2>5
<1> QED BY <1>2, <1>7, <1>8, <1>9 DEF IInv, Orderly, sessionVars

-----------------------------------------------------------------------------
(* The host sends.                                                         *)

\* A command sent while nothing is waited for is the last on the cable.
LEMMA Sent ==
  ASSUME IInv, NEW to \in Waits \ {"identify"}, phase \notin Waits, SendCommand(to),
         want' \in Requests \cup {None}, UNCHANGED <<timedOut, mixedUp>>,
         released' => to \in {"close", "drop"}, released' \in BOOLEAN,
         to \in Ours => phase \in Ours
  PROVE  IInv'
<1> DEFINE m == [cmd |-> Awaited[to], req |-> want', late |-> FALSE]
<1>1. Types /\ Identified /\ ReleasedWhenOver /\ Orderly
  BY DEF IInv
<1>2. /\ phase' = to /\ commands' = Append(commands, m)
      /\ UNCHANGED <<answers, locked, buffer, sd>>
  BY DEF SendCommand
<1>3. m \in CommandSet /\ m.cmd = Awaited[to] /\ ~m.late
  BY AwaitedIs DEF CommandSet, Commands, Waits
<1> HIDE DEF m
<1>4. Types'
  <2>1. commands' \in Seq(CommandSet)
    BY <1>1, <1>2, <1>3, AppendProperties DEF Types
  <2> QED BY <1>1, <1>2, <2>1 DEF Types, Phases
<1>5. commands' # <<>>
  BY <1>1, <1>2, <1>3, AppendProperties DEF Types
<1>6. Identified' /\ ReleasedWhenOver'
  BY <1>1, <1>2 DEF Identified, ReleasedWhenOver
<1>7. ASSUME ~timedOut PROVE (~mixedUp /\ OnCable /\ WhoseCard)'
  <2>1. ~mixedUp /\ OnCable /\ WhoseCard
    BY <1>1, <1>7 DEF Orderly
  <2>2. Identifications(answers) /\ Identifications(commands)
    BY <2>1 DEF OnCable
  <2>3. EndsIn(commands', Awaited[to])
    BY <1>1, <1>2, <1>3, <2>2, Appended DEF Types
  <2>4. OnCable'
    BY <1>2, <2>2, <2>3 DEF OnCable, Coming, Identifications
  <2>5. WhoseCard'
    BY <1>2, <1>5, <2>1 DEF WhoseCard, InitTold, Waits
  <2> QED BY <2>1, <2>4, <2>5
<1> QED BY <1>4, <1>6, <1>7 DEF IInv, Orderly

LEMMA FollowKeeps == IInv /\ Follow => IInv'
<1> SUFFICES ASSUME IInv, Follow PROVE IInv'
  OBVIOUS
<1>1. /\ UNCHANGED <<want, released, timedOut, mixedUp>>
      /\ want \in Requests \cup {None} /\ released \in BOOLEAN
      /\ released => phase \in {"close", "closing", "drop", "closed"}
  BY DEF Follow, sessionVars, IInv, Types, ReleasedWhenOver
<1>2. PICK to \in {"tidy", "init", "fetch", "store"} :
        /\ SendCommand(to) /\ phase \in {"tidying", "initing", "fetching", "storing"}
        /\ to \in Ours => phase \in Ours
  BY DEF Follow, Ours
<1>3. to \in Waits \ {"identify"} /\ phase \notin Waits /\ ~released
  BY <1>1, <1>2 DEF Waits
<1> QED BY <1>1, <1>2, <1>3, Sent

LEMMA AsksKeep ==
  ASSUME IInv, \/ CloseSession \/ DropSession \/ MountFails
               \/ \E r \in Requests : ReadSectors(r) \/ WriteSectors(r)
  PROVE  IInv'
<1>1. /\ want \in Requests \cup {None} /\ released \in BOOLEAN
      /\ released => phase \in {"close", "closing", "drop", "closed"}
      /\ Types /\ Orderly /\ Identified
  BY DEF IInv, Types, ReleasedWhenOver
<1>2. CASE CloseSession
  <2>1. /\ SendCommand("close") /\ phase = "open"
        /\ UNCHANGED <<want, timedOut, mixedUp>> /\ released' = TRUE
    BY <1>2 DEF CloseSession
  <2> QED BY <1>1, <2>1, Sent DEF Waits, Ours
<1>3. CASE DropSession /\ ~released
  <2>1. /\ SendCommand("drop") /\ phase \in {"open", "closing"}
        /\ UNCHANGED <<want, timedOut, mixedUp>> /\ released' = TRUE
    BY <1>3 DEF DropSession
  <2> QED BY <1>1, <2>1, Sent DEF Waits, Ours
<1>4. CASE DropSession /\ released
  <2>1. /\ phase = "closing" /\ phase' = "closed"
        /\ UNCHANGED <<commands, answers, locked, buffer, sd, want, released, timedOut,
                       mixedUp>>
    BY <1>1, <1>4 DEF DropSession, sessionVars
  <2>2. Types' /\ Identified' /\ ReleasedWhenOver'
    BY <1>1, <2>1 DEF Types, Identified, ReleasedWhenOver, Phases
  <2>3. Orderly'
    BY <1>1, <2>1 DEF Orderly, OnCable, Identifications, WhoseCard, InitTold, Waits, Ours
  <2> QED BY <2>2, <2>3 DEF IInv
<1>5. CASE MountFails
  <2>1. /\ SendCommand("giveup") /\ phase = "open"
        /\ UNCHANGED <<want, released, timedOut, mixedUp>>
    BY <1>5 DEF MountFails
  <2> QED BY <1>1, <2>1, Sent DEF Waits, Ours
<1>6. ASSUME NEW r \in Requests, ReadSectors(r) PROVE IInv'
  <2>1. CASE UNCHANGED sdVars
    BY <2>1 DEF sdVars, IInv, Types, Identified, ReleasedWhenOver, Orderly, OnCable,
                Identifying, Coming, EndsIn, Identifications, WhoseCard, InitTold
  <2>2. CASE SendCommand("read") /\ want' = r /\ phase = "open"
             /\ UNCHANGED <<released, timedOut, mixedUp>>
    BY <1>1, <2>2, Sent DEF Waits, Ours
  <2> QED BY <1>6, <2>1, <2>2 DEF ReadSectors
<1>7. ASSUME NEW r \in Requests, WriteSectors(r) PROVE IInv'
  <2>1. /\ SendCommand("load") /\ want' = r /\ phase = "open"
        /\ UNCHANGED <<released, timedOut, mixedUp>>
    BY <1>7 DEF WriteSectors
  <2> QED BY <1>1, <2>1, Sent DEF Waits, Ours
<1> QED BY <1>2, <1>3, <1>4, <1>5, <1>6, <1>7

-----------------------------------------------------------------------------
(* A session begins; the host receives or gives up.                        *)

\* A message keeps its place and its command when it is given up on.
LEMMA LateKeeps ==
  /\ commands \in Seq(CommandSet) => Late(commands) \in Seq(CommandSet)
  /\ answers \in Seq(AnswerSet) =>
       /\ Late(answers) \in Seq(AnswerSet)
       /\ Identified => \A i \in 1..Len(Late(answers)) :
            Late(answers)[i].cmd = "IDENTIFIER_GET" => Late(answers)[i].ok
<1>1. ASSUME commands \in Seq(CommandSet) PROVE Late(commands) \in Seq(CommandSet)
  <2> DEFINE e(i) == [commands[i] EXCEPT !.late = TRUE]
  <2>1. \A i \in 1..Len(commands) : e(i) \in CommandSet
    <3>1. \A m \in CommandSet : [m EXCEPT !.late = TRUE] \in CommandSet
      BY DEF CommandSet
    <3> QED BY <1>1, <3>1, ElementOfSeq
  <2> HIDE DEF e
  <2>2. [i \in 1..Len(commands) |-> e(i)] \in Seq(CommandSet)
    BY <1>1, <2>1, IsASeq, LenProperties
  <2> QED BY <2>2 DEF Late, e
<1>2. ASSUME answers \in Seq(AnswerSet)
      PROVE  /\ Late(answers) \in Seq(AnswerSet)
             /\ Identified => \A i \in 1..Len(Late(answers)) :
                  Late(answers)[i].cmd = "IDENTIFIER_GET" => Late(answers)[i].ok
  <2> DEFINE e(i) == [answers[i] EXCEPT !.late = TRUE]
             n == Len(answers)
  <2>1. \A i \in 1..n : /\ e(i) \in AnswerSet
                        /\ e(i).cmd = answers[i].cmd /\ e(i).ok = answers[i].ok
    <3>1. \A m \in AnswerSet :
            LET l == [m EXCEPT !.late = TRUE]
            IN l \in AnswerSet /\ l.cmd = m.cmd /\ l.ok = m.ok
      BY DEF AnswerSet
    <3> QED BY <1>2, <3>1, ElementOfSeq
  <2>2. n \in Nat
    BY <1>2, LenProperties
  <2> HIDE DEF e
  <2>3. [i \in 1..n |-> e(i)] \in Seq(AnswerSet)
    BY <2>1, <2>2, IsASeq
  <2>4. Len([i \in 1..n |-> e(i)]) = n
    BY <2>2
  <2>5. Late(answers) = [i \in 1..n |-> e(i)]
    BY DEF Late, e
  <2> QED BY <2>1, <2>3, <2>4, <2>5 DEF Identified
<1> QED BY <1>1, <1>2

LEMMA OpenKeeps == IInv /\ OpenSession => IInv'
<1> SUFFICES ASSUME IInv, OpenSession PROVE IInv'
  OBVIOUS
<1> DEFINE m == [cmd |-> "IDENTIFIER_GET", req |-> None, late |-> FALSE]
           begun == Late(Begun)
<1>1. /\ phase' = "identify" /\ want' = None /\ answers' = <<>>
      /\ commands' = Append(begun, m)
      /\ released' = FALSE /\ timedOut' = FALSE /\ mixedUp' = FALSE
      /\ UNCHANGED <<locked, buffer, sd>>
  BY DEF OpenSession
<1>2. Types
  BY DEF IInv
<1>3. m \in CommandSet /\ m.cmd = "IDENTIFIER_GET"
  BY DEF CommandSet, Commands
<1>4. begun \in Seq(CommandSet) /\ Len(begun) \in 0..1
  <2> DEFINE k == IF commands = <<>> THEN 0 ELSE 1
             late(i) == [Begun[i] EXCEPT !.late = TRUE]
  <2>1. k \in Int /\ \A i \in 1..k : commands[i] \in CommandSet
    BY <1>2, ElementOfSeq, EmptySeq DEF Types
  <2>2. Begun \in Seq(CommandSet) /\ Len(Begun) \in 0..1
    BY <2>1, SubSeqProperties DEF Begun
  <2>3. \A i \in 1..Len(Begun) : late(i) \in CommandSet
    <3>1. \A c \in CommandSet : [c EXCEPT !.late = TRUE] \in CommandSet
      BY DEF CommandSet
    <3> QED BY <2>2, <3>1, ElementOfSeq
  <2> HIDE DEF late
  <2>4. [i \in 1..Len(Begun) |-> late(i)] \in Seq(CommandSet)
    BY <2>2, <2>3, IsASeq
  <2>5. Len([i \in 1..Len(Begun) |-> late(i)]) = Len(Begun)
    BY <2>2
  <2> QED BY <2>2, <2>4, <2>5 DEF Late, late
<1> HIDE DEF m, begun
<1>5. /\ commands' \in Seq(CommandSet) /\ commands' # <<>>
      /\ Len(commands') = Len(begun) + 1
      /\ commands'[Len(begun) + 1] = m
  BY <1>1, <1>3, <1>4, AppendProperties
<1>6. answers' \in Seq(AnswerSet) /\ Len(answers') = 0
  BY <1>1, EmptySeq
<1>7. Types'
  BY <1>1, <1>2, <1>5, <1>6 DEF Types, Phases, Waits
<1>8. Identifying'
  <2>1. Len(answers') + Len(commands') \in 1..2
    <3>1. ASSUME NEW n \in 0..1 PROVE 0 + (n + 1) \in 1..2
      OBVIOUS
    <3>2. Len(answers') + Len(commands') = 0 + (Len(begun) + 1)
      BY <1>5, <1>6
    <3> QED BY <1>4, <3>1, <3>2
  <2>2. commands'[Len(commands')].cmd = "IDENTIFIER_GET"
    BY <1>3, <1>5
  <2> QED BY <1>5, <2>1, <2>2 DEF Identifying
<1>9. Identified' /\ ReleasedWhenOver'
  BY <1>1, <1>6 DEF Identified, ReleasedWhenOver
<1>10. Orderly'
  BY <1>1, <1>8 DEF Orderly, OnCable, WhoseCard, InitTold, Ours, Waits
<1> QED BY <1>7, <1>9, <1>10 DEF IInv

LEMMA AfterIs ==
  ASSUME NEW p \in Waits, NEW ok \in BOOLEAN
  PROVE  /\ After(p, ok) \in Phases
         /\ p \in {"close", "drop"} => After(p, ok) \in {"closing", "closed"}
         /\ p \in {"giveup", "close", "drop"} => After(p, ok) \in {"closing", "closed"}
         /\ p = "init" => After(p, ok) = IF ok THEN "open" ELSE "closed"
         /\ p = "tidy" => After(p, ok) = "initing"
         /\ p = "identify" /\ ok => After(p, ok) = "tidying"
         /\ p \in Ours => After(p, ok) \in Ours
         /\ After(p, ok) \notin Waits
BY DEF After, Waits, Phases, Ours

LEMMA GiveUpKeeps == IInv /\ GiveUpCommand => IInv'
<1> SUFFICES ASSUME IInv, GiveUpCommand PROVE IInv'
  OBVIOUS
<1>1. Types /\ Identified /\ ReleasedWhenOver
  BY DEF IInv
<1>2. /\ phase \in Waits /\ phase' = After(phase, FALSE) /\ timedOut' = TRUE
      /\ want' \in {None, want}
      /\ released' = (released /\ phase \notin {"close", "drop"})
      /\ commands' = Late(commands) /\ answers' = Late(answers)
      /\ UNCHANGED <<mixedUp, locked, buffer, sd>>
  BY AwaitedIs DEF GiveUpCommand, Finish
<1>3. Types' /\ Identified'
  BY <1>1, <1>2, LateKeeps, AfterIs DEF Types, Identified
<1>4. ReleasedWhenOver'
  BY <1>1, <1>2 DEF ReleasedWhenOver, Waits
<1> QED BY <1>2, <1>3, <1>4 DEF IInv, Orderly

LEMMA ReceiveKeeps == IInv /\ ReceiveAnswer => IInv'
<1> SUFFICES ASSUME IInv, ReceiveAnswer PROVE IInv'
  OBVIOUS
<1> DEFINE a == Head(answers)
           mine == Kind(a.cmd) = Kind(Awaited[phase])
           good == a.ok /\ (phase = "fetch" => Len(a.data) = want.len)
<1>1. Types /\ Identified /\ ReleasedWhenOver /\ Orderly
  BY DEF IInv
<1>2. /\ phase \in Waits /\ answers # <<>> /\ answers' = Tail(answers)
      /\ UNCHANGED <<commands, locked, buffer, sd, timedOut>>
  BY AwaitedIs DEF ReceiveAnswer
<1>3. ASSUME mine
      PROVE  /\ phase' = After(phase, good) /\ want' \in {None, want}
             /\ released' = (released /\ (good \/ phase \notin {"close", "drop"}))
             /\ mixedUp' = (mixedUp \/ (a.late /\ phase # "identify"))
  BY <1>3 DEF ReceiveAnswer, Finish
<1>4. ASSUME ~mine PROVE UNCHANGED <<phase, want, released, mixedUp>>
  BY <1>4 DEF ReceiveAnswer
<1>5. /\ answers \in Seq(AnswerSet) /\ Len(answers) \in Nat \ {0}
      /\ answers' \in Seq(AnswerSet) /\ Len(answers') = Len(answers) - 1
      /\ a = answers[1] /\ a \in AnswerSet
      /\ \A i \in 1..Len(answers) - 1 : answers'[i] = answers[i + 1]
  BY <1>1, <1>2, HeadTailProperties, EmptySeq DEF Types
<1>6. a.cmd \in Commands /\ a.ok \in BOOLEAN /\ a.late \in BOOLEAN
  BY <1>5 DEF AnswerSet
<1> HIDE DEF a
<1>7. good \in BOOLEAN
  BY <1>6
<1>8. /\ mine /\ phase = "identify" => a.cmd = "IDENTIFIER_GET"
      /\ ~mine /\ phase = "identify" => a.cmd # "IDENTIFIER_GET"
      /\ mine /\ phase # "identify" => a.cmd # "IDENTIFIER_GET"
      /\ a.cmd = Awaited[phase] => mine
  BY <1>2, <1>6, AwaitedIs DEF Kind, Commands, Waits
<1> HIDE DEF mine, good
<1>9. Types'
  <2>1. phase' \in Phases
    BY <1>1, <1>2, <1>3, <1>4, <1>7, AfterIs DEF Types
  <2>2. released' \in BOOLEAN /\ mixedUp' \in BOOLEAN /\ want' \in Requests \cup {None}
    BY <1>1, <1>3, <1>4 DEF Types
  <2> QED BY <1>1, <1>2, <1>5, <2>1, <2>2 DEF Types
<1>10. Identified'
  BY <1>1, <1>5 DEF Identified
<1>11. ReleasedWhenOver'
  BY <1>1, <1>2, <1>3, <1>4, <1>7, AfterIs DEF ReleasedWhenOver, Waits
<1>12. ASSUME ~timedOut PROVE (~mixedUp /\ OnCable /\ WhoseCard)'
  <2>1. ~mixedUp /\ OnCable /\ WhoseCard
    BY <1>1, <1>12 DEF Orderly
  <2>2. CASE phase = "identify"
    <3>1. /\ Identifying
          /\ Len(commands) \in Nat
          /\ Len(commands) = 0 <=> commands = <<>>
      BY <1>1, <2>1, <2>2, EmptySeq, LenProperties DEF OnCable, Types
    <3>2. CASE mine
      <4>1. phase' = "tidying"
        <5>1. a.ok
          BY <1>1, <1>5, <1>8, <2>2, <3>2 DEF Identified
        <5> QED BY <1>2, <1>3, <2>2, <3>2, <5>1, AfterIs DEF good
      <4>2. Identifications(answers') /\ Identifications(commands')
        BY <1>2, <1>5, <3>1 DEF Identifying, Identifications
      <4>3. ~mixedUp'
        BY <1>3, <2>1, <2>2, <3>2
      <4> QED BY <4>1, <4>2, <4>3 DEF OnCable, WhoseCard, InitTold, Ours, Waits
    <3>3. CASE ~mine
      <4>1. a.cmd # "IDENTIFIER_GET"
        BY <1>8, <2>2, <3>3
      <4>2. Len(answers) + Len(commands) = 2
        BY <1>5, <3>1, <4>1 DEF Identifying
      <4>3. Identifying'
        BY <1>2, <1>5, <3>1, <4>2 DEF Identifying
      <4> QED BY <1>2, <1>4, <2>1, <2>2, <3>3, <4>3
              DEF OnCable, WhoseCard, InitTold, Ours, Waits
    <3> QED BY <3>2, <3>3
  <2>3. CASE phase # "identify"
    <3> DEFINE c == Awaited[phase]
    <3>1. Coming(c)
      BY <1>2, <2>1, <2>3 DEF OnCable
    <3>2. CASE mine
      <4>1. /\ commands = <<>> /\ a.cmd = c /\ ~a.late
            /\ answers' = <<>> /\ Len(answers) = 1
        <5>1. a.cmd # "IDENTIFIER_GET"
          BY <1>8, <2>3, <3>2
        <5>2. commands = <<>> /\ EndsIn(answers, c)
          BY <1>2, <1>5, <3>1, <5>1, TailOfIdentifications DEF Coming, a
        <5> QED BY <1>2, <1>5, <5>1, <5>2, HeadGone DEF a
      <4>2. /\ phase' = After(phase, good) /\ ~mixedUp' /\ phase' \notin Waits
        BY <1>2, <1>3, <1>7, <2>1, <3>2, <4>1, AfterIs
      <4>3. OnCable'
        <5>1. Len(answers') = 0 /\ Len(commands') = 0
          BY <1>2, <4>1, EmptySeq
        <5>2. Identifications(answers') /\ Identifications(commands')
          BY <5>1 DEF Identifications
        <5>3. phase' # "identify"
          BY <4>2 DEF Waits
        <5> QED BY <4>2, <5>2, <5>3 DEF OnCable
      <4>4. phase = "init" => good = locked
        <5> SUFFICES ASSUME phase = "init" PROVE good = locked
          OBVIOUS
        <5>1. a.cmd = "INIT" /\ a = answers[1] /\ 1 \in 1..Len(answers)
          BY <1>5, <4>1, AwaitedIs
        <5>2. a.ok = locked
          BY <2>1, <4>1, <5>1 DEF WhoseCard, InitTold
        <5> QED BY <1>6, <5>2 DEF good
      <4>5. WhoseCard'
        <5>1. CASE phase = "tidy"
          BY <1>2, <1>7, <4>2, <5>1, AfterIs DEF WhoseCard, InitTold, Ours
        <5>2. CASE phase = "init"
          BY <1>2, <1>7, <4>2, <4>4, <5>2, AfterIs DEF WhoseCard, InitTold, Ours
        <5>3. CASE phase \in {"giveup", "close", "drop"}
          <6>1. ~locked' /\ phase' \in {"closing", "closed"}
            BY <1>2, <1>7, <2>1, <4>1, <4>2, <5>3, AfterIs DEF WhoseCard
          <6> QED BY <6>1 DEF WhoseCard, InitTold, Ours
        <5>4. CASE phase \in Ours
          <6>1. locked' /\ phase' \in Ours
            BY <1>2, <1>7, <2>1, <4>2, <5>4, AfterIs DEF WhoseCard
          <6> QED BY <4>2, <6>1 DEF WhoseCard, InitTold, Ours, Waits
        <5> QED BY <1>2, <2>3, <5>1, <5>2, <5>3, <5>4 DEF Waits, Ours
      <4> QED BY <4>2, <4>3, <4>5
    <3>3. CASE ~mine
      <4>1. Coming(c)'
        <5>1. phase' = phase /\ a.cmd # c
          BY <1>4, <1>8, <3>3
        <5>2. CASE Identifications(answers) /\ EndsIn(commands, c)
          <6>1. Identifications(answers')
            BY <1>2, <1>5, <5>2, TailOfIdentifications
          <6> QED BY <1>2, <5>1, <5>2, <6>1 DEF Coming
        <5>3. CASE commands = <<>> /\ EndsIn(answers, c)
          <6>1. EndsIn(answers', c)
            BY <1>2, <1>5, <5>1, <5>3, HeadGone DEF a
          <6> QED BY <1>2, <5>1, <5>3, <6>1 DEF Coming
        <5> QED BY <3>1, <5>2, <5>3 DEF Coming
      <4>2. OnCable' /\ ~mixedUp'
        BY <1>2, <1>4, <2>1, <2>3, <3>3, <4>1 DEF OnCable
      <4>3. WhoseCard'
        BY <1>2, <1>4, <1>5, <2>1, <3>3 DEF WhoseCard, InitTold
      <4> QED BY <4>2, <4>3
    <3> QED BY <3>2, <3>3
  <2> QED BY <2>2, <2>3
<1> QED BY <1>2, <1>9, <1>10, <1>11, <1>12 DEF IInv, Orderly

LEMMA OthersKeep ==
  IInv /\ (Mounted \/ \E s \in Sectors : ConsoleWrites(s)) => IInv'
<1> SUFFICES ASSUME IInv, Mounted \/ \E s \in Sectors : ConsoleWrites(s) PROVE IInv'
  OBVIOUS
<1>1. Types
  BY DEF IInv
<1>2. UNCHANGED <<phase, commands, answers, locked, buffer, want, released, timedOut,
                  mixedUp>>
  BY DEF Mounted, ConsoleWrites, sessionVars
<1>3. sd' \in [Sectors -> Bytes]
  <2>1. sd \in [Sectors -> Bytes]
    BY <1>1 DEF Types
  <2>2. CASE Mounted
    BY <2>1, <2>2 DEF Mounted
  <2>3. CASE \E s \in Sectors : ConsoleWrites(s)
    BY <2>1, <2>3 DEF ConsoleWrites, Bytes
  <2> QED BY <2>2, <2>3
<1> QED BY <1>1, <1>2, <1>3
        DEF IInv, Types, Identified, ReleasedWhenOver, Orderly, OnCable, Identifying,
            Coming, EndsIn, Identifications, WhoseCard, InitTold

LEMMA StepKeeps == IInv /\ [SdNext]_sdVars => IInv'
<1> SUFFICES ASSUME IInv, [SdNext]_sdVars PROVE IInv'
  OBVIOUS
<1>1. CASE OpenSession
  BY <1>1, OpenKeeps
<1>2. CASE \/ CloseSession \/ DropSession \/ MountFails
           \/ \E r \in Requests : ReadSectors(r) \/ WriteSectors(r)
  BY <1>2, AsksKeep
<1>3. CASE Follow
  BY <1>3, FollowKeeps
<1>4. CASE ReceiveAnswer
  BY <1>4, ReceiveKeeps
<1>5. CASE GiveUpCommand
  BY <1>5, GiveUpKeeps
<1>6. CASE CarryOut
  BY <1>6, CarryOutKeeps
<1>7. CASE Mounted \/ \E s \in Sectors : ConsoleWrites(s)
  BY <1>7, OthersKeep
<1>8. CASE UNCHANGED sdVars
  BY <1>8 DEF sdVars, IInv, Types, Identified, ReleasedWhenOver, Orderly, OnCable,
              Identifying, Coming, EndsIn, Identifications, WhoseCard, InitTold
<1> QED BY <1>1, <1>2, <1>3, <1>4, <1>5, <1>6, <1>7, <1>8 DEF SdNext

-----------------------------------------------------------------------------
(* The theorems.                                                           *)

\* What is on the cable and who has the card, at every moment of a session
\* in which send_cmp_raw gave up on no command.
THEOREM SessionInvariant == SdSpec => []IInv
<1>1. SdInit => IInv
  BY InitHolds
<1>2. IInv /\ [SdNext]_sdVars => IInv'
  BY StepKeeps
<1> QED BY <1>1, <1>2, PTL DEF SdSpec

\* usb_reset_link and identify keep the commands of earlier sessions out of
\* this one: send_cmp_raw, which matches an answer by its kind alone, takes
\* none for another command's.
THEOREM AnswersAreFresh == SdSpec => []FreshAnswers
<1>1. IInv => FreshAnswers
  BY DEF IInv, Orderly, FreshAnswers
<1> QED BY <1>1, SessionInvariant, PTL

\* From sd_init's answer until the session is released the cart keeps the
\* card for the PC; Sc64SdSession's close, drop and failed mount leave it to
\* the console.
THEOREM CardChangesHands == SdSpec => []CardPassedOn
<1>1. IInv => CardPassedOn
  BY DEF IInv, Orderly, WhoseCard, Ours, CardPassedOn
<1> QED BY <1>1, SessionInvariant, PTL

-----------------------------------------------------------------------------
(* Least elements and what is defined step by step.                        *)

Least(I) == CHOOSE x \in I : \A y \in I : x <= y

\* A set of numbers that is not empty has a least one.
LEMMA LeastIs ==
  ASSUME NEW I, I \subseteq Nat, I # {}
  PROVE  Least(I) \in I /\ \A y \in I : Least(I) <= y
  <1> DEFINE Less == {ss \in Nat \X Nat : ss[1] < ss[2]}
  <1>1. IsWellFoundedOn(Less, Nat)
    BY NatLessThanWellFounded, Zenon DEF OpToRel
  <1> HIDE DEF Less
  <1>2. PICK x \in I : \A y \in I : ~ (<<y, x>> \in Less)
    BY <1>1, WFMin
  <1>3. ASSUME NEW y \in I PROVE x =< y
    <2>1. y \in Nat /\ x \in Nat
      OBVIOUS
    <2>2. y < x => <<y, x>> \in Less
      BY <2>1 DEF Less
    <2> QED  BY <1>2, <2>1, <2>2
  <1> QED  BY <1>3 DEF Least

Steps(f, base, step, n) == f[0] = base /\ \A i \in 1..n : f[i] = step[i][f[i - 1]]

\* What is defined from step to step, by a function of the value before, exists.
LEMMA Stepwise ==
  ASSUME NEW n \in Nat, NEW S, NEW base \in S, NEW step \in [1..n -> [S -> S]]
  PROVE  \E f \in [0..n -> S] : Steps(f, base, step, n)
<1> DEFINE short == {m \in 0..n : ~ \E f \in [0..m -> S] : Steps(f, base, step, m)}
<1> USE DEF Steps
<1>1. ASSUME short # {} PROVE FALSE
  <2> DEFINE m == Least(short)
  <2>1. m \in short /\ \A k \in short : m <= k
    <3>1. short \subseteq Nat
      OBVIOUS
    <3> HIDE DEF short
    <3> QED BY <1>1, <3>1, LeastIs
  <2> HIDE DEF m
  <2>2. m \in 0..n
    BY <2>1
  <2>3. CASE m = 0
    <3> DEFINE f == [i \in 0..0 |-> base]
    <3>1. f \in [0..0 -> S] /\ Steps(f, base, step, 0)
      OBVIOUS
    <3> QED BY <2>1, <2>3, <3>1
  <2>4. CASE m > 0
    <3>1. m - 1 \in 0..n /\ m - 1 \notin short
      BY <2>1, <2>2, <2>4
    <3>2. PICK f \in [0..m - 1 -> S] : Steps(f, base, step, m - 1)
      BY <3>1
    <3> DEFINE g == [i \in 0..m |-> IF i = m THEN step[m][f[m - 1]] ELSE f[i]]
    <3>3. step[m] \in [S -> S] /\ f[m - 1] \in S
      BY <2>2, <2>4
    <3>4. g \in [0..m -> S]
      BY <2>2, <3>3
    <3>5. g[0] = base /\ g[m] = step[m][f[m - 1]] /\ \A i \in 0..m - 1 : g[i] = f[i]
      BY <2>2, <2>4, <3>2
    <3> HIDE DEF g
    <3>6. ASSUME NEW i \in 1..m PROVE g[i] = step[i][g[i - 1]]
      <4>1. CASE i = m
        BY <2>2, <2>4, <3>5, <4>1
      <4>2. CASE i # m
        <5>1. i \in 1..m - 1 /\ i \in 0..m - 1 /\ i - 1 \in 0..m - 1
          BY <2>2, <4>2
        <5> QED BY <3>2, <3>5, <5>1
      <4> QED BY <4>1, <4>2
    <3> QED BY <2>1, <3>4, <3>5, <3>6
  <2> QED BY <2>2, <2>3, <2>4
<1>2. n \notin short
  BY <1>1
<1> QED BY <1>2

-----------------------------------------------------------------------------
(* The read cache.                                                         *)

\* A cached request lies on the card.
Entry == {e \in [lba : Nat \ {0}, data : Seq(Bytes)] : e.lba + Len(e.data) - 1 <= LastSector}

Apart(c) ==
  \A i, j \in 1..Len(c) : i # j => ~Overlaps(c[i], c[j].lba, Len(c[j].data))

\* f counts the sectors of c's first requests.
Counts(f, c, n) == f[0] = 0 /\ \A i \in 1..n : f[i] = f[i - 1] + Len(c[i].data)

LEMMA EntryIs ==
  ASSUME NEW c \in Seq(Entry), NEW i \in 1..Len(c)
  PROVE  /\ c[i] \in Entry /\ c[i].lba \in Nat \ {0} /\ c[i].data \in Seq(Bytes)
         /\ Len(c[i].data) \in Nat /\ c[i].lba + Len(c[i].data) - 1 <= LastSector
<1>1. c[i] \in Entry
  BY ElementOfSeq
<1>2. c[i].lba \in Nat \ {0} /\ c[i].data \in Seq(Bytes)
      /\ c[i].lba + Len(c[i].data) - 1 <= LastSector
  BY <1>1 DEF Entry
<1> QED BY <1>1, <1>2, LenProperties

\* Only one function counts a prefix.
LEMMA CountUnique ==
  ASSUME NEW c, NEW m \in Nat, NEW f, NEW g, Counts(f, c, m), Counts(g, c, m)
  PROVE  \A i \in 0..m : f[i] = g[i]
<1> DEFINE odd == {i \in 0..m : f[i] # g[i]}
<1>1. ASSUME odd # {} PROVE FALSE
  <2> DEFINE k == Least(odd)
  <2>1. k \in odd /\ \A i \in odd : k <= i
    <3>1. odd \subseteq Nat
      OBVIOUS
    <3> HIDE DEF odd
    <3> QED BY <1>1, <3>1, LeastIs
  <2> HIDE DEF k
  <2>2. f[0] = g[0]
    BY DEF Counts
  <2>3. k \in 1..m /\ k - 1 \in 0..m /\ k - 1 \notin odd
    BY <2>1, <2>2
  <2>4. f[k - 1] = g[k - 1]
    BY <2>3
  <2> QED BY <2>1, <2>3, <2>4 DEF Counts
<1>2. odd = {}
  BY <1>1
<1> QED BY <1>2

LEMMA CountExists ==
  ASSUME NEW c \in Seq(Entry)
  PROVE  \E f \in [0..Len(c) -> Nat] : Counts(f, c, Len(c)) /\ CachedSectors(c) = f[Len(c)]
<1> DEFINE n == Len(c)
           IsSum(f) == f = [i \in 0..n |-> IF i = 0 THEN 0 ELSE f[i - 1] + Len(c[i].data)]
           step == [i \in 1..n |-> [k \in Nat |-> k + Len(c[i].data)]]
<1>1. n \in Nat /\ \A i \in 1..n : Len(c[i].data) \in Nat
  BY EntryIs, LenProperties
<1> HIDE DEF n
<1>2. /\ step \in [1..n -> [Nat -> Nat]]
      /\ \A i \in 1..n : \A k \in Nat : step[i][k] = k + Len(c[i].data)
  BY <1>1
<1> HIDE DEF step
<1>3. PICK f \in [0..n -> Nat] : Steps(f, 0, step, n)
  BY <1>1, <1>2, Stepwise
<1>4. ASSUME NEW i \in 1..n PROVE f[i] = f[i - 1] + Len(c[i].data)
  <2>1. f[i - 1] \in Nat
    <3>1. i - 1 \in 0..n
      BY <1>1
    <3> QED BY <1>3, <3>1
  <2> QED BY <1>2, <1>3, <2>1 DEF Steps
<1>5. Counts(f, c, n) /\ IsSum(f)
  BY <1>1, <1>3, <1>4 DEF Counts, Steps
<1> DEFINE sum == CHOOSE g : IsSum(g)
<1>6. IsSum(sum)
  BY <1>5
<1>7. CachedSectors(c) = sum[n]
  BY DEF CachedSectors, n
<1> HIDE DEF sum
<1>8. Counts(sum, c, n)
  BY <1>1, <1>6 DEF Counts
<1>9. sum[n] = f[n]
  BY <1>1, <1>5, <1>8, CountUnique
<1> QED BY <1>3, <1>5, <1>7, <1>9 DEF n

\* The sectors cached, counted.
LEMMA CountIs ==
  ASSUME NEW c \in Seq(Entry), NEW f, Counts(f, c, Len(c))
  PROVE  f[Len(c)] = CachedSectors(c) /\ CachedSectors(c) \in Nat
<1>1. PICK g \in [0..Len(c) -> Nat] : Counts(g, c, Len(c)) /\ CachedSectors(c) = g[Len(c)]
  BY CountExists
<1>2. Len(c) \in Nat
  BY LenProperties
<1>3. \A i \in 0..Len(c) : f[i] = g[i]
  BY <1>1, <1>2, CountUnique
<1> QED BY <1>1, <1>2, <1>3

LEMMA CountOfNone == CachedSectors(<<>>) = 0
<1> DEFINE f == [i \in 0..0 |-> 0]
<1>1. <<>> \in Seq(Entry) /\ Len(<<>>) = 0 /\ f[0] = 0
  OBVIOUS
<1> HIDE DEF f
<1>2. Counts(f, <<>>, Len(<<>>))
  BY <1>1 DEF Counts
<1>3. f[Len(<<>>)] = CachedSectors(<<>>)
  BY <1>1, <1>2, CountIs
<1> QED BY <1>1, <1>3

LEMMA CountAppended ==
  ASSUME NEW c \in Seq(Entry), NEW e \in Entry
  PROVE  /\ CachedSectors(Append(c, e)) = CachedSectors(c) + Len(e.data)
         /\ CachedSectors(c) \in Nat /\ Len(e.data) \in Nat
<1> DEFINE d == Append(c, e)
           n == Len(c)
<1>1. /\ d \in Seq(Entry) /\ Len(d) = n + 1 /\ d[n + 1] = e
      /\ \A i \in 1..n : d[i] = c[i]
      /\ n \in Nat
  BY AppendProperties, LenProperties
<1>2. Len(e.data) \in Nat
  BY LenProperties DEF Entry
<1> HIDE DEF d
<1>3. PICK g \in [0..Len(d) -> Nat] : Counts(g, d, Len(d)) /\ CachedSectors(d) = g[Len(d)]
  BY <1>1, CountExists
<1>4. Counts(g, c, n)
  BY <1>1, <1>3 DEF Counts
<1>5. g[n] = CachedSectors(c) /\ CachedSectors(c) \in Nat
  BY <1>4, CountIs
<1>6. g[n + 1] = g[n] + Len(e.data)
  <2>1. n + 1 \in 1..Len(d) /\ (n + 1) - 1 = n
    BY <1>1
  <2> QED BY <1>1, <1>3, <2>1 DEF Counts
<1> QED BY <1>1, <1>2, <1>3, <1>5, <1>6 DEF d
\* Of c's first i requests those that do not overlap the sectors, f counting c's.
Spared(d, c, i, lba, len, f) ==
  /\ d \in Seq(Entry)
  /\ \A a \in 1..Len(d) : \E j \in 1..i : d[a] = c[j] /\ ~Overlaps(c[j], lba, len)
  /\ Apart(c) => Apart(d)
  /\ CachedSectors(d) <= f[i]

LEMMA OneMoreSpared ==
  ASSUME NEW c \in Seq(Entry), NEW i \in 1..Len(c), NEW lba, NEW len, NEW d, NEW e,
         NEW f \in [0..Len(c) -> Nat], Counts(f, c, Len(c)), Spared(d, c, i - 1, lba, len, f),
         e = IF Overlaps(c[i], lba, len) THEN d ELSE Append(d, c[i])
  PROVE  Spared(e, c, i, lba, len, f)
<1>1. /\ d \in Seq(Entry)
      /\ \A a \in 1..Len(d) : \E j \in 1..i - 1 : d[a] = c[j] /\ ~Overlaps(c[j], lba, len)
      /\ CachedSectors(d) <= f[i - 1]
  BY DEF Spared
<1>2. /\ c[i] \in Entry /\ Len(c[i].data) \in Nat
      /\ i \in Nat /\ i - 1 \in 0..Len(c) /\ f[i - 1] \in Nat /\ f[i] = f[i - 1] + Len(c[i].data)
  BY EntryIs, LenProperties DEF Counts
<1>3. CachedSectors(d) \in Nat
  BY <1>1, <1>2, CountAppended
<1>4. CASE Overlaps(c[i], lba, len)
  <2>1. \A a \in 1..Len(d) : \E j \in 1..i : d[a] = c[j] /\ ~Overlaps(c[j], lba, len)
    <3>1. 1..i - 1 \subseteq 1..i
      BY <1>2
    <3> QED BY <1>1, <3>1
  <2>2. CachedSectors(d) <= f[i]
    BY <1>1, <1>2, <1>3
  <2> QED BY <1>4, <2>1, <2>2 DEF Spared
<1>5. CASE ~Overlaps(c[i], lba, len)
  <2> DEFINE n == Len(d)
  <2>1. e = Append(d, c[i])
    BY <1>5
  <2>2. /\ n \in Nat /\ e \in Seq(Entry) /\ Len(e) = n + 1 /\ e[n + 1] = c[i]
        /\ \A a \in 1..n : e[a] = d[a]
    BY <1>1, <1>2, <2>1, AppendProperties, LenProperties
  <2> HIDE DEF n
  <2>3. \A a \in 1..Len(e) :
          \/ a = n + 1 /\ e[a] = c[i]
          \/ a \in 1..n /\ e[a] = d[a]
    BY <2>2
  <2>4. ASSUME NEW a \in 1..Len(e)
        PROVE  \E j \in 1..i : e[a] = c[j] /\ ~Overlaps(c[j], lba, len)
    <3>1. CASE a \in 1..n /\ e[a] = d[a]
      <4>1. PICK j \in 1..i - 1 : d[a] = c[j] /\ ~Overlaps(c[j], lba, len)
        BY <1>1, <3>1 DEF n
      <4>2. j \in 1..i
        BY <1>2
      <4> QED BY <3>1, <4>1, <4>2
    <3>2. CASE e[a] = c[i]
      BY <1>2, <1>5, <3>2
    <3> QED BY <2>3, <3>1, <3>2
  <2>5. ASSUME Apart(c) PROVE Apart(e)
    <3>1. Apart(d)
      BY <2>5 DEF Spared
    <3>2. ASSUME NEW a \in 1..n
          PROVE  /\ ~Overlaps(d[a], c[i].lba, Len(c[i].data))
                 /\ ~Overlaps(c[i], d[a].lba, Len(d[a].data))
      <4>1. PICK j \in 1..i - 1 : d[a] = c[j]
        BY <1>1 DEF n
      <4>2. j \in 1..Len(c) /\ i \in 1..Len(c) /\ j # i
        BY <1>2, LenProperties
      <4> QED BY <2>5, <4>1, <4>2 DEF Apart
    <3>3. ASSUME NEW a \in 1..Len(e), NEW b \in 1..Len(e), a # b
          PROVE  ~Overlaps(e[a], e[b].lba, Len(e[b].data))
      <4>1. CASE a \in 1..n /\ b \in 1..n
        <5>1. e[a] = d[a] /\ e[b] = d[b]
          BY <2>2, <4>1
        <5> QED BY <3>1, <3>3, <4>1, <5>1 DEF Apart, n
      <4>2. CASE a \in 1..n /\ b = n + 1
        <5>1. e[a] = d[a] /\ e[b] = c[i]
          BY <2>2, <4>2
        <5> QED BY <3>2, <4>2, <5>1
      <4>3. CASE a = n + 1 /\ b \in 1..n
        <5>1. e[a] = c[i] /\ e[b] = d[b]
          BY <2>2, <4>3
        <5> QED BY <3>2, <4>3, <5>1
      <4> QED BY <2>3, <3>3, <4>1, <4>2, <4>3
    <3> QED BY <3>3 DEF Apart
  <2>6. CachedSectors(e) <= f[i]
    <3>1. CachedSectors(e) = CachedSectors(d) + Len(c[i].data)
      BY <1>1, <1>2, <2>1, CountAppended
    <3> QED BY <1>1, <1>2, <1>3, <3>1
  <2> QED BY <2>2, <2>4, <2>5, <2>6 DEF Spared
<1> QED BY <1>4, <1>5

\* invalidate leaves requests of the cache that do not touch the sectors, and
\* what was true of the requests together stays true.
LEMMA InvalidatedIs ==
  ASSUME NEW c \in Seq(Entry), NEW lba, NEW len
  PROVE  LET d == Invalidated(c, lba, len)
         IN /\ d \in Seq(Entry)
            /\ \A a \in 1..Len(d) :
                 \E j \in 1..Len(c) : d[a] = c[j] /\ ~Overlaps(c[j], lba, len)
            /\ Apart(c) => Apart(d)
            /\ CachedSectors(d) <= CachedSectors(c)
<1> DEFINE n == Len(c)
           next(d, i) == IF Overlaps(c[i], lba, len) THEN d ELSE Append(d, c[i])
           IsKept(g) == g = [i \in 0..n |-> IF i = 0 THEN <<>> ELSE next(g[i - 1], i)]
           step == [i \in 1..n |-> [d \in Seq(Entry) |-> next(d, i)]]
<1>1. n \in Nat /\ \A i \in 1..n : c[i] \in Entry
  BY EntryIs, LenProperties
<1> HIDE DEF n
<1>2. /\ step \in [1..n -> [Seq(Entry) -> Seq(Entry)]]
      /\ \A i \in 1..n : \A d \in Seq(Entry) : step[i][d] = next(d, i)
  <2>1. ASSUME NEW i \in 1..n, NEW d \in Seq(Entry) PROVE next(d, i) \in Seq(Entry)
    BY <1>1, AppendProperties
  <2> HIDE DEF next
  <2> QED BY <2>1
<1> HIDE DEF step
<1>3. PICK k \in [0..n -> Seq(Entry)] : Steps(k, <<>>, step, n)
  <2>1. <<>> \in Seq(Entry)
    OBVIOUS
  <2> QED BY <1>1, <1>2, <2>1, Stepwise
<1>4. ASSUME NEW i \in 1..n PROVE k[i] = next(k[i - 1], i)
  <2>1. k[i - 1] \in Seq(Entry)
    <3>1. i - 1 \in 0..n
      BY <1>1
    <3> QED BY <1>3, <3>1
  <2> QED BY <1>2, <1>3, <2>1 DEF Steps
<1> DEFINE kept == CHOOSE g : IsKept(g)
<1>7. Invalidated(c, lba, len) = kept[n]
  BY DEF Invalidated, n
<1> HIDE DEF next
<1>5. IsKept(k)
  BY <1>1, <1>3, <1>4 DEF Steps
<1>6. IsKept(kept)
  BY <1>5
<1> HIDE DEF kept
<1>8. kept[0] = <<>> /\ \A i \in 1..n : kept[i] = next(kept[i - 1], i)
  BY <1>1, <1>6
<1>9. PICK f \in [0..n -> Nat] : Counts(f, c, n) /\ CachedSectors(c) = f[n]
  BY CountExists DEF n
<1> DEFINE wrong == {i \in 0..n : ~Spared(kept[i], c, i, lba, len, f)}
<1>10. ASSUME wrong # {} PROVE FALSE
  <2> DEFINE m == Least(wrong)
  <2>1. m \in wrong /\ \A i \in wrong : m <= i
    <3>1. wrong \subseteq Nat
      OBVIOUS
    <3> HIDE DEF wrong
    <3> QED BY <1>10, <3>1, LeastIs
  <2> HIDE DEF m
  <2>2. Spared(kept[0], c, 0, lba, len, f)
    <3>1. f[0] = 0 /\ kept[0] = <<>> /\ <<>> \in Seq(Entry) /\ Len(<<>>) = 0
      BY <1>8, <1>9 DEF Counts
    <3> QED BY <3>1, CountOfNone DEF Spared, Apart
  <2>3. m \in 1..n /\ m - 1 \in 0..n /\ m - 1 \notin wrong
    BY <1>1, <2>1, <2>2
  <2>4. Spared(kept[m - 1], c, m - 1, lba, len, f)
    BY <2>3
  <2>5. kept[m] = next(kept[m - 1], m)
    BY <1>8, <2>3
  <2>6. Spared(kept[m], c, m, lba, len, f)
    BY <1>9, <2>3, <2>4, <2>5, OneMoreSpared DEF n, next
  <2> QED BY <2>1, <2>6
<1>11. Spared(kept[n], c, n, lba, len, f)
  <2>1. n \notin wrong
    BY <1>10
  <2> QED BY <1>1, <2>1
<1> QED BY <1>7, <1>9, <1>11 DEF Spared, n
\* insert evicts the oldest requests, and no more of them than it must.
LEMMA EvictedIs ==
  ASSUME NEW c \in Seq(Entry), NEW len \in Nat, len <= Budget
  PROVE  LET d == Evicted(c, len)
         IN /\ d \in Seq(Entry)
            /\ \A a \in 1..Len(d) : \E j \in 1..Len(c) : d[a] = c[j]
            /\ Apart(c) => Apart(d)
            /\ CachedSectors(d) + len <= Budget
<1> DEFINE n == Len(c)
           keep == {i \in 0..n : CachedSectors(SubSeq(c, i + 1, n)) + len <= Budget}
<1>1. n \in Nat
  BY LenProperties
<1>2. n \in keep
  <2>1. SubSeq(c, n + 1, n) = <<>>
    BY <1>1, SubSeqEmpty
  <2>2. CachedSectors(SubSeq(c, n + 1, n)) + len <= Budget
    <3>1. CachedSectors(<<>>) + len <= Budget
      BY CountOfNone
    <3> QED BY <2>1, <3>1
  <2> HIDE DEF n
  <2> QED BY <1>1, <2>2
<1>3. Least(keep) \in keep
  <2>1. keep \subseteq Nat /\ keep # {}
    BY <1>2
  <2> HIDE DEF keep
  <2> QED BY <2>1, LeastIs
<1> DEFINE k == Least(keep)
           d == SubSeq(c, k + 1, n)
<1>4. Evicted(c, len) = d
  BY DEF Evicted, Least
<1>5. k \in 0..n /\ CachedSectors(d) + len <= Budget
  BY <1>3
<1> HIDE DEF k, keep
<1>6. /\ d \in Seq(Entry) /\ Len(d) = n - k
      /\ \A a \in 1..n - k : d[a] = c[k + a]
  <2>1. \A i \in k + 1..n : c[i] \in Entry
    BY <1>1, <1>5, ElementOfSeq
  <2> HIDE DEF n
  <2>2. /\ d \in Seq(Entry)
        /\ Len(d) = IF k + 1 <= n THEN n - (k + 1) + 1 ELSE 0
        /\ \A i \in 1..n - (k + 1) + 1 : d[i] = c[k + 1 + i - 1]
    BY <1>1, <1>5, <2>1, SubSeqProperties
  <2>3. \A a \in 1..n - k : a \in 1..n - (k + 1) + 1 /\ k + 1 + a - 1 = k + a
    BY <1>1, <1>5
  <2> QED BY <1>1, <1>5, <2>2, <2>3
<1> HIDE DEF d
<1>7. \A a \in 1..Len(d) : k + a \in 1..Len(c) /\ d[a] = c[k + a]
  BY <1>1, <1>5, <1>6 DEF n
<1>8. ASSUME Apart(c) PROVE Apart(d)
  <2>1. \A i, j \in 1..Len(d) : i # j => k + i # k + j
    BY <1>1, <1>5, <1>6
  <2> QED BY <1>7, <1>8, <2>1 DEF Apart
<1>9. \A a \in 1..Len(d) : \E j \in 1..Len(c) : d[a] = c[j]
  BY <1>7
<1> QED BY <1>4, <1>5, <1>6, <1>8, <1>9

\* What insert makes of the cache: requests it had and the one read, none on
\* another's sectors and all within the budget.
LEMMA InsertedIs ==
  ASSUME cache \in Seq(Entry), NEW e \in Entry
  PROVE  LET d == Inserted(e.lba, e.data)
         IN /\ d \in Seq(Entry)
            /\ \A a \in 1..Len(d) : d[a] = e \/ \E j \in 1..Len(cache) : d[a] = cache[j]
            /\ Apart(cache) => Apart(d)
            /\ CachedSectors(cache) <= Budget => CachedSectors(d) <= Budget
<1> DEFINE len == Len(e.data)
           u == Invalidated(cache, e.lba, len)
           v == Evicted(u, len)
           d == Append(v, e)
<1>1. len \in Nat /\ e = [lba |-> e.lba, data |-> e.data]
  BY LenProperties DEF Entry
<1>2. CASE len > Budget
  BY <1>2 DEF Inserted
<1>3. CASE ~(len > Budget)
  <2>1. len <= Budget
    BY <1>1, <1>3, BudgetAssumption
  <2>2. Inserted(e.lba, e.data) = d
    BY <1>1, <1>3 DEF Inserted
  <2>3. /\ u \in Seq(Entry)
        /\ \A a \in 1..Len(u) : \E j \in 1..Len(cache) :
              u[a] = cache[j] /\ ~Overlaps(cache[j], e.lba, len)
        /\ Apart(cache) => Apart(u)
    BY InvalidatedIs
  <2> HIDE DEF u
  <2>4. /\ v \in Seq(Entry)
        /\ \A a \in 1..Len(v) : \E j \in 1..Len(u) : v[a] = u[j]
        /\ Apart(u) => Apart(v)
        /\ CachedSectors(v) + len <= Budget
    BY <1>1, <2>1, <2>3, EvictedIs
  <2> HIDE DEF v
  <2>5. /\ d \in Seq(Entry) /\ Len(d) = Len(v) + 1 /\ d[Len(v) + 1] = e
        /\ \A a \in 1..Len(v) : d[a] = v[a]
        /\ Len(v) \in Nat /\ CachedSectors(d) = CachedSectors(v) + len
    BY <2>4, AppendProperties, LenProperties, CountAppended
  <2> HIDE DEF d
  <2>6. \A a \in 1..Len(v) : \E j \in 1..Len(cache) :
           v[a] = cache[j] /\ ~Overlaps(v[a], e.lba, len)
    BY <2>3, <2>4
  <2>7. \A a \in 1..Len(d) : \/ a = Len(v) + 1 /\ d[a] = e
                             \/ a \in 1..Len(v) /\ d[a] = v[a]
    BY <2>5
  <2>8. ASSUME Apart(cache) PROVE Apart(d)
    <3>1. Apart(v)
      BY <2>3, <2>4, <2>8
    <3>2. ASSUME NEW a \in 1..Len(v) PROVE ~Overlaps(e, v[a].lba, Len(v[a].data))
      BY <2>6 DEF Overlaps
    <3>3. ASSUME NEW a \in 1..Len(d), NEW b \in 1..Len(d), a # b
          PROVE  ~Overlaps(d[a], d[b].lba, Len(d[b].data))
      <4>1. CASE a \in 1..Len(v) /\ d[a] = v[a] /\ b \in 1..Len(v) /\ d[b] = v[b]
        BY <3>1, <3>3, <4>1 DEF Apart
      <4>2. CASE a \in 1..Len(v) /\ d[a] = v[a] /\ d[b] = e
        BY <2>6, <4>2
      <4>3. CASE d[a] = e /\ b \in 1..Len(v) /\ d[b] = v[b]
        BY <3>2, <4>3
      <4> QED BY <2>7, <3>3, <4>1, <4>2, <4>3
    <3> QED BY <3>3 DEF Apart
  <2>9. \A a \in 1..Len(d) : d[a] = e \/ \E j \in 1..Len(cache) : d[a] = cache[j]
    BY <2>6, <2>7
  <2>10. CachedSectors(d) <= Budget
    BY <2>4, <2>5
  <2> QED BY <2>2, <2>5, <2>8, <2>9, <2>10
<1> QED BY <1>2, <1>3

-----------------------------------------------------------------------------
(* What the cache holds, and what is on its way to it.                     *)

OnCard(r, card) == [i \in 1..r.len |-> card[r.lba + i - 1]]

Agrees(c, card) ==
  \A i \in 1..Len(c) : \A k \in 1..Len(c[i].data) : c[i].data[k] = card[c[i].lba + k - 1]

CacheTypes ==
  /\ cache \in Seq(Entry) /\ mounted \in BOOLEAN
  /\ Apart(cache) /\ CachedSectors(cache) <= Budget

\* Only a session that has the card has anything cached.
CachedInOurs == cache # <<>> => phase \in Ours

\* The command under way is for the request wanted, and what was read for it
\* is what the card holds: in the cart's buffer, then in the answer.
Asked ==
  phase \in {"read", "fetch", "load", "store"} /\ commands # <<>> =>
    commands[Len(commands)].req = want
Buffered ==
  /\ phase = "fetching" => buffer = OnCard(want, sd)
  /\ phase = "fetch" /\ commands # <<>> => buffer = OnCard(want, sd)
  /\ phase = "read" /\ commands = <<>> =>
       (answers[Len(answers)].ok => buffer = OnCard(want, sd))
  /\ phase = "fetch" /\ commands = <<>> => answers[Len(answers)].data = OnCard(want, sd)

\* What is being written is not cached.
Uncached ==
  phase \in {"load", "storing", "store"} =>
    \A i \in 1..Len(cache) : ~Overlaps(cache[i], want.lba, want.len)

Served == ~timedOut => Agrees(cache, sd) /\ Asked /\ Buffered /\ Uncached

CInv == IInv /\ CacheTypes /\ CachedInOurs /\ Served
LEMMA CachedAtFirst == SdInit => CInv
<1> SUFFICES ASSUME SdInit PROVE CInv
  OBVIOUS
<1>1. cache = <<>> /\ mounted = FALSE /\ phase = "closed"
  BY DEF SdInit
<1>2. cache \in Seq(Entry) /\ Len(cache) = 0
  BY <1>1
<1>3. CacheTypes
  <2>1. CachedSectors(cache) = 0
    BY <1>1, CountOfNone
  <2>2. Apart(cache)
    BY <1>2 DEF Apart
  <2>3. mounted \in BOOLEAN
    BY <1>1
  <2> QED BY <1>2, <2>1, <2>2, <2>3, BudgetAssumption DEF CacheTypes
<1>4. CachedInOurs /\ Served
  BY <1>1, <1>2 DEF CachedInOurs, Served, Agrees, Asked, Buffered, Uncached
<1> QED BY <1>3, <1>4, InitHolds DEF CInv

\* An empty cache is as it should be.
LEMMA EmptyCache ==
  cache' = <<>> /\ mounted' \in BOOLEAN =>
    CacheTypes' /\ CachedInOurs' /\ Agrees(cache', sd') /\ Uncached'
<1> SUFFICES ASSUME cache' = <<>>, mounted' \in BOOLEAN
             PROVE  CacheTypes' /\ CachedInOurs' /\ Agrees(cache', sd') /\ Uncached'
  OBVIOUS
<1>1. cache' \in Seq(Entry) /\ Len(cache') = 0
  OBVIOUS
<1>2. CachedSectors(cache') = 0
  BY CountOfNone
<1> QED BY <1>1, <1>2, BudgetAssumption
        DEF CacheTypes, Apart, CachedInOurs, Agrees, Uncached

\* A command sent is the last on the cable.
LEMMA AskedNow ==
  ASSUME IInv, NEW to \in Waits, SendCommand(to)
  PROVE  /\ phase' = to /\ UNCHANGED <<answers, locked, buffer, sd>>
         /\ commands' # <<>> /\ commands'[Len(commands')].req = want'
<1> DEFINE m == [cmd |-> Awaited[to], req |-> want', late |-> FALSE]
<1>1. /\ phase' = to /\ commands' = Append(commands, m)
      /\ UNCHANGED <<answers, locked, buffer, sd>>
  BY DEF SendCommand
<1>2. commands \in Seq(CommandSet)
  BY DEF IInv, Types
<1>3. m.req = want'
  OBVIOUS
<1> HIDE DEF m
<1>4. commands' # <<>> /\ commands'[Len(commands')] = m
  <2> DEFINE T == CommandSet \cup {m}
  <2>1. commands \in Seq(T) /\ m \in T
    BY <1>2, SeqMonotonic
  <2> HIDE DEF T
  <2>2. /\ Len(commands') = Len(commands) + 1 /\ commands'[Len(commands) + 1] = m
        /\ commands' # <<>>
    BY <1>1, <2>1, AppendProperties
  <2> QED BY <2>2
<1> QED BY <1>1, <1>3, <1>4

LEMMA AsksKeepCache ==
  ASSUME CInv, \/ CloseSession \/ DropSession \/ MountFails \/ Mounted \/ Follow
               \/ \E r \in Requests : ReadSectors(r) \/ WriteSectors(r)
  PROVE  CacheTypes' /\ CachedInOurs' /\ Served'
<1>1. /\ IInv /\ CacheTypes /\ CachedInOurs /\ Served
      /\ cache \in Seq(Entry) /\ mounted \in BOOLEAN
      /\ released => phase \in {"close", "closing", "drop", "closed"}
  BY DEF CInv, CacheTypes, IInv, ReleasedWhenOver
<1>2. ASSUME cache' = <<>>, mounted' \in BOOLEAN,
             phase' \in {"close", "drop", "giveup", "closed"}
      PROVE  CacheTypes' /\ CachedInOurs' /\ Served'
  BY <1>2, EmptyCache DEF Served, Asked, Buffered
<1>3. CASE CloseSession
  BY <1>1, <1>2, <1>3, AskedNow DEF CloseSession, Waits
<1>4. CASE DropSession
  <2>1. CASE released
    <3>1. phase' = "closed" /\ phase = "closing" /\ cache' = cache /\ mounted' = mounted
      BY <1>1, <1>4, <2>1 DEF DropSession, sessionVars
    <3>2. cache = <<>>
      BY <1>1, <3>1 DEF CachedInOurs, Ours
    <3> QED BY <1>1, <1>2, <3>1, <3>2
  <2>2. CASE ~released
    BY <1>1, <1>2, <1>4, <2>2, AskedNow DEF DropSession, Waits
  <2> QED BY <2>1, <2>2
<1>5. CASE MountFails
  BY <1>1, <1>2, <1>5, AskedNow DEF MountFails, Waits
<1>6. CASE Mounted
  BY <1>1, <1>6
  DEF Mounted, CacheTypes, CachedInOurs, Served, Asked, Buffered, Uncached
<1>7. CASE Follow
  <2>1. PICK to \in {"tidy", "init", "fetch", "store"} :
          /\ SendCommand(to) /\ phase \in {"tidying", "initing", "fetching", "storing"}
          /\ to \in Ours => phase \in Ours
          /\ to = "fetch" => phase = "fetching"
          /\ to = "store" => phase = "storing"
          /\ phase \in Ours => to \in Ours
    BY <1>7 DEF Follow, Ours
  <2>2. UNCHANGED <<want, cache, mounted, timedOut>>
    BY <1>7 DEF Follow, sessionVars
  <2>3. /\ phase' = to /\ UNCHANGED <<answers, locked, buffer, sd>>
        /\ commands' # <<>> /\ commands'[Len(commands')].req = want'
    BY <1>1, <2>1, AskedNow DEF Waits
  <2>4. CacheTypes' /\ CachedInOurs'
    BY <1>1, <2>1, <2>2, <2>3 DEF CacheTypes, CachedInOurs
  <2>5. Served'
    BY <1>1, <2>1, <2>2, <2>3 DEF Served, Asked, Buffered, Uncached
  <2> QED BY <2>4, <2>5
<1>8. ASSUME NEW r \in Requests, ReadSectors(r) PROVE CacheTypes' /\ CachedInOurs' /\ Served'
  <2>1. CASE UNCHANGED sdVars
    BY <1>1, <2>1
    DEF sdVars, CacheTypes, CachedInOurs, Served, Asked, Buffered, Uncached
  <2>2. CASE SendCommand("read") /\ UNCHANGED <<cache, mounted, timedOut>>
    <3>1. /\ phase' = "read" /\ UNCHANGED <<answers, locked, buffer, sd>>
          /\ commands' # <<>> /\ commands'[Len(commands')].req = want'
      BY <1>1, <2>2, AskedNow DEF Waits
    <3> QED BY <1>1, <2>2, <3>1
            DEF CacheTypes, CachedInOurs, Ours, Served, Asked, Buffered, Uncached
  <2> QED BY <1>8, <2>1, <2>2 DEF ReadSectors
<1>9. ASSUME NEW r \in Requests, WriteSectors(r) PROVE CacheTypes' /\ CachedInOurs' /\ Served'
  <2>1. /\ want' = r /\ SendCommand("load") /\ UNCHANGED <<mounted, timedOut>>
        /\ cache' = Invalidated(cache, r.lba, r.len)
    BY <1>9 DEF WriteSectors
  <2>2. /\ phase' = "load" /\ UNCHANGED <<answers, locked, buffer, sd>>
        /\ commands' # <<>> /\ commands'[Len(commands')].req = want'
    BY <1>1, <2>1, AskedNow DEF Waits
  <2>3. /\ cache' \in Seq(Entry)
        /\ \A a \in 1..Len(cache') :
             \E j \in 1..Len(cache) : cache'[a] = cache[j] /\ ~Overlaps(cache[j], r.lba, r.len)
        /\ Apart(cache) => Apart(cache')
        /\ CachedSectors(cache') <= CachedSectors(cache)
    BY <1>1, <2>1, InvalidatedIs
  <2>4. CacheTypes'
    <3>1. CachedSectors(cache) \in Nat /\ CachedSectors(cache') \in Nat
      BY <1>1, <2>3, CountExists, LenProperties
    <3> QED BY <1>1, <2>1, <2>3, <3>1, BudgetAssumption DEF CacheTypes
  <2>5. CachedInOurs' /\ Asked' /\ Buffered'
    BY <2>2 DEF CachedInOurs, Ours, Asked, Buffered
  <2>6. Uncached'
    BY <2>1, <2>3 DEF Uncached
  <2>7. Agrees(cache, sd) => Agrees(cache', sd')
    <3>1. ASSUME Agrees(cache, sd), NEW a \in 1..Len(cache'),
                 NEW k \in 1..Len(cache'[a].data)
          PROVE  cache'[a].data[k] = sd[cache'[a].lba + k - 1]
      <4>1. PICK j \in 1..Len(cache) : cache'[a] = cache[j]
        BY <2>3
      <4> QED BY <3>1, <4>1 DEF Agrees
    <3> QED BY <2>2, <3>1 DEF Agrees
  <2> QED BY <1>1, <2>1, <2>4, <2>5, <2>6, <2>7 DEF Served
<1> QED BY <1>3, <1>4, <1>5, <1>6, <1>7, <1>8, <1>9

LEMMA OpenKeepsCache ==
  CInv /\ (OpenSession \/ \E s \in Sectors : ConsoleWrites(s)) =>
    CacheTypes' /\ CachedInOurs' /\ Served'
<1>1. ASSUME OpenSession PROVE CacheTypes' /\ CachedInOurs' /\ Served'
  <2>1. cache' = <<>> /\ mounted' \in BOOLEAN /\ phase' = "identify"
    BY <1>1 DEF OpenSession
  <2> QED BY <2>1, EmptyCache DEF Served, Asked, Buffered
<1>2. ASSUME CInv, NEW s \in Sectors, ConsoleWrites(s)
      PROVE  CacheTypes' /\ CachedInOurs' /\ Served'
  <2>1. /\ ~locked /\ UNCHANGED <<phase, commands, answers, buffer, cache, mounted, want, timedOut>>
    BY <1>2 DEF ConsoleWrites, sessionVars
  <2>2. CacheTypes' /\ CachedInOurs'
    BY <1>2, <2>1 DEF CInv, CacheTypes, CachedInOurs
  <2>3. ASSUME ~timedOut PROVE Served'
    <3>1. phase \notin Ours
      BY <1>2, <2>1, <2>3 DEF CInv, IInv, Orderly, WhoseCard
    <3>2. cache' = <<>> /\ mounted' \in BOOLEAN
      BY <1>2, <2>1, <3>1 DEF CInv, CachedInOurs, CacheTypes
    <3> QED BY <2>1, <3>1, <3>2, EmptyCache DEF Served, Asked, Buffered, Ours
  <2> QED BY <2>1, <2>2, <2>3 DEF Served
<1> QED BY <1>1, <1>2
LEMMA GiveUpKeepsCache ==
  CInv /\ GiveUpCommand => CacheTypes' /\ CachedInOurs' /\ Served'
<1> SUFFICES ASSUME CInv, GiveUpCommand PROVE CacheTypes' /\ CachedInOurs' /\ Served'
  OBVIOUS
<1>1. /\ phase \in Waits /\ phase' = After(phase, FALSE) /\ timedOut' = TRUE
      /\ UNCHANGED <<cache, mounted>>
  BY AwaitedIs DEF GiveUpCommand, Finish
<1>2. phase \in Ours => phase' \in Ours
  BY <1>1, AfterIs
<1> QED BY <1>1, <1>2 DEF CInv, CacheTypes, CachedInOurs, Served

\* What follows an answer: which of the phases it was, where it leads.
LEMMA Leads ==
  ASSUME NEW p \in Waits, NEW ok \in BOOLEAN
  PROVE  /\ After(p, ok) = "fetching" => p = "read" /\ ok
         /\ After(p, ok) = "storing" => p = "load" /\ ok
         /\ p = "fetch" => After(p, ok) = "open"
BY DEF After, Waits

LEMMA ReceiveKeepsCache ==
  ASSUME CInv, ReceiveAnswer, IInv'
  PROVE  CacheTypes' /\ CachedInOurs' /\ Served'
<1> DEFINE a == Head(answers)
           mine == Kind(a.cmd) = Kind(Awaited[phase])
           good == a.ok /\ (phase = "fetch" => Len(a.data) = want.len)
<1>1. Types /\ Orderly /\ CacheTypes /\ CachedInOurs /\ Served /\ Types'
  BY DEF CInv, IInv
<1>2. /\ phase \in Waits /\ answers # <<>> /\ answers' = Tail(answers)
      /\ UNCHANGED <<commands, locked, buffer, sd, timedOut, mounted>>
  BY AwaitedIs DEF ReceiveAnswer
<1>3. ASSUME mine
      PROVE  /\ phase' = After(phase, good)
             /\ want' = IF phase' = "open" THEN None ELSE want
             /\ cache' = IF phase = "fetch" /\ good THEN Inserted(want.lba, a.data)
                         ELSE cache
  BY <1>3 DEF ReceiveAnswer, Finish
<1>4. ASSUME ~mine PROVE UNCHANGED <<phase, want, cache>>
  BY <1>4 DEF ReceiveAnswer
<1>5. /\ answers \in Seq(AnswerSet) /\ Len(answers) \in Nat \ {0}
      /\ answers' \in Seq(AnswerSet) /\ Len(answers') = Len(answers) - 1
      /\ a = answers[1] /\ a \in AnswerSet
      /\ \A i \in 1..Len(answers) - 1 : answers'[i] = answers[i + 1]
  BY <1>1, <1>2, HeadTailProperties, EmptySeq DEF Types
<1>6. a.cmd \in Commands /\ a.ok \in BOOLEAN /\ a.data \in Seq(Bytes)
  BY <1>5 DEF AnswerSet
<1> HIDE DEF a
<1>7. good \in BOOLEAN /\ (phase = "fetch" /\ good => Len(a.data) = want.len)
  BY <1>6
<1>8. a.cmd = "IDENTIFIER_GET" /\ mine => phase = "identify"
  BY <1>2, <1>6, AwaitedIs DEF Kind, Commands, Waits
<1> HIDE DEF mine
\* A request read, and the request it answers.
<1> DEFINE e == [lba |-> want.lba, data |-> a.data]
<1>9. ASSUME phase = "fetch", good PROVE e \in Entry
  <2>1. want.lba \in Nat \ {0} /\ want.len \in Nat /\ want.lba + want.len - 1 <= LastSector
    <3>1. CASE want \in Requests
      BY <3>1, SectorsAssumption DEF Requests, Sectors
    <3>2. CASE want = None
      BY <3>2, SectorsAssumption DEF None
    <3> QED BY <1>1, <3>1, <3>2 DEF Types
  <2> QED BY <1>6, <1>7, <1>9, <2>1 DEF Entry
<1>10. ASSUME phase = "fetch", good, mine
       PROVE  /\ cache' \in Seq(Entry) /\ Apart(cache') /\ CachedSectors(cache') <= Budget
              /\ \A i \in 1..Len(cache') :
                   cache'[i] = e \/ \E j \in 1..Len(cache) : cache'[i] = cache[j]
  <2>1. cache' = Inserted(e.lba, e.data) /\ e \in Entry
    BY <1>3, <1>9, <1>10
  <2> HIDE DEF e
  <2> QED BY <1>1, <2>1, InsertedIs DEF CacheTypes
<1>11. ASSUME ~(phase = "fetch" /\ good /\ mine) PROVE cache' = cache
  BY <1>3, <1>4, <1>11
<1>12. CacheTypes'
  BY <1>1, <1>2, <1>10, <1>11 DEF CacheTypes
<1>13. phase \in Ours => phase' \in Ours
  BY <1>2, <1>3, <1>4, <1>7, AfterIs
<1>14. CachedInOurs'
  <2>1. CASE phase = "fetch" /\ good /\ mine
    BY <1>13, <2>1 DEF CachedInOurs, Ours
  <2>2. CASE ~(phase = "fetch" /\ good /\ mine)
    BY <1>1, <1>11, <1>13, <2>2 DEF CachedInOurs
  <2> QED BY <2>1, <2>2
<1>15. ASSUME ~timedOut PROVE Agrees(cache', sd') /\ Asked' /\ Buffered' /\ Uncached'
  <2>1. OnCable /\ Agrees(cache, sd) /\ Asked /\ Buffered /\ Uncached
    BY <1>1, <1>15 DEF Orderly, Served
  <2>2. OnCable'
    BY <1>2, <1>15 DEF IInv, Orderly
  <2>3. CASE ~mine
    <3>1. UNCHANGED <<phase, want, cache, commands, buffer, sd>>
      BY <1>2, <1>4, <2>3
    <3>2. ASSUME phase \in {"read", "fetch"}, commands = <<>>
          PROVE  answers'[Len(answers')] = answers[Len(answers)]
      <4>1. answers' # <<>>
        BY <2>2, <3>1, <3>2 DEF OnCable, Waits, Coming, EndsIn
      <4>2. Len(answers') \in Nat \ {0}
        BY <1>5, <4>1, EmptySeq
      <4> QED BY <1>5, <4>2
    <3> QED BY <2>1, <3>1, <3>2 DEF Agrees, Asked, Buffered, Uncached
  <2>4. CASE mine /\ phase \notin Ours
    <3>1. cache' = <<>> /\ mounted' \in BOOLEAN
      BY <1>1, <1>2, <1>11, <2>4 DEF CachedInOurs, Ours, CacheTypes
    <3>2. phase' \notin Waits /\ phase' \notin {"fetching", "storing"}
      BY <1>2, <1>3, <1>7, <2>4, AfterIs, Leads DEF Ours
    <3> QED BY <3>1, <3>2, EmptyCache DEF Asked, Buffered, Waits
  <2>5. CASE mine /\ phase \in Ours
    <3>1. phase # "identify" /\ Coming(Awaited[phase])
      BY <1>2, <2>1, <2>5 DEF OnCable, Ours
    <3>2. commands = <<>> /\ Len(answers) = 1
      <4>1. a.cmd # "IDENTIFIER_GET"
        BY <1>8, <2>5, <3>1
      <4>2. commands = <<>> /\ EndsIn(answers, Awaited[phase])
        BY <1>2, <1>5, <3>1, <4>1, TailOfIdentifications DEF Coming, a
      <4> QED BY <1>2, <1>5, <4>1, <4>2, HeadGone DEF a
    <3>3. /\ phase = "read" /\ a.ok => buffer = OnCard(want, sd)
          /\ phase = "fetch" => a.data = OnCard(want, sd)
      BY <1>5, <2>1, <3>2 DEF Buffered
    <3>4. phase' = After(phase, good) /\ phase' \notin Waits
      BY <1>2, <1>3, <1>7, <2>5, AfterIs
    <3>5. Asked'
      BY <3>4 DEF Asked, Waits
    <3>6. Buffered'
      <4>1. ASSUME phase' = "fetching" PROVE buffer' = OnCard(want', sd')
        <5>1. phase = "read" /\ a.ok /\ want' = want
          BY <1>2, <1>3, <1>7, <2>5, <3>4, <4>1, Leads
        <5> QED BY <1>2, <3>3, <5>1
      <4> QED BY <3>4, <4>1 DEF Buffered, Waits
    <3>7. CASE phase = "fetch" /\ good
      <4>1. phase' = "open"
        BY <1>2, <1>7, <3>4, <3>7, Leads
      <4>2. \A k \in 1..Len(e.data) : e.data[k] = sd[e.lba + k - 1]
        <5>1. a.data = OnCard(want, sd) /\ Len(a.data) = want.len
          BY <1>7, <3>3, <3>7
        <5> QED BY <5>1 DEF OnCard
      <4>3. Agrees(cache', sd')
        <5>1. ASSUME NEW i \in 1..Len(cache'), NEW k \in 1..Len(cache'[i].data)
              PROVE  cache'[i].data[k] = sd[cache'[i].lba + k - 1]
          <6>1. CASE cache'[i] = e
            BY <4>2, <5>1, <6>1
          <6>2. CASE \E j \in 1..Len(cache) : cache'[i] = cache[j]
            BY <2>1, <5>1, <6>2 DEF Agrees
          <6> QED BY <1>10, <2>5, <3>7, <6>1, <6>2
        <5> QED BY <1>2, <5>1 DEF Agrees
      <4> QED BY <3>5, <3>6, <4>1, <4>3 DEF Uncached
    <3>8. CASE ~(phase = "fetch" /\ good)
      <4>1. cache' = cache
        BY <1>11, <3>8
      <4>2. Uncached'
        <5>1. ASSUME phase' = "storing" PROVE phase = "load" /\ want' = want
          BY <1>2, <1>3, <1>7, <2>5, <3>4, <5>1, Leads
        <5> QED BY <2>1, <3>4, <4>1, <5>1 DEF Uncached, Waits
      <4> QED BY <1>2, <2>1, <3>5, <3>6, <4>1, <4>2 DEF Agrees
    <3> QED BY <3>7, <3>8
  <2> QED BY <2>3, <2>4, <2>5
<1> QED BY <1>2, <1>12, <1>14, <1>15 DEF Served
\* What one command does to the card, and what it brings to the buffer.
LEMMA CarriedData ==
  ASSUME CarryOut, NEW c, c = Head(commands)
  PROVE  /\ c.cmd = "IDENTIFIER_GET" => UNCHANGED <<buffer, sd>>
         /\ c.cmd # "SD_WRITE" => UNCHANGED sd
         /\ c.cmd = "SD_READ" /\ locked =>
              \/ buffer' = OnCard(c.req, sd)
              \/ \E m \in [cmd : {c.cmd}, ok : {FALSE}, data : {<<>>}, late : {c.late}] :
                    answers' = Append(answers, m)
         /\ c.cmd = "MEMORY_READ" =>
              answers' = Append(answers,
                [cmd |-> c.cmd, ok |-> TRUE, late |-> c.late,
                 data |-> [i \in 1..c.req.len |->
                             IF i \in DOMAIN buffer THEN buffer[i] ELSE "console"]])
         /\ c.cmd = "SD_WRITE" =>
              \A s \in Sectors : s \notin Span(c.req.lba, c.req.len) /\ c.req.len \in Nat
                                 /\ c.req.lba \in Nat => sd'[s] = sd[s]
<1>1. /\ c.cmd = "IDENTIFIER_GET" => UNCHANGED <<buffer, sd>>
      /\ c.cmd # "SD_WRITE" => UNCHANGED sd
  BY DEF CarryOut
<1>2. ASSUME c.cmd = "SD_READ", locked
      PROVE  \/ buffer' = OnCard(c.req, sd)
             \/ \E m \in [cmd : {c.cmd}, ok : {FALSE}, data : {<<>>}, late : {c.late}] :
                   answers' = Append(answers, m)
  BY <1>2 DEF CarryOut, OnCard
<1>3. ASSUME c.cmd = "MEMORY_READ"
      PROVE  answers' = Append(answers,
                [cmd |-> c.cmd, ok |-> TRUE, late |-> c.late,
                 data |-> [i \in 1..c.req.len |->
                             IF i \in DOMAIN buffer THEN buffer[i] ELSE "console"]])
  BY <1>3 DEF CarryOut
<1>4. ASSUME c.cmd = "SD_WRITE", NEW s \in Sectors, s \notin Span(c.req.lba, c.req.len),
             c.req.len \in Nat, c.req.lba \in Nat
      PROVE  sd'[s] = sd[s]
  <2>1. CASE sd' = sd
    BY <2>1
  <2>2. ASSUME NEW n \in 0..c.req.len,
               sd' = [t \in Sectors |->
                        LET i == t - c.req.lba + 1
                        IN IF i \in (1..n) \cap DOMAIN buffer THEN buffer[i] ELSE sd[t]]
        PROVE  sd'[s] = sd[s]
    <3>1. s - c.req.lba + 1 \notin 1..n
      BY <1>4, <2>2, SectorsAssumption DEF Span, Sectors
    <3> QED BY <2>2, <3>1
  <2> QED BY <1>4, <2>1, <2>2 DEF CarryOut
<1> QED BY <1>1, <1>2, <1>3, <1>4

LEMMA CarryOutKeepsCache ==
  ASSUME CInv, CarryOut, IInv'
  PROVE  CacheTypes' /\ CachedInOurs' /\ Served'
<1> DEFINE c == Head(commands)
<1>1. Types /\ Orderly /\ CacheTypes /\ CachedInOurs /\ Served /\ Types' /\ Orderly'
  BY DEF CInv, IInv
<1>2. /\ commands # <<>> /\ commands' = Tail(commands)
      /\ UNCHANGED <<phase, want, cache, mounted, timedOut>>
  BY DEF CarryOut, sessionVars
<1>3. CacheTypes' /\ CachedInOurs'
  BY <1>1, <1>2 DEF CacheTypes, CachedInOurs
<1>4. PICK a \in AnswerSet : answers' = Append(answers, a) /\ a.cmd = c.cmd
  BY <1>1, Carried
<1>5. /\ Len(answers) \in Nat /\ Len(answers') = Len(answers) + 1
      /\ answers'[Len(answers')] = a /\ answers' # <<>>
      /\ \A i \in 1..Len(answers) : answers'[i] = answers[i]
  <2>1. answers \in Seq(AnswerSet)
    BY <1>1 DEF Types
  <2> QED BY <1>4, <2>1, AppendProperties, LenProperties
<1>6. /\ commands \in Seq(CommandSet) /\ Len(commands) \in Nat \ {0}
      /\ Len(commands') = Len(commands) - 1
      /\ c = commands[1] /\ c \in CommandSet
      /\ \A i \in 1..Len(commands) - 1 : commands'[i] = commands[i + 1]
  BY <1>1, <1>2, HeadTailProperties, EmptySeq DEF Types
<1> HIDE DEF c
<1>7. c.req \in Requests \cup {None} /\ c.cmd \in Commands
  BY <1>6 DEF CommandSet
<1>8. \A q \in Requests \cup {None} : q.len \in Nat /\ q.lba \in Nat
  BY SectorsAssumption DEF Requests, None, Sectors
<1>9. ASSUME ~timedOut PROVE Agrees(cache', sd') /\ Asked' /\ Buffered' /\ Uncached'
  <2>1. OnCable /\ WhoseCard /\ Agrees(cache, sd) /\ Asked /\ Buffered /\ Uncached
    BY <1>1, <1>9 DEF Orderly, Served
  <2>2. Uncached'
    BY <1>2, <2>1 DEF Uncached
  <2>3. CASE phase \notin Ours
    <3>1. cache' = <<>> /\ mounted' \in BOOLEAN
      BY <1>1, <1>2, <2>3 DEF CachedInOurs, CacheTypes
    <3> QED BY <1>2, <2>3, <3>1, EmptyCache DEF Asked, Buffered, Ours
  <2>4. CASE phase \in Ours /\ c.cmd = "IDENTIFIER_GET"
    <3>1. UNCHANGED <<buffer, sd>>
      BY <2>4, CarriedData DEF c
    <3>2. ASSUME phase \in Waits
          PROVE  commands' # <<>> /\ commands'[Len(commands')] = commands[Len(commands)]
      <4>1. EndsIn(commands, Awaited[phase]) /\ Awaited[phase] # "IDENTIFIER_GET"
        <5>1. phase \in {"read", "fetch", "load", "store"}
          BY <2>4, <3>2 DEF Ours, Waits
        <5>2. Coming(Awaited[phase])
          BY <2>1, <3>2, <5>1 DEF OnCable
        <5> QED BY <1>2, <5>1, <5>2, AwaitedIs DEF Coming
      <4>2. EndsIn(commands', Awaited[phase])
        BY <1>2, <1>6, <2>4, <4>1, HeadGone DEF c
      <4>3. commands' # <<>>
        BY <4>2 DEF EndsIn
      <4>4. Len(commands') \in Nat \ {0}
        BY <1>1, <4>3, EmptySeq DEF Types
      <4> QED BY <1>6, <4>3, <4>4
    <3>3. Asked'
      BY <1>2, <2>1, <3>2 DEF Asked, Waits
    <3>4. Buffered'
      BY <1>2, <2>1, <3>1, <3>2 DEF Buffered, Waits
    <3> QED BY <1>2, <2>1, <2>2, <3>1, <3>3, <3>4 DEF Agrees
  <2>5. CASE phase \in Ours /\ c.cmd # "IDENTIFIER_GET"
    <3>1. /\ phase \in {"read", "fetch", "load", "store"} /\ c.cmd = Awaited[phase]
          /\ commands' = <<>> /\ Len(commands) = 1
      <4>1. phase \in Waits
        <5>1. ASSUME phase \notin Waits PROVE FALSE
          BY <1>6, <2>1, <2>5, <5>1 DEF OnCable, Identifications
        <5> QED BY <5>1
      <4>2. EndsIn(commands, Awaited[phase])
        BY <1>2, <2>1, <2>5, <4>1 DEF OnCable, Coming, Ours
      <4>3. c.cmd = Awaited[phase] /\ Tail(commands) = <<>> /\ Len(commands) = 1
        BY <1>6, <2>5, <4>2, HeadGone DEF c
      <4> QED BY <1>2, <2>5, <4>1, <4>3 DEF Ours, Waits
    <3>2. c.req = want /\ locked
      BY <1>2, <1>6, <2>1, <2>5, <3>1 DEF Asked, WhoseCard
    <3>3. Asked'
      BY <3>1 DEF Asked
    <3>4. CASE phase = "read"
      <4>1. c.cmd = "SD_READ" /\ sd' = sd
        BY <3>1, <3>4, AwaitedIs, CarriedData DEF c
      <4>2. ASSUME a.ok PROVE buffer' = OnCard(want, sd)
        <5>1. ASSUME NEW m \in [cmd : {c.cmd}, ok : {FALSE}, data : {<<>>}, late : {c.late}],
                     answers' = Append(answers, m)
              PROVE  FALSE
          <6>1. m \in AnswerSet /\ m.ok = FALSE
            <7>1. c.late \in BOOLEAN /\ <<>> \in Seq(Bytes) /\ FALSE \in BOOLEAN
              BY <1>6 DEF CommandSet
            <7> QED BY <1>7, <7>1 DEF AnswerSet
          <6>2. answers'[Len(answers) + 1] = m
            BY <1>1, <5>1, <6>1, AppendProperties DEF Types
          <6> QED BY <1>5, <4>2, <6>1, <6>2
        <5> QED BY <3>2, <4>1, <5>1, CarriedData DEF c
      <4>3. Buffered'
        BY <1>2, <1>5, <3>1, <3>4, <4>1, <4>2 DEF Buffered
      <4> QED BY <1>2, <2>1, <2>2, <3>3, <4>1, <4>3 DEF Agrees
    <3>5. CASE phase = "fetch"
      <4>1. c.cmd = "MEMORY_READ" /\ sd' = sd
        BY <3>1, <3>5, AwaitedIs, CarriedData DEF c
      <4> DEFINE bytes == [i \in 1..c.req.len |->
                             IF i \in DOMAIN buffer THEN buffer[i] ELSE "console"]
                 m == [cmd |-> c.cmd, ok |-> TRUE, late |-> c.late, data |-> bytes]
      <4>2. buffer = OnCard(want, sd)
        BY <1>2, <2>1, <3>5 DEF Buffered
      <4>3. bytes = OnCard(want, sd)
        <5>1. DOMAIN buffer = 1..want.len
          BY <4>2 DEF OnCard
        <5>2. \A i \in 1..want.len : buffer[i] = sd[want.lba + i - 1]
          BY <4>2 DEF OnCard
        <5> QED BY <3>2, <5>1, <5>2 DEF OnCard
      <4>4. answers' = Append(answers, m)
        BY <4>1, CarriedData DEF c
      <4>5. m.data = bytes
        OBVIOUS
      <4> HIDE DEF m, bytes
      <4>6. answers'[Len(answers')] = m
        <5> DEFINE T == AnswerSet \cup {m}
        <5>1. answers \in Seq(T) /\ m \in T
          BY <1>1, SeqMonotonic DEF Types
        <5> HIDE DEF T
        <5> QED BY <1>5, <4>4, <5>1, AppendProperties
      <4>7. Buffered'
        BY <1>2, <3>1, <3>5, <4>1, <4>3, <4>5, <4>6 DEF Buffered
      <4> QED BY <1>2, <2>1, <2>2, <3>3, <4>1, <4>7 DEF Agrees
    <3>6. CASE phase = "load"
      <4>1. c.cmd = "MEMORY_WRITE" /\ sd' = sd
        BY <3>1, <3>6, AwaitedIs, CarriedData DEF c
      <4> QED BY <1>2, <2>1, <2>2, <3>3, <3>6, <4>1 DEF Agrees, Buffered
    <3>7. CASE phase = "store"
      <4>1. c.cmd = "SD_WRITE"
        BY <3>1, <3>7, AwaitedIs
      <4>2. ASSUME NEW s \in Sectors, s \notin Span(want.lba, want.len) PROVE sd'[s] = sd[s]
        BY <1>7, <1>8, <3>2, <4>1, <4>2, CarriedData DEF c
      <4>3. ASSUME NEW i \in 1..Len(cache), NEW k \in 1..Len(cache[i].data)
            PROVE  cache[i].data[k] = sd'[cache[i].lba + k - 1]
        <5>1. /\ cache[i].lba \in Nat \ {0} /\ Len(cache[i].data) \in Nat
              /\ cache[i].lba + Len(cache[i].data) - 1 <= LastSector
          BY <1>1, EntryIs DEF CacheTypes
        <5> DEFINE s == cache[i].lba + k - 1
        <5>2. s \in Sectors /\ s \in Span(cache[i].lba, Len(cache[i].data))
          BY <5>1, SectorsAssumption DEF Sectors, Span
        <5>3. s \notin Span(want.lba, want.len)
          BY <2>1, <3>7, <5>2 DEF Uncached, Overlaps
        <5>4. sd'[s] = sd[s]
          BY <4>2, <5>2, <5>3
        <5> QED BY <2>1, <5>4 DEF Agrees
      <4>4. Agrees(cache', sd')
        BY <1>2, <4>3 DEF Agrees
      <4> QED BY <1>2, <2>2, <3>3, <3>7, <4>4 DEF Buffered
    <3> QED BY <3>1, <3>4, <3>5, <3>6, <3>7
  <2> QED BY <2>3, <2>4, <2>5
<1> QED BY <1>2, <1>3, <1>9 DEF Served

LEMMA CacheStepKeeps == CInv /\ [SdNext]_sdVars => CInv'
<1> SUFFICES ASSUME CInv, [SdNext]_sdVars PROVE CInv'
  OBVIOUS
<1>1. IInv'
  BY StepKeeps DEF CInv
<1>2. CASE OpenSession \/ \E s \in Sectors : ConsoleWrites(s)
  BY <1>1, <1>2, OpenKeepsCache DEF CInv
<1>3. CASE \/ CloseSession \/ DropSession \/ MountFails \/ Mounted \/ Follow
           \/ \E r \in Requests : ReadSectors(r) \/ WriteSectors(r)
  BY <1>1, <1>3, AsksKeepCache DEF CInv
<1>4. CASE ReceiveAnswer
  BY <1>1, <1>4, ReceiveKeepsCache DEF CInv
<1>5. CASE GiveUpCommand
  BY <1>1, <1>5, GiveUpKeepsCache DEF CInv
<1>6. CASE CarryOut
  BY <1>1, <1>6, CarryOutKeepsCache DEF CInv
<1>7. CASE UNCHANGED sdVars
  BY <1>1, <1>7 DEF sdVars, CInv, CacheTypes, CachedInOurs, Served, Asked, Buffered, Uncached
<1> QED BY <1>2, <1>3, <1>4, <1>5, <1>6, <1>7 DEF SdNext

-----------------------------------------------------------------------------
(* The cache's theorems.                                                   *)

\* What is on its way from the card to the cache is what the card holds, and
\* a request being written is not cached: write_through invalidates first.
THEOREM CacheInvariant == SdSpec => []CInv
<1> QED BY CachedAtFirst, CacheStepKeeps, PTL DEF SdSpec

\* What read_through serves without asking the cart is what the card holds,
\* though a write through store fails part-way and the console writes between
\* sessions.
THEOREM CacheServesTheCard == SdSpec => []CacheIsCard
<1>1. CInv => CacheIsCard
  BY DEF CInv, Served, Agrees, CacheIsCard
<1> QED BY <1>1, CacheInvariant, PTL

\* SdReadCache::insert and invalidate leave no two requests that share a
\* sector, and what insert keeps is within BUDGET_BYTES; every variable of the
\* session stays in its type.
THEOREM SdTypeCorrect == SdSpec => []SdTypeOK
<1>1. CInv => SdTypeOK
  <2> SUFFICES ASSUME CInv PROVE SdTypeOK
    OBVIOUS
  <2>1. phase \in {"closed", "tidying", "initing", "fetching", "storing", "open", "closing"}
                    \cup DOMAIN Awaited
    BY AwaitedIs DEF CInv, IInv, Types, Phases
  <2> QED BY <2>1 DEF CInv, IInv, Types, CacheTypes, Apart, Bytes, SdTypeOK
<1> QED BY <1>1, CacheInvariant, PTL
=============================================================================
