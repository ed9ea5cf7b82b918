------------------------------ MODULE StreamRx ------------------------------
(***************************************************************************)
(* Requests on their way to a console with an EverDrive X7.  The PC sends  *)
(* a request's L3 frame as USB messages of a window each (ed64-l2); the    *)
(* driver in the game (ed64.c) puts a message together behind those it     *)
(* holds, when the agent asks for bytes or before it sends a reply; the    *)
(* agent (agent.c) puts the frames together, a tick of the game at a time. *)
(* Messages are damaged, a request is cut off between two of them, and a   *)
(* busy PI or the clock stops the driver anywhere.  A cell stands for some *)
(* of a frame's bytes, the first one for its header.                       *)
(***************************************************************************)
EXTENDS Integers, Sequences, SequencesExt

CONSTANTS
  MaxFrames,   \* bound: requests sent
  Lengths,     \* how many cells a frame may have
  Window,      \* DEFAULT_ED64_CHUNK and ED_WINDOW
  RxqCap,      \* ED_RXQ_CAP
  RxCap,       \* AGENT_RX_CAP
  Pulls,       \* AGENT_STREAM_PULLS
  ReadAheadMax,\* ED_READ_AHEAD_MAX
  StaleTicks,  \* AGENT_STREAM_STALE_TICKS
  MaxDamage    \* bound: messages damaged or not for the agent, requests cut off
               \* or too long

ASSUME SizesAssumption ==
  /\ MaxFrames \in Nat /\ Lengths \subseteq Nat \ {0}
  /\ Window \in 1..RxqCap /\ RxqCap \in Nat /\ RxCap \in Nat \ {0}
  /\ StaleTicks \in Nat \ {0}

VARIABLES
  writing,     \* [frame, sent, of]: how much of the last request the PC has sent
  usb,         \* messages in the cart, oldest first: [kind, cells]
  rxPhase,     \* s_rx_phase
  rxqOff,      \* s_rxq_off
  rxq,         \* the s_rxq_len bytes of s_rxq from there on
  rxqLost, rxqBeforeLoss,
  rx,          \* s_rx, s_rx_len bytes of it
  rxDone,      \* s_rx_done
  idleTicks,   \* s_rx_idle_ticks
  agentAt,     \* the agent: "rest" between ticks, "pull", "pulled", "reply"
  pulls, arrived,
  served,      \* the frames handled: [frame, whole]
  hurt,        \* requests damaged, cut off, too long, or whose rest came too late
  hurried,     \* requests cut off and followed before the agent gave them up
  cutOff,      \* the last request was cut off, one that s_rx could hold
  quietTicks,  \* ticks in a row in which the agent got nothing and handled nothing
  damage       \* how many messages were damaged and requests cut off or too long

line == <<writing, usb, hurried, cutOff, damage>>
driver == <<rxPhase, rxqOff, rxq, rxqLost, rxqBeforeLoss>>
agentRx == <<rx, rxDone, idleTicks, agentAt, pulls, arrived, served, quietTicks>>
rxVars == <<line, driver, agentRx, hurt>>

Fewer(a, b) == IF a < b THEN a ELSE b
Behind(cells, n) == SubSeq(cells, n + 1, Len(cells))

-----------------------------------------------------------------------------
(* The PC: write_l3_stream, a chunk at a time, and what becomes of it.     *)

Cells(frame, from, to, of) ==
  [i \in 1..(to - from) |-> [frame |-> frame, at |-> from + i, of |-> of]]

\* The agent has everything that was sent, and neither got nor handled anything
\* for StaleTicks: a frame it handles starts the count over.
WaitedOut == usb = <<>> /\ rxq = <<>> /\ quietTicks = StaleTicks

\* A chunk of the request under way or the first of the next; a message may
\* lose its header's DMA@, or its trailer or what precedes it, and a request
\* may be longer than s_rx.
SendMessage ==
  \E kind \in {"L3", "unframed", "torn"},
     w \in IF writing.sent < writing.of THEN {writing}
           ELSE [frame : {writing.frame + 1} \cap 1..MaxFrames, sent : {0}, of : Lengths] :
    LET upTo == Fewer(w.sent + Window, w.of)
        harmed == kind # "L3" \/ (w.sent = 0 /\ w.of > RxCap)
    IN /\ harmed => damage < MaxDamage
       /\ damage' = IF harmed THEN damage + 1 ELSE damage
       /\ hurt' = IF harmed THEN hurt \cup {w.frame} ELSE hurt
       /\ writing' = [w EXCEPT !.sent = upTo]
       /\ usb' = Append(usb, [kind |-> kind, cells |-> Cells(w.frame, w.sent, upTo, w.of)])
       /\ hurried' = IF cutOff /\ ~WaitedOut THEN hurried \cup {writing.frame} ELSE hurried
       /\ cutOff' = FALSE
       /\ UNCHANGED <<driver, agentRx>>

\* The write fails between two chunks; multi64d drops the rest.
CutOff ==
  /\ 0 < writing.sent /\ writing.sent < writing.of /\ damage < MaxDamage
  /\ damage' = damage + 1
  /\ writing' = [writing EXCEPT !.sent = writing.of]
  /\ hurt' = hurt \cup {writing.frame} /\ cutOff' = (writing.of <= RxCap)
  /\ UNCHANGED <<usb, hurried, driver, agentRx>>

\* A message of another datatype.
SendOther ==
  /\ writing.sent = writing.of /\ damage < MaxDamage /\ damage' = damage + 1
  /\ usb' = Append(usb, [kind |-> "other", cells |-> <<>>])
  /\ UNCHANGED <<writing, hurried, cutOff, hurt, driver, agentRx>>

-----------------------------------------------------------------------------
(* The driver.                                                             *)

\* Room for the message's payload behind what is queued, once that is moved
\* to the buffer's front; a payload once begun stays where it is.
RxqRoom == Len(Head(usb).cells) <= RxqCap - Len(rxq)

\* Variant: what is queued is not moved to the buffer's front.
RxqFront_Kept == rxqOff

RxqFront == IF rxPhase = "payload" THEN rxqOff ELSE 0

\* What a call may come to: its result, what it leaves in the cart, its place
\* in the stream, the queue's front, and what joins the queue.  One that is
\* stopped or has no room leaves the message where it is.
UsbReceive ==
  LET Outcome(result, left, phase, front, message) ==
        [result |-> result, usb |-> left, phase |-> phase, front |-> front,
         message |-> message]
      stopped == Outcome("busy", usb, rxPhase, rxqOff, <<>>)
  IN {stopped} \cup
     IF usb = <<>> THEN {Outcome("clear", usb, "header", rxqOff, <<>>)}
     ELSE CASE Head(usb).kind = "unframed" ->
                 {Outcome("lost", Tail(usb), "header", rxqOff, <<>>)}
            [] Head(usb).kind = "other" ->
                 {Outcome("done", Tail(usb), "header", rxqOff, <<>>)}
            [] Head(usb).kind \in {"L3", "torn"} /\ rxPhase # "payload" /\ ~RxqRoom ->
                 {Outcome("full", usb, "room", 0, <<>>)}
            [] OTHER ->
                 {Outcome("busy", usb, "payload", RxqFront, <<>>),
                  IF Head(usb).kind = "torn"
                  THEN Outcome("lost", Tail(usb), "header", RxqFront, <<>>)
                  ELSE Outcome("done", Tail(usb), "header", RxqFront, Head(usb).cells)}

\* rxq_take: as many bytes of a queue as there is space for, up to a loss.
Given(queue, space) ==
  Fewer(space, IF rxqLost THEN rxqBeforeLoss ELSE Len(queue))
HandOver(queue, front, n) ==
  /\ rxq' = Behind(queue, n) /\ rxqOff' = front + n
  /\ rxqBeforeLoss' = IF rxqLost THEN rxqBeforeLoss - n ELSE rxqBeforeLoss

-----------------------------------------------------------------------------
(* The agent.                                                              *)

\* Variant: any header is waited for, whatever length it claims.
FromHeader_AnyLength(cells) ==
  LET Header(c) == c.at = 1
      first == SelectInSeq(cells, Header)
  IN IF first = 0 THEN <<>> ELSE Behind(cells, first - 1)

\* From the first header on of a frame that s_rx can hold, and the length of
\* that frame if all of it is there.
FromHeader(cells) ==
  LET Header(c) == c.at = 1 /\ c.of <= RxCap
      first == SelectInSeq(cells, Header)
  IN IF first = 0 THEN <<>> ELSE Behind(cells, first - 1)
FrameLen(cells) ==
  LET held == FromHeader(cells)
  IN IF held = <<>> \/ Len(held) < held[1].of THEN 0 ELSE held[1].of

BeginTick ==
  /\ agentAt = "rest" /\ agentAt' = "pull"
  /\ rx' = Behind(rx, rxDone) /\ rxDone' = 0
  /\ pulls' = 0 /\ arrived' = FALSE
  /\ UNCHANGED <<line, driver, idleTicks, served, quietTicks, hurt>>

\* A loss leaves nothing of a frame that its bytes could have completed.
LostOnTheWay == rx' = <<>> /\ agentAt' = "pulled"

Arrives == pulls' = pulls + 1 /\ arrived' = TRUE /\ quietTicks' = 0
NoneArrives == UNCHANGED <<pulls, arrived, quietTicks>>

Pulling == agentAt = "pull" /\ pulls < Pulls /\ Len(rx) < RxCap /\ FrameLen(rx) = 0

\* Bytes of the queue, or the loss that comes next in it.
PullQueued ==
  /\ Pulling
  /\ rxq # <<>> \/ rxqLost
  /\ IF rxqLost /\ rxqBeforeLoss = 0
     THEN /\ rxqLost' = FALSE /\ LostOnTheWay
          /\ NoneArrives /\ UNCHANGED <<rxq, rxqOff, rxqBeforeLoss>>
     ELSE LET held == FromHeader(rx)
              n == Given(rxq, RxCap - Len(held))
          IN /\ HandOver(rxq, rxqOff, n) /\ rx' = held \o SubSeq(rxq, 1, n)
             /\ Arrives /\ UNCHANGED <<rxqLost, agentAt>>
  /\ UNCHANGED <<line, rxPhase, rxDone, idleTicks, served, hurt>>

\* With the queue empty, bytes of a message from the cart.
PullUsb ==
  /\ Pulling /\ rxq = <<>> /\ ~rxqLost
  /\ \E r \in UsbReceive :
       /\ usb' = r.usb /\ rxPhase' = r.phase
       /\ LET held == FromHeader(rx)
              n == Given(r.message, RxCap - Len(held))
          IN /\ HandOver(r.message, r.front, n)
             /\ IF r.result = "lost" THEN LostOnTheWay /\ NoneArrives
                ELSE IF n = 0
                     THEN rx' = held /\ agentAt' = "pulled" /\ NoneArrives
                     ELSE rx' = held \o SubSeq(r.message, 1, n) /\ Arrives /\ UNCHANGED agentAt
  /\ UNCHANGED <<writing, hurried, cutOff, damage, rxqLost, rxDone, idleTicks, served,
                 hurt>>

TickOver == agentAt = "pulled" \/ (agentAt = "pull" /\ ~Pulling)

\* A whole frame is handled; of a request there is an answer to send.
ServeFrame ==
  /\ TickOver /\ FrameLen(rx) > 0
  /\ rx' = FromHeader(rx) /\ rxDone' = FrameLen(rx) /\ idleTicks' = 0
  /\ LET frame == rx'[1].frame
         whole == \A i \in 1..rxDone' : rx'[i].frame = frame /\ rx'[i].at = i
     IN served' = Append(served, [frame |-> frame, whole |-> whole])
  /\ agentAt' \in {"rest", "reply"} /\ pulls' = 0 /\ quietTicks' = 0
  /\ UNCHANGED <<line, driver, arrived, hurt>>

\* Part of a frame waits for the rest, or is given up.
KeepPartial ==
  /\ TickOver /\ FrameLen(rx) = 0
  /\ LET held == FromHeader(rx)
         waited == IF arrived \/ held = <<>> THEN 0 ELSE idleTicks + 1
         stale == waited >= StaleTicks
     IN /\ idleTicks' = IF stale THEN 0 ELSE waited
        /\ rx' = IF stale THEN <<>> ELSE held
        /\ quietTicks' = IF arrived THEN 0 ELSE Fewer(quietTicks + 1, StaleTicks)
        /\ hurt' = IF stale THEN hurt \cup {held[i].frame : i \in 1..Len(held)} ELSE hurt
  /\ agentAt' = "rest"
  /\ UNCHANGED <<line, driver, rxDone, pulls, arrived, served>>

\* Variant: only the first of two losses is told.
Fold_FirstOnly == UNCHANGED <<rxq, rxqLost, rxqBeforeLoss>>

\* ed64_send reads ahead what the PC has sent before it starts its write;
\* a second loss folds into the first, with what lay between them.
Fold == rxq' = SubSeq(rxq, 1, rxqBeforeLoss) /\ UNCHANGED <<rxqLost, rxqBeforeLoss>>
NoteLoss ==
  IF rxqLost THEN Fold
  ELSE rxqLost' = TRUE /\ rxqBeforeLoss' = Len(rxq) /\ UNCHANGED rxq

ReadAhead ==
  /\ agentAt = "reply"
  /\ \E r \in UsbReceive :
       /\ usb' = r.usb /\ rxPhase' = r.phase /\ rxqOff' = r.front
       /\ IF r.result = "lost" THEN NoteLoss
          ELSE rxq' = rxq \o r.message /\ UNCHANGED <<rxqLost, rxqBeforeLoss>>
       /\ pulls' = pulls + 1
       /\ agentAt' = IF r.result \in {"done", "lost"} /\ pulls' < ReadAheadMax THEN agentAt
                     ELSE "rest"
  /\ UNCHANGED <<writing, hurried, cutOff, damage, rx, rxDone, idleTicks, arrived, served,
                 quietTicks, hurt>>

-----------------------------------------------------------------------------
RxInit ==
  /\ writing = [frame |-> 0, sent |-> 0, of |-> 0] /\ usb = <<>>
  /\ rxPhase = "header" /\ rxqOff = 0 /\ rxq = <<>> /\ rxqLost = FALSE /\ rxqBeforeLoss = 0
  /\ rx = <<>> /\ rxDone = 0 /\ idleTicks = 0 /\ agentAt = "rest" /\ pulls = 0 /\ arrived = FALSE
  /\ served = <<>> /\ hurt = {} /\ hurried = {} /\ cutOff = FALSE
  /\ quietTicks = StaleTicks /\ damage = 0

RxNext ==
  \/ SendMessage \/ CutOff \/ SendOther
  \/ BeginTick \/ PullQueued \/ PullUsb \/ ServeFrame \/ KeepPartial \/ ReadAhead

RxSpec == RxInit /\ [][RxNext]_rxVars

-----------------------------------------------------------------------------
(* Properties.                                                             *)

\* Types; a message is put together inside s_rxq, behind what waits there
\* from rxqOff on; s_rx holds what it can; and a loss fell somewhere in the queue.
RxTypeOK ==
  /\ rxPhase \in {"header", "room", "payload"}
  /\ rxPhase # "header" => usb # <<>> /\ Head(usb).kind \in {"L3", "torn"}
  /\ rxqOff \in Nat
  /\ rxqOff + Len(rxq) + (IF rxPhase = "payload" THEN Len(Head(usb).cells) ELSE 0) <= RxqCap
  /\ rxqLost => rxqBeforeLoss \in 0..Len(rxq)
  /\ Len(rx) \in rxDone..RxCap /\ idleTicks \in 0..StaleTicks - 1
  /\ agentAt \in {"rest", "pull", "pulled", "reply"} /\ quietTicks \in 0..StaleTicks

\* The agent handles no request twice or out of order, whatever was damaged,
\* given up or read ahead.
ServedInOrder == \A i \in 2..Len(served) : served[i - 1].frame < served[i].frame

\* Also, a request the agent handles is one the PC sent, whole; but for one
\* that was cut off and followed before the agent had given it up
\* (AGENT_STREAM_STALE_TICKS), whose length the next one's bytes make up.
ServedWhole ==
  /\ \A i \in 1..Len(served) : served[i].whole \/ served[i].frame \in hurried
  /\ ServedInOrder

\* With nothing left to read, the agent has handled every request that
\* arrived undamaged, other than between two losses, which may be one to it.
UndamagedServed ==
  LET handled == {served[i].frame : i \in 1..Len(served)}
      Between(f) == \E g, h \in hurt : g < f /\ f < h
  IN /\ agentAt = "rest" /\ usb = <<>> /\ rxq = <<>> /\ FrameLen(Behind(rx, rxDone)) = 0
     /\ writing.sent = writing.of /\ hurried = {}
     => \A f \in 1..writing.frame \ hurt : f \in handled \/ Between(f)
=============================================================================
