---------------------------- MODULE StreamRxProofs ----------------------------
(***************************************************************************)
(* For any window, any sizes of the driver's queue and of the agent's      *)
(* buffer, and any requests: neither buffer is overrun, the mark of a loss *)
(* stays inside the queue, and the agent handles the requests in the order *)
(* in which the PC wrote them, none twice, and each as the PC sent it, but *)
(* for one cut off and followed too soon; and it passes over none that     *)
(* came undamaged, but between two that did not.                           *)
(***************************************************************************)
EXTENDS StreamRx, SequenceTheorems, WellFoundedInduction, TLAPS

Cell == [frame : Nat, at : Nat, of : Nat]
Message == [kind : {"L3", "unframed", "torn", "other"}, cells : Seq(Cell)]

Shapes ==
  /\ writing \in [frame : Nat, sent : Nat, of : Nat] /\ writing.sent <= writing.of
  /\ usb \in Seq(Message)
  /\ rxq \in Seq(Cell) /\ rxqLost \in BOOLEAN
  /\ rx \in Seq(Cell) /\ rxDone \in Nat
  /\ agentAt \in {"pull", "pulled"} => rxDone = 0

Bounded == RxTypeOK /\ Shapes

\* The lesser of two numbers.
LEMMA FewerIs ==
  ASSUME NEW a \in Nat, NEW b \in Nat
  PROVE  Fewer(a, b) \in Nat /\ Fewer(a, b) <= a /\ Fewer(a, b) <= b
  BY DEF Fewer

\* What is left of a sequence without its first n elements.
LEMMA BehindIs ==
  ASSUME NEW S, NEW s \in Seq(S), NEW n \in 0..Len(s)
  PROVE  /\ Behind(s, n) \in Seq(S)
         /\ Len(Behind(s, n)) = Len(s) - n
         /\ \A i \in 1..Len(s) - n : Behind(s, n)[i] = s[n + i]
  <1>1. \A i \in n + 1..Len(s) : s[i] \in S
    BY ElementOfSeq
  <1>2. Len(s) \in Nat
    OBVIOUS
  <1> QED  BY <1>1, <1>2, SubSeqProperties DEF Behind

\* The first n elements.
LEMMA UpToIs ==
  ASSUME NEW S, NEW s \in Seq(S), NEW n \in 0..Len(s)
  PROVE  /\ SubSeq(s, 1, n) \in Seq(S)
         /\ Len(SubSeq(s, 1, n)) = n
         /\ \A i \in 1..n : SubSeq(s, 1, n)[i] = s[i]
  <1>1. \A i \in 1..n : s[i] \in S
    BY ElementOfSeq
  <1> QED  BY <1>1, SubSeqProperties

\* A set of numbers that is not empty has a least one.
LEMMA LeastIs ==
  ASSUME NEW I, I \subseteq Nat, I # {}
  PROVE  Min(I) \in I /\ \A y \in I : Min(I) <= y
  <1> DEFINE Less == {ss \in Nat \X Nat : ss[1] < ss[2]}
  <1>1. IsWellFoundedOn(Less, Nat)
    BY NatLessThanWellFounded, Zenon DEF OpToRel
  <1> HIDE DEF Less
  <1>2. PICK x \in I : \A y \in I : ~ (<<y, x>> \in Less)
    BY <1>1, WFMin
  <1>3. ASSUME NEW y \in I PROVE x =< y
    <2>1. y \in Nat /\ x \in Nat
      OBVIOUS
    <2>2. y < x => <<y, x>> \in Less
      BY <2>1 DEF Less
    <2> QED  BY <1>2, <2>1, <2>2
  <1> QED  BY <1>3 DEF Min

\* What is kept of the bytes held begins with a header, or is nothing.
LEMMA HeldIs ==
  ASSUME NEW cells \in Seq(Cell)
  PROVE  \/ FromHeader(cells) = <<>>
         \/ \E n \in 1..Len(cells) :
              FromHeader(cells) = Behind(cells, n - 1) /\ cells[n].at = 1
              /\ cells[n].of <= RxCap
  <1> DEFINE Header(c) == c.at = 1 /\ c.of <= RxCap
             I == {i \in 1..Len(cells) : Header(cells[i])}
             first == SelectInSeq(cells, Header)
  <1>1. FromHeader(cells) = IF first = 0 THEN <<>> ELSE Behind(cells, first - 1)
    BY Zenon DEF FromHeader
  <1>2. first = IF I # {} THEN Min(I) ELSE 0
    BY Zenon DEF SelectInSeq
  <1>3. I \subseteq Nat
    OBVIOUS
  <1>4. I # {} => Min(I) \in I
    BY <1>3, LeastIs
  <1> HIDE DEF first
  <1>5. CASE I = {}
    BY <1>1, <1>2, <1>5
  <1>6. CASE I # {}
    BY <1>1, <1>2, <1>4, <1>6
  <1> QED  BY <1>5, <1>6

LEMMA HeldTypes ==
  ASSUME NEW cells \in Seq(Cell)
  PROVE  FromHeader(cells) \in Seq(Cell) /\ Len(FromHeader(cells)) <= Len(cells)
  <1>1. \A n \in 1..Len(cells) :
          /\ Behind(cells, n - 1) \in Seq(Cell)
          /\ Len(Behind(cells, n - 1)) <= Len(cells)
    <2>1. \A n \in 1..Len(cells) : n - 1 \in 0..Len(cells)
      OBVIOUS
    <2> QED  BY <2>1, BehindIs
  <1>2. <<>> \in Seq(Cell) /\ Len(<<>>) = 0
    BY EmptySeq
  <1>3. Len(cells) \in Nat
    OBVIOUS
  <1>4. CASE FromHeader(cells) = <<>>
    BY <1>2, <1>3, <1>4
  <1>5. CASE FromHeader(cells) # <<>>
    <2>1. PICK n \in 1..Len(cells) : FromHeader(cells) = Behind(cells, n - 1)
      BY <1>5, HeldIs
    <2> QED  BY <1>1, <2>1
  <1> QED  BY <1>4, <1>5

LEMMA FrameLenIs ==
  ASSUME NEW cells \in Seq(Cell)
  PROVE  FrameLen(cells) \in 0..Len(FromHeader(cells))
  <1>1. FromHeader(cells) \in Seq(Cell)
    BY HeldTypes
  <1>2. CASE FromHeader(cells) = <<>>
    BY <1>1, <1>2 DEF FrameLen
  <1>3. CASE FromHeader(cells) # <<>>
    <2>1. FromHeader(cells)[1] \in Cell
      BY <1>1, <1>3
    <2> QED  BY <1>1, <2>1 DEF FrameLen, Cell
  <1> QED  BY <1>2, <1>3

\* What a call of the driver may come to: a message leaves the cart or stays,
\* and one that is put together has room in s_rxq.
LEMMA UsbReceiveIs ==
  ASSUME Bounded, NEW r \in UsbReceive
  PROVE  /\ \/ r.usb = usb /\ r.message = <<>>
            \/ /\ usb # <<>> /\ r.usb = Tail(usb) /\ r.phase = "header"
               /\ r.message \in {<<>>, Head(usb).cells}
         /\ r.phase \in {"header", "room", "payload"}
         /\ r.phase # "header" => usb # <<>> /\ Head(usb).kind \in {"L3", "torn"}
         /\ r.message \in Seq(Cell)
         /\ r.front \in Nat
         /\ r.front + Len(rxq) + Len(r.message) <= RxqCap
         /\ r.phase = "payload" => r.front + Len(rxq) + Len(Head(usb).cells) <= RxqCap
  <1> DEFINE Outcome(result, left, phase, front, message) ==
               [result |-> result, usb |-> left, phase |-> phase, front |-> front,
                message |-> message]
             stopped == Outcome("busy", usb, rxPhase, rxqOff, <<>>)
             Is(left, phase, front, message) ==
               r.usb = left /\ r.phase = phase /\ r.front = front /\ r.message = message
  <1>1. <<>> \in Seq(Cell) /\ Len(<<>>) = 0
    BY EmptySeq
  <1>2. /\ Len(rxq) \in Nat /\ RxqCap \in Nat /\ rxqOff \in Nat
        /\ usb \in Seq(Message) /\ rxPhase \in {"header", "room", "payload"}
    BY SizesAssumption DEF Bounded, RxTypeOK, Shapes
  <1>3. usb # <<>> => /\ Head(usb).cells \in Seq(Cell) /\ Len(Head(usb).cells) \in Nat
                      /\ Head(usb).kind \in {"L3", "unframed", "torn", "other"}
    <2>1. usb # <<>> => Head(usb) \in Message
      BY <1>2
    <2> QED  BY <2>1 DEF Message
  <1>4. /\ rxPhase # "header" => usb # <<>> /\ Head(usb).kind \in {"L3", "torn"}
        /\ rxPhase = "payload" => rxqOff + Len(rxq) + Len(Head(usb).cells) <= RxqCap
        /\ rxqOff + Len(rxq) <= RxqCap
    <2> DEFINE more == IF rxPhase = "payload" THEN Len(Head(usb).cells) ELSE 0
    <2>1. /\ rxPhase # "header" => usb # <<>> /\ Head(usb).kind \in {"L3", "torn"}
          /\ rxqOff + Len(rxq) + more <= RxqCap
      BY DEF Bounded, RxTypeOK
    <2>2. more \in Nat
      BY <1>3, <2>1
    <2>3. rxPhase = "payload" => more = Len(Head(usb).cells)
      OBVIOUS
    <2> HIDE DEF more
    <2>4. rxqOff + Len(rxq) <= RxqCap
      BY <1>2, <2>1, <2>2
    <2> QED  BY <2>1, <2>3, <2>4
  <1> DEFINE clear == Outcome("clear", usb, "header", rxqOff, <<>>)
             unframed == Outcome("lost", Tail(usb), "header", rxqOff, <<>>)
             other == Outcome("done", Tail(usb), "header", rxqOff, <<>>)
             full == Outcome("full", usb, "room", 0, <<>>)
             part == Outcome("busy", usb, "payload", RxqFront, <<>>)
             torn == Outcome("lost", Tail(usb), "header", RxqFront, <<>>)
             done == Outcome("done", Tail(usb), "header", RxqFront, Head(usb).cells)
             kind == Head(usb).kind
  <1>5. UsbReceive =
          {stopped} \cup
          IF usb = <<>> THEN {clear}
          ELSE CASE kind = "unframed" -> {unframed}
                 [] kind = "other" -> {other}
                 [] kind \in {"L3", "torn"} /\ rxPhase # "payload" /\ ~RxqRoom -> {full}
                 [] OTHER -> {part, IF kind = "torn" THEN torn ELSE done}
    BY Zenon DEF UsbReceive
  <1>6. /\ r = stopped => Is(usb, rxPhase, rxqOff, <<>>)
        /\ r = clear => Is(usb, "header", rxqOff, <<>>)
        /\ r \in {unframed, other} => Is(Tail(usb), "header", rxqOff, <<>>)
        /\ r = full => Is(usb, "room", 0, <<>>)
        /\ r = part => Is(usb, "payload", RxqFront, <<>>)
        /\ r = torn => Is(Tail(usb), "header", RxqFront, <<>>)
        /\ r = done => Is(Tail(usb), "header", RxqFront, Head(usb).cells)
    OBVIOUS
  <1> HIDE DEF stopped, clear, unframed, other, full, part, torn, done, Outcome
  <1> DEFINE Fits == RxqFront \in Nat /\ RxqFront + Len(rxq) + Len(Head(usb).cells) <= RxqCap
             Ours == usb # <<>> /\ kind \in {"L3", "torn"}
             Came == \/ Is(usb, rxPhase, rxqOff, <<>>)
                     \/ Is(usb, "header", rxqOff, <<>>)
                     \/ usb # <<>> /\ Is(Tail(usb), "header", rxqOff, <<>>)
                     \/ Ours /\ Is(usb, "room", 0, <<>>)
                     \/ Ours /\ Fits /\ Is(usb, "payload", RxqFront, <<>>)
                     \/ Ours /\ Fits /\ Is(Tail(usb), "header", RxqFront, <<>>)
                     \/ Ours /\ Fits /\ Is(Tail(usb), "header", RxqFront, Head(usb).cells)
  <1>7. Came
    <2>1. CASE r = stopped \/ usb = <<>>
      <3>1. r \in {stopped, clear}
        BY <1>5, <2>1
      <3> QED  BY <1>6, <3>1
    <2>2. CASE r # stopped /\ usb # <<>> /\ kind \in {"unframed", "other"}
      <3>1. r \in {unframed, other}
        <4>1. CASE kind = "unframed"
          BY <1>5, <2>2, <4>1
        <4>2. CASE kind = "other"
          BY <1>5, <2>2, <4>2
        <4> QED  BY <2>2, <4>1, <4>2
      <3> QED  BY <1>6, <2>2, <3>1
    <2>3. CASE r # stopped /\ Ours /\ rxPhase # "payload" /\ ~RxqRoom
      <3>1. r = full
        BY <1>5, <2>3
      <3> QED  BY <1>6, <2>3, <3>1
    <2>4. CASE r # stopped /\ Ours /\ (rxPhase = "payload" \/ RxqRoom)
      <3>1. Fits
        <4>1. CASE rxPhase = "payload"
          BY <1>2, <1>4, <4>1 DEF RxqFront
        <4>2. CASE rxPhase # "payload"
          <5>1. RxqFront = 0 /\ Len(Head(usb).cells) <= RxqCap - Len(rxq)
            BY <2>4, <4>2 DEF RxqFront, RxqRoom
          <5>2. Len(Head(usb).cells) \in Nat
            BY <1>3, <2>4
          <5> QED  BY <1>2, <5>1, <5>2
        <4> QED  BY <4>1, <4>2
      <3>2. r \in {part, torn, done}
        <4>1. r \in {part, IF kind = "torn" THEN torn ELSE done}
          BY <1>5, <2>4, Zenon
        <4> QED  BY <4>1
      <3> QED  BY <1>6, <2>4, <3>1, <3>2
    <2> QED  BY <1>3, <2>1, <2>2, <2>3, <2>4
  <1>8. Fits /\ usb # <<>> => RxqFront + Len(rxq) <= RxqCap
    <2>1. \A a, b, c, d \in Nat : a + b + c <= d => a + b <= d
      OBVIOUS
    <2>2. usb # <<>> => Len(Head(usb).cells) \in Nat
      BY <1>3
    <2> QED  BY <1>2, <2>1, <2>2
  <1>9. Len(rxq) <= RxqCap
    BY <1>2, <1>4
  <1>10. \/ r.usb = usb /\ r.message = <<>>
         \/ /\ usb # <<>> /\ r.usb = Tail(usb) /\ r.phase = "header"
            /\ r.message \in {<<>>, Head(usb).cells}
    BY <1>7
  <1>11. /\ r.phase \in {"header", "room", "payload"}
         /\ r.phase # "header" => usb # <<>> /\ Head(usb).kind \in {"L3", "torn"}
    BY <1>2, <1>4, <1>7
  <1>12. r.message \in Seq(Cell)
    BY <1>1, <1>3, <1>7
  <1>13. r.front \in Nat
    BY <1>2, <1>7, SMTT(30)
  <1>14. r.phase = "payload" => r.front + Len(rxq) + Len(Head(usb).cells) <= RxqCap
    BY <1>4, <1>7
  <1>15. r.front + Len(rxq) + Len(r.message) <= RxqCap
    <2>1. CASE r.message = <<>>
      <3>1. r.front \in {rxqOff, 0} \/ (Fits /\ usb # <<>> /\ r.front = RxqFront)
        BY <1>7
      <3>2. r.front + Len(rxq) <= RxqCap
        <4>1. r.front = rxqOff => r.front + Len(rxq) <= RxqCap
          BY <1>4
        <4>2. r.front = 0 => r.front + Len(rxq) <= RxqCap
          BY <1>2, <1>9
        <4>3. Fits /\ usb # <<>> /\ r.front = RxqFront => r.front + Len(rxq) <= RxqCap
          BY <1>8
        <4> QED  BY <3>1, <4>1, <4>2, <4>3
      <3> QED  BY <1>1, <1>2, <1>13, <2>1, <3>2
    <2>2. CASE r.message # <<>>
      BY <1>7, <2>2
    <2> QED  BY <2>1, <2>2
  <1> QED  BY <1>10, <1>11, <1>12, <1>13, <1>14, <1>15

-----------------------------------------------------------------------------
(* Neither buffer is overrun: each action keeps Bounded.                   *)

\* What Bounded says of the line and the driver, and of the agent.
LineFits ==
  /\ rxPhase \in {"header", "room", "payload"}
  /\ rxPhase # "header" => usb # <<>> /\ Head(usb).kind \in {"L3", "torn"}
  /\ rxqOff \in Nat
  /\ rxqOff + Len(rxq) + (IF rxPhase = "payload" THEN Len(Head(usb).cells) ELSE 0) <= RxqCap
  /\ usb \in Seq(Message) /\ rxq \in Seq(Cell)
Marked == rxqLost \in BOOLEAN /\ (rxqLost => rxqBeforeLoss \in 0..Len(rxq))
RxFits ==
  /\ rx \in Seq(Cell) /\ rxDone \in Nat /\ Len(rx) \in rxDone..RxCap
  /\ agentAt \in {"rest", "pull", "pulled", "reply"}
  /\ agentAt \in {"pull", "pulled"} => rxDone = 0
Counts == idleTicks \in 0..StaleTicks - 1 /\ quietTicks \in 0..StaleTicks
Written == writing \in [frame : Nat, sent : Nat, of : Nat] /\ writing.sent <= writing.of

LEMMA BoundedParts == Bounded <=> LineFits /\ Marked /\ RxFits /\ Counts /\ Written
  BY DEF Bounded, RxTypeOK, Shapes, LineFits, Marked, RxFits, Counts, Written

LEMMA BoundedPartsNext ==
  Bounded' <=> LineFits' /\ Marked' /\ RxFits' /\ Counts' /\ Written'
  BY DEF Bounded, RxTypeOK, Shapes, LineFits, Marked, RxFits, Counts, Written

LEMMA BoundedInit == RxInit => Bounded
  <1> SUFFICES ASSUME RxInit PROVE Bounded
    OBVIOUS
  <1>1. /\ \A S : <<>> \in Seq(S)
        /\ Len(<<>>) = 0
    OBVIOUS
  <1>2. StaleTicks \in Nat \ {0} /\ RxCap \in Nat /\ RxqCap \in Nat
    BY SizesAssumption
  <1>3. LineFits
    <2>1. usb = <<>> /\ rxPhase = "header" /\ rxqOff = 0 /\ rxq = <<>>
      BY DEF RxInit
    <2>2. rxqOff + Len(rxq) + (IF rxPhase = "payload" THEN Len(Head(usb).cells) ELSE 0) = 0
      BY <1>1, <2>1
    <2> QED  BY <1>1, <1>2, <2>1, <2>2 DEF LineFits
  <1>4. Marked /\ RxFits
    <2>1. Marked
      BY DEF RxInit, Marked
    <2>2. rx = <<>> /\ rxDone = 0 /\ agentAt = "rest"
      BY DEF RxInit
    <2> QED  BY <1>1, <1>2, <2>1, <2>2 DEF RxFits
  <1>5. Counts /\ Written
    BY <1>2 DEF RxInit, Counts, Written
  <1> QED  BY <1>3, <1>4, <1>5, BoundedParts

\* A message that joins those in the cart leaves the driver's place in the first.
LEMMA JoinsUsb ==
  ASSUME LineFits, NEW m \in Message, usb' = Append(usb, m), UNCHANGED driver
  PROVE  LineFits'
  <1>1. usb' \in Seq(Message)
    BY DEF LineFits
  <1>2. usb # <<>> => usb' # <<>> /\ Head(usb') = Head(usb)
    <2>1. ASSUME usb # <<>> PROVE usb' # <<>> /\ usb'[1] = usb[1]
      <3>1. usb \in Seq(Message) /\ Len(usb) \in Nat /\ Len(usb) # 0
        BY <2>1 DEF LineFits
      <3> QED  BY <3>1, AppendProperties
    <2> QED  BY <2>1
  <1>3. UNCHANGED <<rxPhase, rxqOff, rxq>>
    BY DEF driver
  <1>4. rxPhase # "header" => Head(usb') = Head(usb) /\ usb' # <<>>
    BY <1>2 DEF LineFits
  <1>5. (IF rxPhase' = "payload" THEN Len(Head(usb').cells) ELSE 0)
        = (IF rxPhase = "payload" THEN Len(Head(usb).cells) ELSE 0)
    BY <1>3, <1>4
  <1>6. /\ rxPhase' \in {"header", "room", "payload"}
        /\ rxPhase' # "header" => usb' # <<>> /\ Head(usb').kind \in {"L3", "torn"}
        /\ rxqOff' \in Nat /\ rxq' \in Seq(Cell)
    BY <1>3, <1>4 DEF LineFits
  <1>7. rxqOff' + Len(rxq') + (IF rxPhase' = "payload" THEN Len(Head(usb').cells) ELSE 0)
          <= RxqCap
    BY <1>3, <1>5, Zenon DEF LineFits
  <1> QED  BY <1>1, <1>6, <1>7, Zenon DEF LineFits

LEMMA BoundedLine ==
  ASSUME Bounded, SendMessage \/ CutOff \/ SendOther
  PROVE  Bounded'
  <1>1. LineFits /\ Marked /\ RxFits /\ Counts /\ Written
    BY BoundedParts
  <1>2. CASE SendMessage
    <2>1. PICK kind \in {"L3", "unframed", "torn"},
               w \in IF writing.sent < writing.of THEN {writing}
                     ELSE [frame : {writing.frame + 1} \cap 1..MaxFrames, sent : {0}, of : Lengths] :
            LET upTo == Fewer(w.sent + Window, w.of)
            IN /\ writing' = [w EXCEPT !.sent = upTo]
               /\ usb' = Append(usb, [kind |-> kind, cells |-> Cells(w.frame, w.sent, upTo, w.of)])
               /\ UNCHANGED <<driver, agentRx>>
      BY <1>2, Zenon DEF SendMessage
    <2> DEFINE upTo == Fewer(w.sent + Window, w.of)
    <2>2. /\ w \in [frame : Nat, sent : Nat, of : Nat] /\ w.sent <= w.of
          /\ Window \in Nat
      <3>1. Lengths \subseteq Nat /\ Window \in Nat /\ MaxFrames \in Nat
        BY SizesAssumption
      <3>2. CASE writing.sent < writing.of
        BY <1>1, <2>1, <3>1, <3>2 DEF Written
      <3>3. CASE ~(writing.sent < writing.of)
        BY <1>1, <2>1, <3>1, <3>3 DEF Written
      <3> QED  BY <3>2, <3>3
    <2>3. upTo \in Nat /\ upTo <= w.of /\ w.sent <= upTo
      BY <2>2 DEF Fewer
    <2>4. Cells(w.frame, w.sent, upTo, w.of) \in Seq(Cell)
      <3>1. upTo - w.sent \in Nat
        BY <2>2, <2>3
      <3>2. \A i \in 1..(upTo - w.sent) :
              [frame |-> w.frame, at |-> w.sent + i, of |-> w.of] \in Cell
        BY <2>2, <3>1 DEF Cell
      <3> QED  BY <3>1, <3>2, IsASeq DEF Cells
    <2>5. LineFits'
      BY <1>1, <2>1, <2>4, JoinsUsb DEF Message
    <2>6. Written'
      BY <2>1, <2>2, <2>3 DEF Written
    <2>7. Marked' /\ RxFits' /\ Counts'
      BY <1>1, <2>1 DEF Marked, RxFits, Counts, driver, agentRx
    <2> QED  BY <2>5, <2>6, <2>7, BoundedPartsNext
  <1>3. CASE CutOff
    <2>1. LineFits' /\ Marked' /\ RxFits' /\ Counts'
      BY <1>1, <1>3 DEF CutOff, LineFits, Marked, RxFits, Counts, driver, agentRx
    <2>2. Written'
      BY <1>1, <1>3 DEF CutOff, Written
    <2> QED  BY <2>1, <2>2, BoundedPartsNext
  <1>4. CASE SendOther
    <2>1. [kind |-> "other", cells |-> <<>>] \in Message
      BY EmptySeq DEF Message
    <2>2. LineFits'
      BY <1>1, <1>4, <2>1, JoinsUsb DEF SendOther
    <2>3. Marked' /\ RxFits' /\ Counts' /\ Written'
      BY <1>1, <1>4 DEF SendOther, Marked, RxFits, Counts, Written, driver, agentRx
    <2> QED  BY <2>2, <2>3, BoundedPartsNext
  <1> QED  BY <1>2, <1>3, <1>4

\* A hand-over takes bytes of the queue, up to the mark of a loss.
LEMMA GivenIs ==
  ASSUME NEW q \in Seq(Cell), NEW space \in Nat, Marked, rxqLost => q = rxq
  PROVE  /\ Given(q, space) \in 0..Len(q) /\ Given(q, space) <= space
         /\ rxqLost => Given(q, space) <= rxqBeforeLoss
  <1>1. Len(q) \in Nat
    OBVIOUS
  <1>2. CASE rxqLost
    <2>1. rxqBeforeLoss \in Nat /\ rxqBeforeLoss <= Len(q)
      BY <1>1, <1>2 DEF Marked
    <2>2. Given(q, space) = Fewer(space, rxqBeforeLoss)
      BY <1>2 DEF Given
    <2>3. /\ Given(q, space) \in Nat /\ Given(q, space) <= space
          /\ Given(q, space) <= rxqBeforeLoss
      BY <2>1, <2>2, FewerIs
    <2> QED  BY <1>1, <2>1, <2>3
  <1>3. CASE ~rxqLost
    <2>1. Given(q, space) = Fewer(space, Len(q))
      BY <1>3 DEF Given
    <2>2. /\ Given(q, space) \in Nat /\ Given(q, space) <= space
          /\ Given(q, space) <= Len(q)
      BY <1>1, <2>1, FewerIs
    <2> QED  BY <1>1, <1>3, <2>2
  <1> QED  BY <1>2, <1>3

\* What the agent held and what it got fit in s_rx.
LEMMA JoinsRx ==
  ASSUME RxFits, rxDone = 0, NEW q \in Seq(Cell), NEW n \in 0..Len(q),
         n <= RxCap - Len(FromHeader(rx)), rxDone' = rxDone,
         rx' = FromHeader(rx) \o SubSeq(q, 1, n), agentAt' \in {"pull", "pulled"}
  PROVE  RxFits'
  <1>1. /\ FromHeader(rx) \in Seq(Cell) /\ Len(FromHeader(rx)) \in Nat
        /\ RxCap \in Nat
    BY HeldTypes, SizesAssumption DEF RxFits
  <1>2. SubSeq(q, 1, n) \in Seq(Cell) /\ Len(SubSeq(q, 1, n)) = n
    BY UpToIs
  <1>3. rx' \in Seq(Cell) /\ Len(rx') = Len(FromHeader(rx)) + n
    BY <1>1, <1>2, ConcatProperties
  <1> QED  BY <1>1, <1>3 DEF RxFits

LEMMA BoundedTick ==
  ASSUME Bounded, BeginTick
  PROVE  Bounded'
  <1>1. LineFits /\ Marked /\ RxFits /\ Counts /\ Written
    BY BoundedParts
  <1>2. LineFits' /\ Marked' /\ Written'
    BY <1>1 DEF BeginTick, LineFits, Marked, Written, line, driver
  <1>3. RxFits'
    <2>1. rxDone \in 0..Len(rx) /\ Len(rx) \in Nat /\ RxCap \in Nat
      BY <1>1, SizesAssumption DEF RxFits
    <2>2. Behind(rx, rxDone) \in Seq(Cell) /\ Len(Behind(rx, rxDone)) = Len(rx) - rxDone
      BY <1>1, <2>1, BehindIs DEF RxFits
    <2>3. rx' = Behind(rx, rxDone) /\ rxDone' = 0 /\ agentAt' = "pull"
      BY DEF BeginTick
    <2> QED  BY <1>1, <2>1, <2>2, <2>3 DEF RxFits
  <1>4. Counts'
    BY <1>1 DEF BeginTick, Counts
  <1> QED  BY <1>2, <1>3, <1>4, BoundedPartsNext

LEMMA HeldRoom ==
  ASSUME RxFits
  PROVE  /\ FromHeader(rx) \in Seq(Cell) /\ Len(FromHeader(rx)) <= Len(rx)
         /\ RxCap - Len(FromHeader(rx)) \in Nat
  <1>1. FromHeader(rx) \in Seq(Cell) /\ Len(FromHeader(rx)) <= Len(rx)
    BY HeldTypes DEF RxFits
  <1>2. Len(FromHeader(rx)) \in Nat /\ Len(rx) \in Nat /\ Len(rx) <= RxCap /\ RxCap \in Nat
    BY <1>1, SizesAssumption DEF RxFits
  <1> QED  BY <1>1, <1>2

LEMMA EmptyRx ==
  ASSUME RxFits, rxDone = 0, rxDone' = 0, rx' = <<>>,
         agentAt' \in {"rest", "pull", "pulled", "reply"}
  PROVE  RxFits'
  BY EmptySeq, SizesAssumption DEF RxFits

LEMMA BoundedQueued ==
  ASSUME Bounded, PullQueued
  PROVE  Bounded'
  <1>1. LineFits /\ Marked /\ RxFits /\ Counts /\ Written
    BY BoundedParts
  <1>2. /\ rxDone = 0 /\ agentAt = "pull" /\ rxDone' = rxDone /\ rxPhase' = rxPhase
        /\ usb' = usb /\ writing' = writing /\ idleTicks' = idleTicks
    BY <1>1 DEF PullQueued, Pulling, RxFits, line
  <1>3. Written'
    BY <1>1, <1>2 DEF Written
  <1>4. Counts'
    BY <1>1, <1>2, SizesAssumption DEF PullQueued, Counts, Arrives, NoneArrives
  <1>5. CASE rxqLost /\ rxqBeforeLoss = 0
    <2>1. /\ rxqLost' = FALSE /\ rx' = <<>> /\ agentAt' = "pulled"
          /\ UNCHANGED <<rxq, rxqOff, rxqBeforeLoss>>
      BY <1>5 DEF PullQueued, LostOnTheWay
    <2>2. LineFits' /\ Marked'
      BY <1>1, <1>2, <2>1 DEF LineFits, Marked
    <2>3. RxFits'
      BY <1>1, <1>2, <2>1, EmptyRx
    <2> QED  BY <1>3, <1>4, <2>2, <2>3, BoundedPartsNext
  <1>6. CASE ~(rxqLost /\ rxqBeforeLoss = 0)
    <2> DEFINE n == Given(rxq, RxCap - Len(FromHeader(rx)))
    <2>1. /\ HandOver(rxq, rxqOff, n) /\ rx' = FromHeader(rx) \o SubSeq(rxq, 1, n)
          /\ rxqLost' = rxqLost /\ agentAt' = agentAt
      BY <1>6 DEF PullQueued
    <2>2. RxCap - Len(FromHeader(rx)) \in Nat
      BY <1>1, HeldRoom
    <2>3. /\ n \in 0..Len(rxq) /\ n <= RxCap - Len(FromHeader(rx))
          /\ rxqLost => n <= rxqBeforeLoss
      BY <1>1, <2>2, GivenIs DEF LineFits
    <2> HIDE DEF n
    <2>4. rxq' \in Seq(Cell) /\ Len(rxq') = Len(rxq) - n /\ rxqOff' = rxqOff + n
      BY <1>1, <2>1, <2>3, BehindIs DEF HandOver, LineFits
    <2>5. Len(rxq) \in Nat
      BY <1>1 DEF LineFits
    <2>6. LineFits'
      <3>1. rxqOff' \in Nat
        BY <1>1, <2>3, <2>4 DEF LineFits
      <3>2. rxqOff' + Len(rxq') = rxqOff + Len(rxq)
        BY <1>1, <2>3, <2>4, <2>5 DEF LineFits
      <3> QED  BY <1>1, <1>2, <2>4, <3>1, <3>2, Zenon DEF LineFits
    <2>7. Marked'
      BY <1>1, <2>1, <2>3, <2>4, <2>5 DEF Marked, HandOver
    <2>8. RxFits'
      BY <1>1, <1>2, <2>1, <2>3, JoinsRx DEF LineFits
    <2> QED  BY <1>3, <1>4, <2>6, <2>7, <2>8, BoundedPartsNext
  <1> QED  BY <1>5, <1>6

\* What the driver does with the outcome of a call keeps its buffer's bounds.
LEMMA DriverFits ==
  ASSUME Bounded, NEW r \in UsbReceive, usb' = r.usb, rxPhase' = r.phase,
         rxq' \in Seq(Cell), rxqOff' \in Nat,
         rxqOff' + Len(rxq') <= r.front + Len(rxq) + Len(r.message),
         r.phase = "payload" => rxqOff' + Len(rxq') <= r.front + Len(rxq)
  PROVE  LineFits'
  <1>1. LineFits
    BY BoundedParts
  <1>2. Len(rxq') \in Nat /\ Len(rxq) \in Nat /\ RxqCap \in Nat /\ Len(r.message) \in Nat
    BY <1>1, UsbReceiveIs, SizesAssumption DEF LineFits
  <1>3. usb' \in Seq(Message)
    <2>1. usb # <<>> => Tail(usb) \in Seq(Message)
      BY <1>1, HeadTailProperties DEF LineFits
    <2> QED  BY <1>1, <2>1, UsbReceiveIs DEF LineFits
  <1>4. /\ rxPhase' \in {"header", "room", "payload"}
        /\ rxPhase' # "header" =>
             usb' = usb /\ usb # <<>> /\ Head(usb).kind \in {"L3", "torn"}
    BY UsbReceiveIs
  <1>5. r.front \in Nat /\ r.front + Len(rxq) + Len(r.message) <= RxqCap
    BY UsbReceiveIs
  <1>6. CASE rxPhase' # "payload"
    <2>1. rxqOff' + Len(rxq') <= RxqCap
      BY <1>2, <1>5
    <2>2. (IF rxPhase' = "payload" THEN Len(Head(usb').cells) ELSE 0) = 0
      BY <1>6
    <2>3. rxqOff' + Len(rxq') + 0 = rxqOff' + Len(rxq')
      BY <1>2
    <2>4. rxqOff' + Len(rxq') + (IF rxPhase' = "payload" THEN Len(Head(usb').cells) ELSE 0)
            <= RxqCap
      BY <2>1, <2>2, <2>3, Zenon
    <2> QED  BY <1>3, <1>4, <1>6, <2>4, Zenon DEF LineFits
  <1>7. CASE rxPhase' = "payload"
    <2>1. Head(usb).cells \in Seq(Cell)
      <3>1. Head(usb) \in Message
        BY <1>1, <1>4, <1>7 DEF LineFits
      <3> QED  BY <3>1 DEF Message
    <2>2. Len(Head(usb).cells) \in Nat
      BY <2>1
    <2>3. r.front + Len(rxq) + Len(Head(usb).cells) <= RxqCap
      BY <1>7, UsbReceiveIs
    <2>4. rxqOff' + Len(rxq') <= r.front + Len(rxq)
      BY <1>7
    <2>5. \A a, b, c, d, e, g \in Nat : a + b <= c + d /\ c + d + e <= g => a + b + e <= g
      OBVIOUS
    <2>6. rxqOff' + Len(rxq') + Len(Head(usb).cells) <= RxqCap
      BY <1>2, <1>5, <2>2, <2>3, <2>4, <2>5
    <2>7. rxqOff' + Len(rxq') + (IF rxPhase' = "payload" THEN Len(Head(usb').cells) ELSE 0)
            <= RxqCap
      BY <1>4, <1>7, <2>6
    <2> QED  BY <1>3, <1>4, <1>7, <2>7, Zenon DEF LineFits
  <1> QED  BY <1>6, <1>7

LEMMA BoundedUsb ==
  ASSUME Bounded, PullUsb
  PROVE  Bounded'
  <1>1. LineFits /\ Marked /\ RxFits /\ Counts /\ Written
    BY BoundedParts
  <1>2. /\ rxDone = 0 /\ agentAt = "pull" /\ rxDone' = rxDone /\ rxq = <<>> /\ ~rxqLost
        /\ writing' = writing /\ idleTicks' = idleTicks /\ rxqLost' = rxqLost
    BY <1>1 DEF PullUsb, Pulling, RxFits
  <1>3. PICK r \in UsbReceive :
          /\ usb' = r.usb /\ rxPhase' = r.phase
          /\ LET held == FromHeader(rx)
                 n == Given(r.message, RxCap - Len(held))
             IN /\ HandOver(r.message, r.front, n)
                /\ IF r.result = "lost" THEN LostOnTheWay /\ NoneArrives
                   ELSE IF n = 0
                        THEN rx' = held /\ agentAt' = "pulled" /\ NoneArrives
                        ELSE rx' = held \o SubSeq(r.message, 1, n) /\ Arrives
                             /\ UNCHANGED agentAt
    BY Zenon DEF PullUsb
  <1> DEFINE n == Given(r.message, RxCap - Len(FromHeader(rx)))
  <1>4. /\ r.message \in Seq(Cell) /\ r.front \in Nat /\ Len(r.message) \in Nat
        /\ r.phase = "payload" => r.message = <<>>
    BY UsbReceiveIs
  <1>5. RxCap - Len(FromHeader(rx)) \in Nat /\ FromHeader(rx) \in Seq(Cell)
    BY <1>1, HeldRoom
  <1>6. n \in 0..Len(r.message) /\ n <= RxCap - Len(FromHeader(rx))
    BY <1>1, <1>2, <1>4, <1>5, GivenIs
  <1>7. /\ HandOver(r.message, r.front, n)
        /\ \/ rx' = <<>> /\ agentAt' = "pulled" /\ NoneArrives
           \/ rx' = FromHeader(rx) /\ agentAt' = "pulled" /\ NoneArrives
           \/ rx' = FromHeader(rx) \o SubSeq(r.message, 1, n) /\ Arrives /\ agentAt' = agentAt
    BY <1>3 DEF LostOnTheWay
  <1> HIDE DEF n
  <1>8. Written'
    BY <1>1, <1>2 DEF Written
  <1>9. Counts'
    <2>1. quietTicks' \in {0, quietTicks}
      BY <1>7 DEF Arrives, NoneArrives
    <2>2. StaleTicks \in Nat \ {0}
      BY SizesAssumption
    <2>3. idleTicks' = idleTicks /\ idleTicks \in 0..StaleTicks - 1 /\ quietTicks \in 0..StaleTicks
      BY <1>1, <1>2 DEF Counts
    <2>4. 0 \in 0..StaleTicks
      BY <2>2
    <2> QED  BY <2>1, <2>3, <2>4 DEF Counts
  <1>10. Marked'
    BY <1>1, <1>2 DEF Marked
  <1>11. LineFits'
    <2>1. /\ rxq' \in Seq(Cell) /\ Len(rxq') = Len(r.message) - n
          /\ rxqOff' = r.front + n
      BY <1>4, <1>6, <1>7, BehindIs DEF HandOver
    <2>2. Len(rxq) = 0
      BY <1>2
    <2>3. rxqOff' \in Nat /\ rxqOff' + Len(rxq') = r.front + Len(r.message)
      BY <1>4, <1>6, <2>1
    <2>4. r.front + Len(rxq) + Len(r.message) = r.front + Len(r.message)
      BY <1>4, <2>2
    <2>5. r.phase = "payload" => rxqOff' + Len(rxq') <= r.front + Len(rxq)
      BY <1>4, <2>2, <2>3
    <2>6. rxqOff' + Len(rxq') <= r.front + Len(rxq) + Len(r.message)
      BY <1>4, <2>3, <2>4
    <2> QED  BY <1>3, <2>1, <2>3, <2>5, <2>6, DriverFits
  <1>12. RxFits'
    <2>1. CASE rx' = <<>> /\ agentAt' = "pulled"
      BY <1>1, <1>2, <2>1, EmptyRx
    <2>2. CASE rx' = FromHeader(rx) /\ agentAt' = "pulled"
      <3>1. Len(rx') \in 0..RxCap /\ rx' \in Seq(Cell)
        BY <1>1, <1>5, <2>2, HeldRoom, SizesAssumption DEF RxFits
      <3> QED  BY <1>1, <1>2, <2>2, <3>1 DEF RxFits
    <2>3. CASE rx' = FromHeader(rx) \o SubSeq(r.message, 1, n) /\ agentAt' = agentAt
      BY <1>1, <1>2, <1>4, <1>6, <2>3, JoinsRx
    <2> QED  BY <1>7, <2>1, <2>2, <2>3
  <1> QED  BY <1>8, <1>9, <1>10, <1>11, <1>12, BoundedPartsNext

LEMMA BoundedServe ==
  ASSUME Bounded, ServeFrame
  PROVE  Bounded'
  <1>1. LineFits /\ Marked /\ RxFits /\ Counts /\ Written
    BY BoundedParts
  <1>2. LineFits' /\ Marked' /\ Written'
    BY <1>1 DEF ServeFrame, LineFits, Marked, Written, line, driver
  <1>3. Counts'
    <2>1. StaleTicks \in Nat \ {0}
      BY SizesAssumption
    <2>2. quietTicks' \in 0..StaleTicks
      BY <2>1 DEF ServeFrame
    <2> QED  BY <2>1, <2>2 DEF ServeFrame, Counts
  <1>4. RxFits'
    <2>1. /\ rx' = FromHeader(rx) /\ rxDone' = FrameLen(rx)
          /\ agentAt' \in {"rest", "reply"}
      BY DEF ServeFrame
    <2>2. FromHeader(rx) \in Seq(Cell) /\ Len(FromHeader(rx)) <= RxCap
      BY <1>1, HeldRoom, SizesAssumption DEF RxFits
    <2>3. FrameLen(rx) \in 0..Len(FromHeader(rx))
      BY <1>1, FrameLenIs DEF RxFits
    <2> QED  BY <2>1, <2>2, <2>3, SizesAssumption DEF RxFits
  <1> QED  BY <1>2, <1>3, <1>4, BoundedPartsNext

LEMMA BoundedPartial ==
  ASSUME Bounded, KeepPartial
  PROVE  Bounded'
  <1>1. LineFits /\ Marked /\ RxFits /\ Counts /\ Written
    BY BoundedParts
  <1>2. LineFits' /\ Marked' /\ Written'
    BY <1>1 DEF KeepPartial, LineFits, Marked, Written, line, driver
  <1> DEFINE held == FromHeader(rx)
             waited == IF arrived \/ held = <<>> THEN 0 ELSE idleTicks + 1
  <1>3. /\ idleTicks' = (IF waited >= StaleTicks THEN 0 ELSE waited)
        /\ rx' \in {<<>>, held} /\ agentAt' = "rest" /\ rxDone' = rxDone
        /\ quietTicks' \in {0, Fewer(quietTicks + 1, StaleTicks)} /\ agentAt \in {"pull", "pulled"}
    BY DEF KeepPartial, TickOver
  <1>4. Counts'
    <2>1. StaleTicks \in Nat \ {0} /\ idleTicks \in Nat /\ quietTicks \in Nat
      BY <1>1, SizesAssumption DEF Counts
    <2>2. quietTicks' \in 0..StaleTicks
      BY <1>3, <2>1 DEF Fewer
    <2>3. idleTicks' \in 0..StaleTicks - 1
      <3>1. waited \in Nat
        BY <2>1
      <3> HIDE DEF waited
      <3> QED  BY <1>3, <2>1, <3>1
    <2> QED  BY <2>2, <2>3 DEF Counts
  <1>5. RxFits'
    <2>1. rxDone = 0
      BY <1>1, <1>3 DEF RxFits
    <2>2. rx' \in Seq(Cell) /\ Len(rx') \in 0..RxCap
      <3>1. held \in Seq(Cell) /\ Len(held) \in 0..RxCap /\ RxCap \in Nat
        BY <1>1, HeldRoom, SizesAssumption DEF RxFits
      <3>2. <<>> \in Seq(Cell) /\ Len(<<>>) = 0
        BY EmptySeq
      <3>3. CASE rx' = held
        BY <3>1, <3>3
      <3>4. CASE rx' = <<>>
        BY <3>1, <3>2, <3>4
      <3> QED  BY <1>3, <3>3, <3>4
    <2> QED  BY <1>3, <2>1, <2>2 DEF RxFits
  <1> QED  BY <1>2, <1>4, <1>5, BoundedPartsNext

LEMMA BoundedAhead ==
  ASSUME Bounded, ReadAhead
  PROVE  Bounded'
  <1>1. LineFits /\ Marked /\ RxFits /\ Counts /\ Written
    BY BoundedParts
  <1>2. PICK r \in UsbReceive :
          /\ usb' = r.usb /\ rxPhase' = r.phase /\ rxqOff' = r.front
          /\ IF r.result = "lost" THEN NoteLoss
             ELSE rxq' = rxq \o r.message /\ UNCHANGED <<rxqLost, rxqBeforeLoss>>
          /\ agentAt' \in {agentAt, "rest"}
    BY DEF ReadAhead
  <1>3. /\ agentAt = "reply" /\ UNCHANGED <<writing, rx, rxDone, idleTicks, quietTicks>>
    BY DEF ReadAhead
  <1>4. RxFits' /\ Counts' /\ Written'
    BY <1>1, <1>2, <1>3 DEF RxFits, Counts, Written
  <1>5. /\ r.message \in Seq(Cell) /\ r.front \in Nat /\ Len(r.message) \in Nat
        /\ r.phase = "payload" => r.message = <<>>
    BY UsbReceiveIs
  <1>6. rxq \in Seq(Cell) /\ Len(rxq) \in Nat
    BY <1>1 DEF LineFits
  <1>7. CASE rxq' = rxq \o r.message /\ UNCHANGED <<rxqLost, rxqBeforeLoss>>
    <2>1. rxq' \in Seq(Cell) /\ Len(rxq') = Len(rxq) + Len(r.message)
      BY <1>5, <1>6, <1>7, ConcatProperties
    <2>2. Marked'
      BY <1>1, <1>5, <1>6, <1>7, <2>1 DEF Marked
    <2>3. r.phase = "payload" => Len(rxq') = Len(rxq)
      BY <1>5, <1>6, <2>1
    <2>4. /\ r.front + Len(rxq') <= r.front + Len(rxq) + Len(r.message)
          /\ r.phase = "payload" => r.front + Len(rxq') <= r.front + Len(rxq)
      BY <1>5, <1>6, <2>1, <2>3
    <2>5. LineFits'
      BY <1>2, <1>5, <2>1, <2>4, DriverFits
    <2> QED  BY <1>4, <2>2, <2>5, BoundedPartsNext
  <1>8. CASE NoteLoss
    <2>1. CASE rxqLost
      <3>1. rxqBeforeLoss \in 0..Len(rxq)
        BY <1>1, <2>1 DEF Marked
      <3>2. /\ rxq' = SubSeq(rxq, 1, rxqBeforeLoss)
            /\ rxqLost' = rxqLost /\ rxqBeforeLoss' = rxqBeforeLoss
        BY <1>8, <2>1 DEF NoteLoss, Fold
      <3>3. rxq' \in Seq(Cell) /\ Len(rxq') = rxqBeforeLoss
        BY <1>6, <3>1, <3>2, UpToIs
      <3>4. Marked'
        BY <1>1, <1>6, <3>1, <3>2, <3>3 DEF Marked
      <3>5. /\ r.front + Len(rxq') <= r.front + Len(rxq) + Len(r.message)
            /\ r.front + Len(rxq') <= r.front + Len(rxq)
        BY <1>5, <1>6, <3>1, <3>3
      <3>6. LineFits'
        BY <1>2, <1>5, <3>3, <3>5, DriverFits
      <3> QED  BY <1>4, <3>4, <3>6, BoundedPartsNext
    <2>2. CASE ~rxqLost
      <3>1. rxqLost' = TRUE /\ rxqBeforeLoss' = Len(rxq) /\ rxq' = rxq
        BY <1>8, <2>2 DEF NoteLoss
      <3>2. Marked'
        BY <1>6, <3>1 DEF Marked
      <3>3. /\ r.front + Len(rxq') <= r.front + Len(rxq) + Len(r.message)
            /\ r.front + Len(rxq') <= r.front + Len(rxq)
        BY <1>5, <1>6, <3>1
      <3>4. LineFits'
        BY <1>2, <1>5, <1>6, <3>1, <3>3, DriverFits
      <3> QED  BY <1>4, <3>2, <3>4, BoundedPartsNext
    <2> QED  BY <2>1, <2>2
  <1> QED  BY <1>2, <1>7, <1>8

\* Whatever the sizes, the driver puts a message together inside its queue
\* (ed64.c, s_rxq) and the agent never holds more than s_rx has (agent.c).
THEOREM BuffersHold == RxSpec => []RxTypeOK
  <1>1. Bounded /\ [RxNext]_rxVars => Bounded'
    <2> SUFFICES ASSUME Bounded, [RxNext]_rxVars PROVE Bounded'
      OBVIOUS
    <2>1. CASE SendMessage \/ CutOff \/ SendOther
      BY <2>1, BoundedLine
    <2>2. CASE BeginTick \/ PullQueued \/ PullUsb
      BY <2>2, BoundedTick, BoundedQueued, BoundedUsb
    <2>3. CASE ServeFrame \/ KeepPartial \/ ReadAhead
      BY <2>3, BoundedServe, BoundedPartial, BoundedAhead
    <2>4. CASE UNCHANGED rxVars
      BY <2>4 DEF Bounded, RxTypeOK, Shapes, rxVars, line, driver, agentRx
    <2> QED  BY <2>1, <2>2, <2>3, <2>4 DEF RxNext
  <1>2. Bounded => RxTypeOK
    BY DEF Bounded
  <1> QED  BY <1>1, <1>2, BoundedInit, PTL DEF RxSpec

-----------------------------------------------------------------------------
(* Requests are handled in order: what the agent has not handled, the      *)
(* driver's queue and the cart's messages are one row, in the order the PC *)
(* wrote, between the header handled last and what the PC writes next.     *)

Before(c, d) == c.frame < d.frame \/ (c.frame = d.frame /\ c.at < d.at)

Ordered(s) == \A i, j \in 1..Len(s) : i < j => Before(s[i], s[j])
AllBefore(s, t) == \A i \in 1..Len(s), j \in 1..Len(t) : Before(s[i], t[j])
Within(s, c, d) == \A i \in 1..Len(s) : Before(c, s[i]) /\ Before(s[i], d)

Row(c, a, q, u, d) ==
  /\ Ordered(a) /\ Ordered(q) /\ AllBefore(a, q)
  /\ Within(a, c, d) /\ Within(q, c, d) /\ Before(c, d)
  /\ \A m \in 1..Len(u) :
       /\ Ordered(u[m].cells) /\ Within(u[m].cells, c, d)
       /\ AllBefore(a, u[m].cells) /\ AllBefore(q, u[m].cells)
  /\ \A m, n \in 1..Len(u) : m < n => AllBefore(u[m].cells, u[n].cells)

\* A sequence that is a stretch of another one.
Part(t, s) == \E k \in Nat : \A i \in 1..Len(t) : k + i \in 1..Len(s) /\ t[i] = s[k + i]

LEMMA PartOrdered ==
  ASSUME NEW s \in Seq(Cell), NEW t \in Seq(Cell), Part(t, s), Ordered(s)
  PROVE  Ordered(t)
  <1>1. PICK k \in Nat : \A i \in 1..Len(t) : k + i \in 1..Len(s) /\ t[i] = s[k + i]
    BY DEF Part
  <1>2. ASSUME NEW i \in 1..Len(t), NEW j \in 1..Len(t), i < j
        PROVE  Before(t[i], t[j])
    <2>1. k + i < k + j
      BY <1>2
    <2> QED  BY <1>1, <2>1 DEF Ordered
  <1> QED  BY <1>2 DEF Ordered

LEMMA PartBefore ==
  ASSUME NEW s \in Seq(Cell), NEW t \in Seq(Cell), Part(t, s), NEW x \in Seq(Cell)
  PROVE  /\ AllBefore(s, x) => AllBefore(t, x)
         /\ AllBefore(x, s) => AllBefore(x, t)
         /\ \A c, d : Within(s, c, d) => Within(t, c, d)
  <1>1. PICK k \in Nat : \A i \in 1..Len(t) : k + i \in 1..Len(s) /\ t[i] = s[k + i]
    BY DEF Part
  <1> QED  BY <1>1 DEF AllBefore, Within

LEMMA PartBehind ==
  ASSUME NEW s \in Seq(Cell), NEW n \in 0..Len(s)
  PROVE  Part(Behind(s, n), s)
  <1>1. /\ Len(Behind(s, n)) = Len(s) - n
        /\ \A i \in 1..Len(s) - n : Behind(s, n)[i] = s[n + i]
    BY BehindIs
  <1>2. n \in Nat /\ Len(s) \in Nat
    OBVIOUS
  <1>3. \A i \in 1..Len(Behind(s, n)) : n + i \in 1..Len(s) /\ Behind(s, n)[i] = s[n + i]
    BY <1>1, <1>2
  <1> QED  BY <1>2, <1>3 DEF Part

LEMMA PartUpTo ==
  ASSUME NEW s \in Seq(Cell), NEW n \in 0..Len(s)
  PROVE  Part(SubSeq(s, 1, n), s)
  <1>1. Len(SubSeq(s, 1, n)) = n /\ \A i \in 1..n : SubSeq(s, 1, n)[i] = s[i]
    BY UpToIs
  <1>2. \A i \in 1..Len(SubSeq(s, 1, n)) :
          0 + i \in 1..Len(s) /\ SubSeq(s, 1, n)[i] = s[0 + i]
    BY <1>1
  <1> QED  BY <1>2 DEF Part

LEMMA PartEmpty ==
  ASSUME NEW s \in Seq(Cell)
  PROVE  Part(<<>>, s)
  BY DEF Part

LEMMA PartHeld ==
  ASSUME NEW s \in Seq(Cell)
  PROVE  Part(FromHeader(s), s)
  <1>1. CASE FromHeader(s) = <<>>
    BY <1>1, PartEmpty
  <1>2. CASE FromHeader(s) # <<>>
    <2>1. PICK n \in 1..Len(s) : FromHeader(s) = Behind(s, n - 1)
      BY <1>2, HeldIs
    <2>2. n - 1 \in 0..Len(s)
      OBVIOUS
    <2> QED  BY <2>1, <2>2, PartBehind
  <1> QED  BY <1>1, <1>2

\* A row keeps its order when parts of the agent's and the driver's drop out.
LEMMA PartsKept ==
  ASSUME NEW c, NEW d, NEW u \in Seq(Message),
         NEW a \in Seq(Cell), NEW a1 \in Seq(Cell), Part(a1, a),
         NEW q \in Seq(Cell), NEW q1 \in Seq(Cell), Part(q1, q),
         Row(c, a, q, u, d)
  PROVE  Row(c, a1, q1, u, d)
  <1>1. Ordered(a1) /\ Ordered(q1)
    BY PartOrdered DEF Row
  <1>2. AllBefore(a1, q1)
    <2>1. AllBefore(a1, q)
      BY PartBefore DEF Row
    <2> QED  BY <2>1, PartBefore
  <1>3. Within(a1, c, d) /\ Within(q1, c, d)
    BY PartBefore DEF Row
  <1>4. ASSUME NEW m \in 1..Len(u)
        PROVE  AllBefore(a1, u[m].cells) /\ AllBefore(q1, u[m].cells)
    <2>1. u[m].cells \in Seq(Cell)
      <3>1. u[m] \in Message
        BY ElementOfSeq
      <3> QED  BY <3>1 DEF Message
    <2>2. AllBefore(a, u[m].cells) /\ AllBefore(q, u[m].cells)
      BY DEF Row
    <2> QED  BY <2>1, <2>2, PartBefore
  <1> QED  BY <1>1, <1>2, <1>3, <1>4 DEF Row

\* Two stretches of a row put one behind the other.
LEMMA JoinedRow ==
  ASSUME NEW s \in Seq(Cell), NEW t \in Seq(Cell)
  PROVE  /\ Ordered(s) /\ Ordered(t) /\ AllBefore(s, t) => Ordered(s \o t)
         /\ \A x : AllBefore(s, x) /\ AllBefore(t, x) => AllBefore(s \o t, x)
         /\ \A x : AllBefore(x, s) /\ AllBefore(x, t) => AllBefore(x, s \o t)
         /\ \A c, d : Within(s, c, d) /\ Within(t, c, d) => Within(s \o t, c, d)
  <1>1. /\ Len(s \o t) = Len(s) + Len(t) /\ Len(s) \in Nat /\ Len(t) \in Nat
        /\ \A i \in 1..Len(s) + Len(t) :
             (s \o t)[i] = IF i <= Len(s) THEN s[i] ELSE t[i - Len(s)]
    BY ConcatProperties
  <1>2. \A i \in 1..Len(s \o t) :
          \/ i \in 1..Len(s) /\ (s \o t)[i] = s[i]
          \/ i > Len(s) /\ i - Len(s) \in 1..Len(t) /\ (s \o t)[i] = t[i - Len(s)]
    BY <1>1
  <1>3. ASSUME Ordered(s), Ordered(t), AllBefore(s, t),
               NEW i \in 1..Len(s \o t), NEW j \in 1..Len(s \o t), i < j
        PROVE  Before((s \o t)[i], (s \o t)[j])
    <2>1. CASE j \in 1..Len(s) /\ (s \o t)[j] = s[j]
      <3>1. i \in 1..Len(s)
        BY <1>1, <1>3, <2>1
      <3>2. (s \o t)[i] = s[i]
        BY <1>1, <1>2, <3>1
      <3> QED  BY <1>3, <2>1, <3>1, <3>2 DEF Ordered
    <2>2. CASE j - Len(s) \in 1..Len(t) /\ (s \o t)[j] = t[j - Len(s)]
      <3>1. CASE i \in 1..Len(s) /\ (s \o t)[i] = s[i]
        BY <1>3, <2>2, <3>1 DEF AllBefore
      <3>2. CASE i - Len(s) \in 1..Len(t) /\ (s \o t)[i] = t[i - Len(s)]
        <4>1. i - Len(s) < j - Len(s)
          BY <1>1, <1>3
        <4> QED  BY <1>3, <2>2, <3>2, <4>1 DEF Ordered
      <3> QED  BY <1>2, <3>1, <3>2
    <2> QED  BY <1>2, <2>1, <2>2
  <1>4. \A x : AllBefore(s, x) /\ AllBefore(t, x) => AllBefore(s \o t, x)
    BY <1>2 DEF AllBefore
  <1>5. \A x : AllBefore(x, s) /\ AllBefore(x, t) => AllBefore(x, s \o t)
    BY <1>2 DEF AllBefore
  <1>6. \A c, d : Within(s, c, d) /\ Within(t, c, d) => Within(s \o t, c, d)
    BY <1>2 DEF Within
  <1> QED  BY <1>3, <1>4, <1>5, <1>6 DEF Ordered

\* The agent takes the first bytes of the driver's queue.
LEMMA HandedOver ==
  ASSUME NEW c, NEW d, NEW u \in Seq(Message), NEW a \in Seq(Cell), NEW q \in Seq(Cell),
         NEW n \in 0..Len(q), Row(c, a, q, u, d)
  PROVE  Row(c, a \o SubSeq(q, 1, n), Behind(q, n), u, d)
  <1> DEFINE t == SubSeq(q, 1, n)
             w == Behind(q, n)
  <1>1. t \in Seq(Cell) /\ w \in Seq(Cell) /\ Part(t, q) /\ Part(w, q)
    BY UpToIs, BehindIs, PartUpTo, PartBehind
  <1>2. AllBefore(t, w)
    <2>1. /\ Len(t) = n /\ \A i \in 1..n : t[i] = q[i]
          /\ Len(w) = Len(q) - n /\ \A i \in 1..Len(q) - n : w[i] = q[n + i]
          /\ n \in Nat /\ Len(q) \in Nat
      BY UpToIs, BehindIs
    <2>2. ASSUME NEW i \in 1..Len(t), NEW j \in 1..Len(w) PROVE Before(t[i], w[j])
      <3>1. i \in 1..Len(q) /\ n + j \in 1..Len(q) /\ i < n + j
        BY <2>1
      <3>2. t[i] = q[i] /\ w[j] = q[n + j]
        BY <2>1
      <3> QED  BY <3>1, <3>2 DEF Row, Ordered
    <2> QED  BY <2>2 DEF AllBefore
  <1> HIDE DEF t, w
  <1>3. Ordered(a) /\ Ordered(t) /\ Ordered(w)
    BY <1>1, PartOrdered DEF Row
  <1>4. AllBefore(a, t) /\ AllBefore(a, w)
    BY <1>1, PartBefore DEF Row
  <1>5. Within(a, c, d) /\ Within(t, c, d) /\ Within(w, c, d)
    BY <1>1, PartBefore DEF Row
  <1>6. /\ Ordered(a \o t) /\ AllBefore(a \o t, w) /\ Within(a \o t, c, d)
    BY <1>1, <1>2, <1>3, <1>4, <1>5, JoinedRow
  <1>7. ASSUME NEW m \in 1..Len(u)
        PROVE  AllBefore(a \o t, u[m].cells) /\ AllBefore(w, u[m].cells)
    <2>1. u[m].cells \in Seq(Cell)
      <3>1. u[m] \in Message
        BY ElementOfSeq
      <3> QED  BY <3>1 DEF Message
    <2>2. AllBefore(a, u[m].cells) /\ AllBefore(q, u[m].cells)
      BY DEF Row
    <2>3. AllBefore(t, u[m].cells) /\ AllBefore(w, u[m].cells)
      BY <1>1, <2>1, <2>2, PartBefore
    <2> QED  BY <1>1, <2>2, <2>3, JoinedRow
  <1> QED  BY <1>3, <1>5, <1>6, <1>7 DEF Row, t, w

\* The first message leaves the cart, lost or put behind the queue.
LEMMA Queued ==
  ASSUME NEW c, NEW d, NEW u \in Seq(Message), u # <<>>,
         NEW a \in Seq(Cell), NEW q \in Seq(Cell), Row(c, a, q, u, d)
  PROVE  /\ Row(c, a, q, Tail(u), d)
         /\ Row(c, a, q \o Head(u).cells, Tail(u), d)
  <1> DEFINE v == Tail(u)
             h == Head(u).cells
  <1>1. /\ Len(v) = Len(u) - 1 /\ \A i \in 1..Len(v) : v[i] = u[i + 1]
        /\ Len(u) \in Nat /\ Len(v) \in Nat
    BY HeadTailProperties
  <1>2. \A i \in 1..Len(v) : i + 1 \in 1..Len(u) /\ v[i] = u[i + 1]
    BY <1>1
  <1>3. 1 \in 1..Len(u) /\ h = u[1].cells
    BY <1>1
  <1>4. h \in Seq(Cell)
    <2>1. Head(u) \in Message
      BY HeadTailProperties
    <2> QED  BY <2>1 DEF Message
  <1> HIDE DEF v, h
  <1>5. \A m, n \in 1..Len(v) : m < n => AllBefore(v[m].cells, v[n].cells)
    <2>1. ASSUME NEW m \in 1..Len(v), NEW n \in 1..Len(v), m < n
          PROVE  AllBefore(v[m].cells, v[n].cells)
      <3>1. m + 1 < n + 1
        BY <1>1, <2>1
      <3> QED  BY <1>2, <3>1 DEF Row
    <2> QED  BY <2>1
  <1>6. Row(c, a, q, v, d)
    BY <1>2, <1>5 DEF Row
  <1>7. /\ Ordered(h) /\ Within(h, c, d) /\ AllBefore(a, h) /\ AllBefore(q, h)
    BY <1>3 DEF Row
  <1>8. ASSUME NEW m \in 1..Len(v) PROVE AllBefore(h, v[m].cells)
    <2>1. 1 < m + 1
      BY <1>1
    <2> QED  BY <1>2, <1>3, <2>1 DEF Row
  <1>9. Ordered(q \o h) /\ AllBefore(a, q \o h) /\ Within(q \o h, c, d)
    BY <1>4, <1>7, JoinedRow DEF Row
  <1>10. ASSUME NEW m \in 1..Len(v) PROVE AllBefore(q \o h, v[m].cells)
    <2>1. AllBefore(q, v[m].cells)
      BY <1>6 DEF Row
    <2> QED  BY <1>4, <1>8, <2>1, JoinedRow
  <1>11. Row(c, a, q \o h, v, d)
    BY <1>6, <1>9, <1>10 DEF Row
  <1> QED  BY <1>6, <1>11 DEF v, h

\* Places in the stream: a frame, and a cell in it.
Place(c) == c.frame \in Nat /\ c.at \in Nat
AtOrAfter(c, d) == c.frame < d.frame \/ (c.frame = d.frame /\ c.at <= d.at)

LEMMA BeforeLater ==
  ASSUME NEW x, NEW d, NEW e, Place(x), Place(d), Place(e), Before(x, d), AtOrAfter(d, e)
  PROVE  Before(x, e)
  BY DEF Place, Before, AtOrAfter

LEMMA PlacesOfCells ==
  ASSUME NEW s \in Seq(Cell)
  PROVE  \A i \in 1..Len(s) : Place(s[i])
  <1>1. \A i \in 1..Len(s) : s[i] \in Cell
    BY ElementOfSeq
  <1> QED  BY <1>1 DEF Cell, Place

\* The PC goes on writing.
LEMMA RowExtends ==
  ASSUME NEW c, NEW d, NEW e, Place(c), Place(d), Place(e), AtOrAfter(d, e),
         NEW u \in Seq(Message), NEW a \in Seq(Cell), NEW q \in Seq(Cell), Row(c, a, q, u, d)
  PROVE  Row(c, a, q, u, e)
  <1>1. \A s \in Seq(Cell) : Within(s, c, d) => Within(s, c, e)
    BY PlacesOfCells, BeforeLater DEF Within
  <1>2. Before(c, e)
    BY BeforeLater DEF Row
  <1>3. \A m \in 1..Len(u) : u[m].cells \in Seq(Cell)
    <2>1. \A m \in 1..Len(u) : u[m] \in Message
      BY ElementOfSeq
    <2> QED  BY <2>1 DEF Message
  <1> QED  BY <1>1, <1>2, <1>3 DEF Row

\* What it writes joins the row at its end.
LEMMA RowAppends ==
  ASSUME NEW c, NEW d, NEW e, Place(c), Place(d), Place(e), AtOrAfter(d, e),
         NEW u \in Seq(Message), NEW a \in Seq(Cell), NEW q \in Seq(Cell), Row(c, a, q, u, d),
         NEW m \in Message, Ordered(m.cells),
         \A i \in 1..Len(m.cells) : AtOrAfter(d, m.cells[i]) /\ Before(m.cells[i], e)
  PROVE  Row(c, a, q, Append(u, m), e)
  <1> DEFINE v == Append(u, m)
             h == m.cells
  <1>1. /\ Len(v) = Len(u) + 1 /\ \A i \in 1..Len(u) : v[i] = u[i]
        /\ v[Len(u) + 1] = m /\ Len(u) \in Nat
    BY AppendProperties
  <1>2. \A i \in 1..Len(v) : \/ i \in 1..Len(u) /\ v[i] = u[i]
                             \/ i = Len(u) + 1 /\ v[i] = m
    <2> HIDE DEF v
    <2> QED  BY <1>1
  <1>3. h \in Seq(Cell) /\ Ordered(h) /\ \A i \in 1..Len(h) : Place(h[i])
    BY PlacesOfCells DEF Message
  <1> HIDE DEF v, h
  <1>4. ASSUME NEW s \in Seq(Cell), Within(s, c, d) PROVE AllBefore(s, h)
    <2>1. ASSUME NEW i \in 1..Len(s), NEW j \in 1..Len(h) PROVE Before(s[i], h[j])
      <3>1. Place(s[i]) /\ Place(h[j]) /\ Before(s[i], d) /\ AtOrAfter(d, h[j])
        BY <1>3, <1>4, PlacesOfCells DEF Within, h
      <3> QED  BY <3>1, BeforeLater
    <2> QED  BY <2>1 DEF AllBefore
  <1>5. Row(c, a, q, u, e)
    BY RowExtends
  <1>6. Within(h, c, e)
    <2>1. ASSUME NEW i \in 1..Len(h) PROVE Before(c, h[i]) /\ Before(h[i], e)
      <3>1. Place(h[i]) /\ AtOrAfter(d, h[i]) /\ Before(c, d) /\ Before(h[i], e)
        BY <1>3 DEF Row, h
      <3> QED  BY <3>1, BeforeLater
    <2> QED  BY <2>1 DEF Within
  <1>7. \A i \in 1..Len(u) : u[i].cells \in Seq(Cell)
    <2>1. \A i \in 1..Len(u) : u[i] \in Message
      BY ElementOfSeq
    <2> QED  BY <2>1 DEF Message
  <1>8. AllBefore(a, h) /\ AllBefore(q, h) /\ \A i \in 1..Len(u) : AllBefore(u[i].cells, h)
    BY <1>4, <1>7 DEF Row
  <1>9. ASSUME NEW i \in 1..Len(v)
        PROVE  /\ Ordered(v[i].cells) /\ Within(v[i].cells, c, e)
               /\ AllBefore(a, v[i].cells) /\ AllBefore(q, v[i].cells)
    <2>1. CASE i \in 1..Len(u) /\ v[i] = u[i]
      BY <1>5, <2>1 DEF Row
    <2>2. CASE i = Len(u) + 1 /\ v[i] = m
      BY <1>3, <1>6, <1>8, <2>2 DEF h
    <2> QED  BY <1>2, <2>1, <2>2
  <1>10. ASSUME NEW i \in 1..Len(v), NEW j \in 1..Len(v), i < j
         PROVE  AllBefore(v[i].cells, v[j].cells)
    <2>1. i \in 1..Len(u) /\ v[i] = u[i]
      BY <1>1, <1>2, <1>10
    <2>2. CASE j \in 1..Len(u) /\ v[j] = u[j]
      BY <1>5, <1>10, <2>1, <2>2 DEF Row
    <2>3. CASE j = Len(u) + 1 /\ v[j] = m
      BY <1>8, <2>1, <2>3 DEF h
    <2> QED  BY <1>2, <2>2, <2>3
  <1> QED  BY <1>5, <1>9, <1>10 DEF Row, v

\* The row after a frame was handled begins behind it.
LEMMA RowServes ==
  ASSUME NEW c, NEW d, NEW h, NEW u \in Seq(Message), NEW a \in Seq(Cell), NEW q \in Seq(Cell),
         NEW n \in 1..Len(a), Row(c, a, q, u, d), h.frame = a[1].frame, h.at = a[1].at
  PROVE  Row(h, Behind(a, n), q, u, d)
  <1>1. n \in 0..Len(a) /\ 1 \in 1..Len(a) /\ n \in Nat /\ Len(a) \in Nat
    OBVIOUS
  <1>2. /\ Behind(a, n) \in Seq(Cell) /\ Part(Behind(a, n), a)
        /\ Len(Behind(a, n)) = Len(a) - n
        /\ \A i \in 1..Len(a) - n : Behind(a, n)[i] = a[n + i]
    BY <1>1, BehindIs, PartBehind
  <1>3. Part(q, q)
    <2>1. \A i \in 1..Len(q) : 0 + i \in 1..Len(q) /\ q[i] = q[0 + i]
      OBVIOUS
    <2> QED  BY <2>1 DEF Part
  <1>4. Row(c, Behind(a, n), q, u, d)
    BY <1>2, <1>3, PartsKept
  <1>5. \A x : Before(h, x) <=> Before(a[1], x)
    BY DEF Before
  <1>6. Before(h, d)
    BY <1>1, <1>5 DEF Row, Within
  <1>7. Within(Behind(a, n), h, d)
    <2>1. ASSUME NEW i \in 1..Len(Behind(a, n)) PROVE Before(h, Behind(a, n)[i])
      <3>1. n + i \in 1..Len(a) /\ 1 < n + i /\ Behind(a, n)[i] = a[n + i]
        BY <1>1, <1>2
      <3> QED  BY <1>1, <1>5, <3>1 DEF Row, Ordered
    <2> QED  BY <1>4, <2>1 DEF Row, Within
  <1>8. Within(q, h, d)
    <2>1. \A i \in 1..Len(q) : Before(a[1], q[i])
      BY <1>1 DEF Row, AllBefore
    <2> QED  BY <1>4, <1>5, <2>1 DEF Row, Within
  <1>9. ASSUME NEW m \in 1..Len(u) PROVE Within(u[m].cells, h, d)
    <2>1. \A i \in 1..Len(u[m].cells) : Before(a[1], u[m].cells[i])
      BY <1>1 DEF Row, AllBefore
    <2> QED  BY <1>4, <1>5, <2>1 DEF Row, Within
  <1> QED  BY <1>4, <1>6, <1>7, <1>8, <1>9 DEF Row

Handled == IF served = <<>> THEN [frame |-> 0, at |-> 0]
        ELSE [frame |-> served[Len(served)].frame, at |-> 1]
Coming == [frame |-> writing.frame, at |-> writing.sent + 1]

InRow ==
  /\ served \in Seq([frame : Nat, whole : BOOLEAN]) /\ ServedInOrder
  /\ Row(Handled, Behind(rx, rxDone), rxq, usb, Coming)

LEMMA PlacesOfRow ==
  ASSUME Bounded, InRow
  PROVE  Place(Handled) /\ Place(Coming)
  <1>1. Place(Coming)
    BY DEF Bounded, Shapes, Coming, Place
  <1>2. ASSUME served # <<>> PROVE served[Len(served)].frame \in Nat
    <2>1. served \in Seq([frame : Nat, whole : BOOLEAN]) /\ Len(served) \in 1..Len(served)
      BY <1>2 DEF InRow
    <2>2. served[Len(served)] \in [frame : Nat, whole : BOOLEAN]
      BY <2>1, ElementOfSeq
    <2> QED  BY <2>2
  <1> QED  BY <1>1, <1>2 DEF Handled, Place

LEMMA NoneDone ==
  ASSUME NEW s \in Seq(Cell)
  PROVE  Behind(s, 0) = s
  <1>1. 0 \in 0..Len(s) /\ Len(s) \in Nat
    OBVIOUS
  <1>2. /\ Behind(s, 0) \in Seq(Cell) /\ Len(Behind(s, 0)) = Len(s)
        /\ \A i \in 1..Len(s) : Behind(s, 0)[i] = s[i]
    BY <1>1, BehindIs
  <1> QED  BY <1>2, SeqEqual

LEMMA PartItself ==
  ASSUME NEW s \in Seq(Cell)
  PROVE  Part(s, s)
  <1>1. \A i \in 1..Len(s) : 0 + i \in 1..Len(s) /\ s[i] = s[0 + i]
    OBVIOUS
  <1> QED  BY <1>1 DEF Part

LEMMA RowLine ==
  ASSUME Bounded, InRow, SendMessage \/ CutOff \/ SendOther
  PROVE  InRow'
  <1> DEFINE a == Behind(rx, rxDone)
  <1>1. /\ rx \in Seq(Cell) /\ rxDone \in 0..Len(rx) /\ rxq \in Seq(Cell)
        /\ usb \in Seq(Message)
        /\ writing \in [frame : Nat, sent : Nat, of : Nat] /\ writing.sent <= writing.of
    BY DEF Bounded, RxTypeOK, Shapes
  <1>2. a \in Seq(Cell)
    BY <1>1, BehindIs
  <1>3. Place(Handled) /\ Place(Coming) /\ Row(Handled, a, rxq, usb, Coming)
    BY PlacesOfRow DEF InRow
  <1>4. UNCHANGED <<rx, rxDone, rxq, served>>
    BY DEF SendMessage, CutOff, SendOther, driver, agentRx
  <1>5. SUFFICES Row(Handled, a, rxq, usb', Coming')
    BY <1>4 DEF InRow, ServedInOrder, Handled
  <1> HIDE DEF a
  <1>6. CASE SendMessage
    <2>1. PICK kind \in {"L3", "unframed", "torn"},
               w \in IF writing.sent < writing.of THEN {writing}
                     ELSE [frame : {writing.frame + 1} \cap 1..MaxFrames, sent : {0}, of : Lengths] :
            LET upTo == Fewer(w.sent + Window, w.of)
            IN /\ writing' = [w EXCEPT !.sent = upTo]
               /\ usb' = Append(usb, [kind |-> kind, cells |-> Cells(w.frame, w.sent, upTo, w.of)])
      BY <1>6, Zenon DEF SendMessage
    <2> DEFINE upTo == Fewer(w.sent + Window, w.of)
               cells == Cells(w.frame, w.sent, upTo, w.of)
               m == [kind |-> kind, cells |-> cells]
               start == [frame |-> w.frame, at |-> w.sent + 1]
    <2>2. /\ w \in [frame : Nat, sent : Nat, of : Nat] /\ w.sent <= w.of
          /\ AtOrAfter(Coming, start)
      <3>1. Lengths \subseteq Nat /\ MaxFrames \in Nat
        BY SizesAssumption
      <3>2. CASE writing.sent < writing.of
        BY <1>1, <2>1, <3>1, <3>2 DEF AtOrAfter, Coming
      <3>3. CASE ~(writing.sent < writing.of)
        <4>1. w.frame = writing.frame + 1 /\ w.sent = 0 /\ w.of \in Lengths
              /\ w \in [frame : Nat, sent : Nat, of : Nat]
          BY <1>1, <2>1, <3>1, <3>3
        <4> QED  BY <1>1, <3>1, <4>1 DEF AtOrAfter, Coming
      <3> QED  BY <3>2, <3>3
    <2>3. upTo \in Nat /\ upTo <= w.of /\ w.sent <= upTo
      BY <2>2, SizesAssumption DEF Fewer
    <2>4. upTo - w.sent \in Nat
      BY <2>2, <2>3
    <2>5. cells \in Seq(Cell)
      <3>1. \A i \in 1..(upTo - w.sent) :
              [frame |-> w.frame, at |-> w.sent + i, of |-> w.of] \in Cell
        BY <2>2, <2>4 DEF Cell
      <3> QED  BY <2>4, <3>1, IsASeq DEF Cells
    <2>6. /\ Len(cells) = upTo - w.sent
          /\ \A i \in 1..Len(cells) : cells[i].frame = w.frame /\ cells[i].at = w.sent + i
      BY <2>4 DEF Cells
    <2>7. writing'.frame = w.frame /\ writing'.sent = upTo
      BY <2>1, <2>2
    <2> HIDE DEF upTo, cells
    <2>8. Place(Coming') /\ AtOrAfter(Coming, Coming')
      BY <1>1, <2>2, <2>3, <2>7 DEF Coming, Place, AtOrAfter
    <2>9. Ordered(cells)
      BY <2>2, <2>6 DEF Ordered, Before
    <2>10. ASSUME NEW i \in 1..Len(cells)
           PROVE  AtOrAfter(Coming, cells[i]) /\ Before(cells[i], Coming')
      <3>1. cells[i].frame = w.frame /\ cells[i].at = w.sent + i /\ i \in Nat /\ i >= 1
            /\ w.sent + i <= upTo
        BY <2>2, <2>3, <2>4, <2>6
      <3> QED  BY <1>1, <2>2, <2>3, <2>7, <3>1 DEF AtOrAfter, Before, Coming
    <2>11. m \in Message
      BY <2>5 DEF Message
    <2>12. usb' = Append(usb, m)
      BY <2>1 DEF upTo, cells
    <2>13. m.cells = cells
      OBVIOUS
    <2> HIDE DEF m
    <2> QED  BY <1>1, <1>2, <1>3, <2>8, <2>9, <2>10, <2>11, <2>12, <2>13, RowAppends
  <1>7. CASE CutOff
    <2>1. usb' = usb /\ writing'.frame = writing.frame /\ writing'.sent = writing.of
      BY <1>1, <1>7 DEF CutOff
    <2>2. Place(Coming') /\ AtOrAfter(Coming, Coming')
      BY <1>1, <2>1 DEF Coming, Place, AtOrAfter
    <2> QED  BY <1>1, <1>2, <1>3, <2>1, <2>2, RowExtends
  <1>8. CASE SendOther
    <2> DEFINE m == [kind |-> "other", cells |-> <<>>]
    <2>1. usb' = Append(usb, m) /\ Coming' = Coming
      BY <1>8 DEF SendOther, Coming
    <2>2. m \in Message /\ m.cells = <<>> /\ Len(<<>>) = 0
      BY EmptySeq DEF Message
    <2> HIDE DEF m
    <2>3. Ordered(m.cells) /\ AtOrAfter(Coming, Coming) /\ Len(m.cells) = 0
      BY <1>3, <2>2 DEF Ordered, AtOrAfter, Place
    <2> QED  BY <1>1, <1>2, <1>3, <2>1, <2>2, <2>3, RowAppends
  <1> QED  BY <1>6, <1>7, <1>8

\* What the agent's actions take from Bounded.
LEMMA Sequences ==
  ASSUME Bounded
  PROVE  /\ rx \in Seq(Cell) /\ rxDone \in 0..Len(rx) /\ rxq \in Seq(Cell)
         /\ usb \in Seq(Message) /\ FromHeader(rx) \in Seq(Cell)
         /\ agentAt \in {"pull", "pulled"} => Behind(rx, rxDone) = rx
  <1>1. /\ rx \in Seq(Cell) /\ rxDone \in 0..Len(rx) /\ rxq \in Seq(Cell)
        /\ usb \in Seq(Message)
        /\ agentAt \in {"pull", "pulled"} => rxDone = 0
    BY DEF Bounded, RxTypeOK, Shapes
  <1> QED  BY <1>1, HeldTypes, NoneDone

LEMMA RowTick ==
  ASSUME Bounded, InRow, BeginTick
  PROVE  InRow'
  <1>1. Behind(rx, rxDone) \in Seq(Cell)
    BY Sequences, BehindIs
  <1>2. /\ rx' = Behind(rx, rxDone) /\ rxDone' = 0
        /\ UNCHANGED <<writing, usb, rxq, served>>
    BY DEF BeginTick, line, driver
  <1>3. Behind(rx', rxDone') = Behind(rx, rxDone)
    BY <1>1, <1>2, NoneDone
  <1>4. Handled' = Handled /\ Coming' = Coming
    BY <1>2 DEF Handled, Coming
  <1> QED  BY <1>2, <1>3, <1>4 DEF InRow, ServedInOrder

\* An agent that gives up or keeps a part, or takes bytes of the driver's queue q.
LEMMA RowPulls ==
  ASSUME Bounded, InRow, agentAt \in {"pull", "pulled"}, rxDone' = rxDone,
         UNCHANGED <<writing, served>>,
         NEW q \in Seq(Cell), usb' \in Seq(Message), Row(Handled, rx, q, usb', Coming),
         NEW n \in 0..Len(q),
         \/ rx' \in {<<>>, FromHeader(rx)} /\ rxq' \in {q, Behind(q, n)}
         \/ rx' = FromHeader(rx) \o SubSeq(q, 1, n) /\ rxq' = Behind(q, n)
  PROVE  InRow'
  <1>1. /\ rx \in Seq(Cell) /\ FromHeader(rx) \in Seq(Cell) /\ rxDone = 0
        /\ <<>> \in Seq(Cell) /\ Behind(q, n) \in Seq(Cell) /\ SubSeq(q, 1, n) \in Seq(Cell)
    BY Sequences, BehindIs, UpToIs, EmptySeq DEF Bounded, Shapes
  <1>2. /\ Part(<<>>, rx) /\ Part(FromHeader(rx), rx) /\ Part(q, q) /\ Part(Behind(q, n), q)
    BY <1>1, PartEmpty, PartHeld, PartItself, PartBehind
  <1>3. rx' \in Seq(Cell) /\ Row(Handled, rx', rxq', usb', Coming)
    <2>1. CASE rx' \in {<<>>, FromHeader(rx)} /\ rxq' \in {q, Behind(q, n)}
      <3>1. /\ rx' \in Seq(Cell) /\ Part(rx', rx)
            /\ rxq' \in Seq(Cell) /\ Part(rxq', q)
        BY <1>1, <1>2, <2>1
      <3> QED  BY <1>1, <3>1, PartsKept
    <2>2. CASE rx' = FromHeader(rx) \o SubSeq(q, 1, n) /\ rxq' = Behind(q, n)
      <3>1. Row(Handled, FromHeader(rx), q, usb', Coming)
        BY <1>1, <1>2, PartsKept
      <3>2. rx' \in Seq(Cell)
        BY <1>1, <2>2, ConcatProperties
      <3> QED  BY <1>1, <2>2, <3>1, <3>2, HandedOver
    <2> QED  BY <2>1, <2>2
  <1>4. Behind(rx', rxDone') = rx'
    BY <1>1, <1>3, NoneDone
  <1>5. Handled' = Handled /\ Coming' = Coming
    BY DEF Handled, Coming
  <1> QED  BY <1>3, <1>4, <1>5 DEF InRow, ServedInOrder

LEMMA RowQueued ==
  ASSUME Bounded, InRow, PullQueued
  PROVE  InRow'
  <1>1. /\ agentAt = "pull" /\ rxDone' = rxDone /\ UNCHANGED <<writing, served, usb>>
    BY DEF PullQueued, Pulling, line, Arrives, NoneArrives
  <1>2. /\ rxq \in Seq(Cell) /\ usb' \in Seq(Message) /\ Row(Handled, rx, rxq, usb', Coming)
    BY <1>1, Sequences DEF InRow
  <1>3. CASE rxqLost /\ rxqBeforeLoss = 0
    <2>1. rx' = <<>> /\ rxq' = rxq /\ 0 \in 0..Len(rxq)
      BY <1>2, <1>3 DEF PullQueued, LostOnTheWay
    <2> QED  BY <1>1, <1>2, <2>1, RowPulls
  <1>4. CASE ~(rxqLost /\ rxqBeforeLoss = 0)
    <2> DEFINE n == Given(rxq, RxCap - Len(FromHeader(rx)))
    <2>1. rx' = FromHeader(rx) \o SubSeq(rxq, 1, n) /\ rxq' = Behind(rxq, n)
      BY <1>4 DEF PullQueued, HandOver
    <2>2. n \in 0..Len(rxq)
      <3>1. RxFits /\ Marked
        BY BoundedParts
      <3>2. RxCap - Len(FromHeader(rx)) \in Nat
        BY <3>1, HeldRoom
      <3> QED  BY <1>2, <3>1, <3>2, GivenIs
    <2> HIDE DEF n
    <2> QED  BY <1>1, <1>2, <2>1, <2>2, RowPulls
  <1> QED  BY <1>3, <1>4

LEMMA RowUsb ==
  ASSUME Bounded, InRow, PullUsb
  PROVE  InRow'
  <1>1. PICK r \in UsbReceive :
          /\ usb' = r.usb
          /\ LET held == FromHeader(rx)
                 n == Given(r.message, RxCap - Len(held))
             IN /\ HandOver(r.message, r.front, n)
                /\ IF r.result = "lost" THEN LostOnTheWay /\ NoneArrives
                   ELSE IF n = 0
                        THEN rx' = held /\ agentAt' = "pulled" /\ NoneArrives
                        ELSE rx' = held \o SubSeq(r.message, 1, n) /\ Arrives
                             /\ UNCHANGED agentAt
    BY Zenon DEF PullUsb
  <1>2. /\ agentAt = "pull" /\ rxDone' = rxDone /\ rxq = <<>> /\ ~rxqLost
        /\ UNCHANGED <<writing, served>>
    BY DEF PullUsb, Pulling
  <1> DEFINE n == Given(r.message, RxCap - Len(FromHeader(rx)))
  <1>3. /\ rxq' = Behind(r.message, n)
        /\ \/ rx' \in {<<>>, FromHeader(rx)}
           \/ rx' = FromHeader(rx) \o SubSeq(r.message, 1, n)
    BY <1>1 DEF HandOver, LostOnTheWay
  <1>4. r.message \in Seq(Cell)
    BY UsbReceiveIs
  <1>5. n \in 0..Len(r.message)
    <2>1. RxFits /\ Marked
      BY BoundedParts
    <2>2. RxCap - Len(FromHeader(rx)) \in Nat
      BY <2>1, HeldRoom
    <2> QED  BY <1>2, <1>4, <2>1, <2>2, GivenIs
  <1>6. usb' \in Seq(Message) /\ Row(Handled, rx, r.message, usb', Coming)
    <2>1. /\ rx \in Seq(Cell) /\ rxq \in Seq(Cell) /\ usb \in Seq(Message)
          /\ Row(Handled, rx, rxq, usb, Coming)
      BY <1>2, Sequences DEF InRow
    <2>2. CASE r.usb = usb /\ r.message = <<>>
      BY <1>1, <1>2, <2>1, <2>2
    <2>3. CASE usb # <<>> /\ r.usb = Tail(usb) /\ r.message \in {<<>>, Head(usb).cells}
      <3>1. /\ Tail(usb) \in Seq(Message)
            /\ Row(Handled, rx, rxq, Tail(usb), Coming)
            /\ Row(Handled, rx, rxq \o Head(usb).cells, Tail(usb), Coming)
        BY <2>1, <2>3, Queued, HeadTailProperties
      <3>2. r.message = Head(usb).cells => rxq \o Head(usb).cells = r.message
        BY <1>2, <1>4, ConcatEmptySeq
      <3> QED  BY <1>1, <1>2, <2>3, <3>1, <3>2
    <2> QED  BY <2>2, <2>3, UsbReceiveIs
  <1> HIDE DEF n
  <1> QED  BY <1>2, <1>3, <1>4, <1>5, <1>6, RowPulls

LEMMA RowPartial ==
  ASSUME Bounded, InRow, KeepPartial
  PROVE  InRow'
  <1>1. /\ agentAt \in {"pull", "pulled"} /\ rxDone' = rxDone
        /\ UNCHANGED <<writing, served, usb, rxq>> /\ rx' \in {<<>>, FromHeader(rx)}
    BY DEF KeepPartial, TickOver, line, driver
  <1>2. /\ rxq \in Seq(Cell) /\ usb' \in Seq(Message) /\ Row(Handled, rx, rxq, usb', Coming)
    BY <1>1, Sequences DEF InRow
  <1>3. 0 \in 0..Len(rxq)
    BY <1>2
  <1> QED  BY <1>1, <1>2, <1>3, RowPulls

\* A frame begins with its header, which is behind the one handled before.
LEMMA RowFrame ==
  ASSUME Bounded, InRow, ServeFrame
  PROVE  InRow'
  <1>1. /\ agentAt \in {"pull", "pulled"} /\ FrameLen(rx) > 0
        /\ rx' = FromHeader(rx) /\ rxDone' = FrameLen(rx)
        /\ UNCHANGED <<writing, usb, rxq>>
    BY DEF ServeFrame, TickOver, line, driver
  <1>2. /\ rx \in Seq(Cell) /\ rxq \in Seq(Cell) /\ usb \in Seq(Message) /\ rx' \in Seq(Cell)
        /\ Row(Handled, rx, rxq, usb, Coming)
    BY <1>1, Sequences DEF InRow
  <1>3. Row(Handled, rx', rxq, usb, Coming)
    <2>1. Part(rx', rx) /\ Part(rxq, rxq)
      BY <1>1, <1>2, PartHeld, PartItself
    <2> QED  BY <1>2, <2>1, PartsKept
  <1>4. rxDone' \in 1..Len(rx')
    <2>1. FrameLen(rx) \in 0..Len(FromHeader(rx))
      BY <1>2, FrameLenIs
    <2> QED  BY <1>1, <2>1
  <1>5. rx'[1].at = 1
    <2>1. FromHeader(rx) # <<>>
      BY <1>1, <1>4
    <2>2. PICK n \in 1..Len(rx) : rx' = Behind(rx, n - 1) /\ rx[n].at = 1
      BY <1>1, <1>2, <2>1, HeldIs
    <2>3. n - 1 \in 0..Len(rx) /\ Len(rx) \in Nat /\ 1 \in 1..Len(rx) - (n - 1)
      BY <1>2
    <2>4. rx'[1] = rx[n - 1 + 1]
      BY <1>2, <2>2, <2>3, BehindIs
    <2> QED  BY <2>2, <2>4
  <1>6. rx'[1] \in Cell /\ 1 \in 1..Len(rx')
    BY <1>2, <1>4, ElementOfSeq
  <1> DEFINE frame == rx'[1].frame
  <1>7. PICK whole \in BOOLEAN : served' = Append(served, [frame |-> frame, whole |-> whole])
    BY DEF ServeFrame
  <1>8. frame \in Nat
    BY <1>6 DEF Cell
  <1>9. Before(Handled, rx'[1])
    BY <1>3, <1>6 DEF Row, Within
  <1> HIDE DEF frame
  <1> DEFINE now == [frame |-> frame, whole |-> whole]
  <1>10. /\ served \in Seq([frame : Nat, whole : BOOLEAN]) /\ Len(served) \in Nat
         /\ now \in [frame : Nat, whole : BOOLEAN] /\ now.frame = frame
    BY <1>8 DEF InRow
  <1> HIDE DEF now
  <1>11. /\ served' \in Seq([frame : Nat, whole : BOOLEAN]) /\ served' # <<>>
         /\ Len(served') = Len(served) + 1
         /\ \A i \in 1..Len(served) : served'[i] = served[i]
         /\ served'[Len(served) + 1] = now
    BY <1>7, <1>10, AppendProperties DEF now
  <1>12. ServedInOrder'
    <2>1. ASSUME NEW i \in 2..Len(served') PROVE served'[i - 1].frame < served'[i].frame
      <3>1. CASE i \in 2..Len(served)
        <4>1. served'[i - 1] = served[i - 1] /\ served'[i] = served[i]
          <5>1. i - 1 \in 1..Len(served) /\ i \in 1..Len(served)
            BY <1>10, <3>1
          <5> QED  BY <1>11, <5>1
        <4> QED  BY <3>1, <4>1 DEF InRow, ServedInOrder
      <3>2. CASE i = Len(served) + 1
        <4>1. served # <<>> /\ Len(served) \in 1..Len(served) /\ i - 1 = Len(served)
          BY <1>10, <1>11, <3>2
        <4>2. served'[i - 1] = served[Len(served)] /\ served'[i].frame = frame
          BY <1>10, <1>11, <3>2, <4>1
        <4>3. Handled.frame = served[Len(served)].frame /\ Handled.at = 1
          BY <4>1 DEF Handled
        <4>4. served[Len(served)].frame < frame
          BY <1>5, <1>9, <4>3 DEF Before, frame
        <4> QED  BY <4>2, <4>4
      <3> QED  BY <1>10, <1>11, <3>1, <3>2
    <2> QED  BY <2>1 DEF ServedInOrder
  <1>13. Handled'.frame = rx'[1].frame /\ Handled'.at = rx'[1].at
    <2>1. served'[Len(served')].frame = rx'[1].frame
      BY <1>10, <1>11 DEF frame
    <2> QED  BY <1>5, <1>11, <2>1 DEF Handled
  <1>14. Row(Handled', Behind(rx', rxDone'), rxq, usb, Coming)
    BY <1>2, <1>3, <1>4, <1>13, RowServes
  <1>15. Coming' = Coming
    BY <1>1 DEF Coming
  <1> QED  BY <1>1, <1>11, <1>12, <1>14, <1>15 DEF InRow

LEMMA RowAhead ==
  ASSUME Bounded, InRow, ReadAhead
  PROVE  InRow'
  <1>1. PICK r \in UsbReceive :
          /\ usb' = r.usb
          /\ IF r.result = "lost" THEN NoteLoss
             ELSE rxq' = rxq \o r.message /\ UNCHANGED <<rxqLost, rxqBeforeLoss>>
    BY DEF ReadAhead
  <1>2. UNCHANGED <<writing, rx, rxDone, served>>
    BY DEF ReadAhead
  <1> DEFINE a == Behind(rx, rxDone)
  <1>3. /\ a \in Seq(Cell) /\ rxq \in Seq(Cell) /\ usb \in Seq(Message)
        /\ Row(Handled, a, rxq, usb, Coming)
    BY Sequences, BehindIs DEF InRow
  <1>4. SUFFICES Row(Handled, a, rxq', usb', Coming)
    <2>1. Handled' = Handled /\ Coming' = Coming
      BY <1>2 DEF Handled, Coming
    <2> QED  BY <1>2, <2>1 DEF InRow, ServedInOrder
  <1> HIDE DEF a
  <1>5. r.message \in Seq(Cell)
    BY UsbReceiveIs
  <1>6. /\ usb' \in Seq(Message) /\ Row(Handled, a, rxq, usb', Coming)
        /\ Row(Handled, a, rxq \o r.message, usb', Coming)
    <2>1. rxq \o <<>> = rxq
      BY <1>3, ConcatEmptySeq
    <2>2. CASE r.usb = usb /\ r.message = <<>>
      BY <1>1, <1>3, <2>1, <2>2
    <2>3. CASE usb # <<>> /\ r.usb = Tail(usb) /\ r.message \in {<<>>, Head(usb).cells}
      <3>1. /\ Tail(usb) \in Seq(Message)
            /\ Row(Handled, a, rxq, Tail(usb), Coming)
            /\ Row(Handled, a, rxq \o Head(usb).cells, Tail(usb), Coming)
        BY <1>3, <2>3, Queued, HeadTailProperties
      <3> QED  BY <1>1, <2>1, <2>3, <3>1
    <2> QED  BY <2>2, <2>3, UsbReceiveIs
  <1>7. CASE rxq' = rxq \o r.message
    BY <1>6, <1>7
  <1>8. CASE NoteLoss
    <2>1. CASE rxqLost
      <3>1. rxq' = SubSeq(rxq, 1, rxqBeforeLoss) /\ rxqBeforeLoss \in 0..Len(rxq)
        BY <1>8, <2>1 DEF NoteLoss, Fold, Bounded, RxTypeOK
      <3>2. rxq' \in Seq(Cell) /\ Part(rxq', rxq) /\ Part(a, a)
        BY <1>3, <3>1, UpToIs, PartUpTo, PartItself
      <3> QED  BY <1>3, <1>6, <3>2, PartsKept
    <2>2. CASE ~rxqLost
      BY <1>6, <1>8, <2>2 DEF NoteLoss
    <2> QED  BY <2>1, <2>2
  <1> QED  BY <1>1, <1>7, <1>8

LEMMA RowInit == RxInit => InRow
  <1> SUFFICES ASSUME RxInit PROVE InRow
    OBVIOUS
  <1>1. served = <<>> /\ rx = <<>> /\ rxDone = 0 /\ rxq = <<>> /\ usb = <<>>
    BY DEF RxInit
  <1>2. Handled.frame = 0 /\ Handled.at = 0 /\ Coming.frame = 0 /\ Coming.at = 1
    BY DEF RxInit, Handled, Coming
  <1>3. Behind(rx, rxDone) = <<>> /\ Len(<<>>) = 0
    BY <1>1, EmptySeq, NoneDone
  <1>4. Row(Handled, <<>>, <<>>, <<>>, Coming)
    BY <1>2, <1>3 DEF Row, Ordered, AllBefore, Within, Before
  <1>5. served \in Seq([frame : Nat, whole : BOOLEAN]) /\ ServedInOrder
    BY <1>1, <1>3, EmptySeq DEF ServedInOrder
  <1> QED  BY <1>1, <1>3, <1>4, <1>5 DEF InRow

\* Whatever is damaged, cut off, given up or read ahead, for any sizes, the
\* agent handles the requests in the PC's order and none twice: between the
\* cable and agent_tick nothing is put back or passed over and met again.
THEOREM HandledInOrder == RxSpec => []ServedInOrder
  <1>1. Bounded /\ InRow /\ [RxNext]_rxVars => (Bounded /\ InRow)'
    <2> SUFFICES ASSUME Bounded, InRow, [RxNext]_rxVars PROVE Bounded' /\ InRow'
      OBVIOUS
    <2>1. CASE SendMessage \/ CutOff \/ SendOther
      BY <2>1, BoundedLine, RowLine
    <2>2. CASE BeginTick \/ PullQueued \/ PullUsb
      BY <2>2, BoundedTick, BoundedQueued, BoundedUsb, RowTick, RowQueued, RowUsb
    <2>3. CASE ServeFrame \/ KeepPartial \/ ReadAhead
      BY <2>3, BoundedServe, BoundedPartial, BoundedAhead, RowFrame, RowPartial, RowAhead
    <2>4. CASE UNCHANGED rxVars
      <3>1. UNCHANGED <<writing, usb, rxq, rx, rxDone, served>>
        BY <2>4 DEF rxVars, line, driver, agentRx
      <3>2. InRow'
        BY <3>1 DEF InRow, Handled, Coming, ServedInOrder
      <3> QED  BY <2>4, <3>2 DEF Bounded, RxTypeOK, Shapes, rxVars, line, driver, agentRx
    <2> QED  BY <2>1, <2>2, <2>3, <2>4 DEF RxNext
  <1>2. InRow => ServedInOrder
    BY DEF InRow
  <1> QED  BY <1>1, <1>2, BoundedInit, RowInit, PTL DEF RxSpec

-----------------------------------------------------------------------------
(* Requests are handled whole: with no loss between two cells, the second  *)
(* goes on where the first left off, unless that ended its frame, s_rx     *)
(* cannot hold the frame, or the frame was cut off and followed too soon.  *)

Sender == [writing |-> writing, hurried |-> hurried, cutOff |-> cutOff]

Ended(p, x) == x.at = x.of \/ x.of > RxCap \/ x.frame \in p.hurried
Follows(p, x, y) == Ended(p, x) \/ (y.frame = x.frame /\ y.at = x.at + 1 /\ y.of = x.of)
Steps(p, s) == \A i \in 1..Len(s) : i + 1 <= Len(s) => Follows(p, s[i], s[i + 1])

\* The frame of a cell with nothing behind it yet: the PC has to go on with
\* it, or it has cut it off.
Open(p, x) ==
  \/ Ended(p, x)
  \/ /\ x.frame = p.writing.frame /\ x.of = p.writing.of
     /\ x.at = p.writing.sent /\ x.at < x.of
  \/ x.frame = p.writing.frame /\ p.cutOff

\* What comes behind a cell, with the messages u from k on next.
Bare(u, k, n) == \A l \in k..n : u[l].cells = <<>>
Leads(p, x, u, k) ==
  /\ \A m \in k..Len(u) :
       u[m].kind = "L3" /\ Bare(u, k, m - 1) => Follows(p, x, u[m].cells[1])
  /\ Bare(u, k, Len(u)) => Open(p, x)
Linked(p, s, u, k) == Steps(p, s) /\ (s # <<>> => Leads(p, s[Len(s)], u, k))

Chained(p, u) ==
  \A m \in 1..Len(u) : /\ u[m].kind = "other" <=> u[m].cells = <<>>
                       /\ u[m].kind = "L3" => Linked(p, u[m].cells, u, m + 1)

\* The agent's cells, the driver's, with a loss behind the first n of them or
\* none, and the cart's.
Flow(p, a, q, lost, n, u) ==
  /\ Chained(p, u)
  /\ IF lost THEN Steps(p, a \o SubSeq(q, 1, n)) /\ Linked(p, Behind(q, n), u, 1)
     ELSE Linked(p, a \o q, u, 1)

\* A sequence that is the end of another one.
AtEnd(t, s) ==
  /\ Len(t) <= Len(s)
  /\ \A i \in 1..Len(t) : t[i] = s[Len(s) - Len(t) + i]

LEMMA StepsOfPart ==
  ASSUME NEW p, NEW s \in Seq(Cell), NEW t \in Seq(Cell), Part(t, s), Steps(p, s)
  PROVE  Steps(p, t)
  <1>1. PICK k \in Nat : \A i \in 1..Len(t) : k + i \in 1..Len(s) /\ t[i] = s[k + i]
    BY DEF Part
  <1>2. ASSUME NEW i \in 1..Len(t), i + 1 <= Len(t)
        PROVE  Follows(p, t[i], t[i + 1])
    <2>1. i + 1 \in 1..Len(t) /\ k + (i + 1) = (k + i) + 1
      BY <1>2
    <2>2. k + i \in 1..Len(s) /\ (k + i) + 1 \in 1..Len(s)
          /\ t[i] = s[k + i] /\ t[i + 1] = s[(k + i) + 1]
      BY <1>1, <2>1
    <2>3. (k + i) + 1 <= Len(s)
      BY <2>2
    <2> QED  BY <2>2, <2>3 DEF Steps
  <1> QED  BY <1>2 DEF Steps

LEMMA EndIsPart ==
  ASSUME NEW s \in Seq(Cell), NEW t \in Seq(Cell), AtEnd(t, s)
  PROVE  Part(t, s)
  <1>1. Len(s) \in Nat /\ Len(t) \in Nat /\ Len(s) - Len(t) \in Nat
    BY DEF AtEnd
  <1>2. \A i \in 1..Len(t) : (Len(s) - Len(t)) + i \in 1..Len(s)
                             /\ t[i] = s[(Len(s) - Len(t)) + i]
    BY <1>1 DEF AtEnd
  <1> QED  BY <1>1, <1>2 DEF Part

LEMMA LinkedEnd ==
  ASSUME NEW p, NEW u, NEW k, NEW s \in Seq(Cell), NEW t \in Seq(Cell), AtEnd(t, s),
         Linked(p, s, u, k)
  PROVE  Linked(p, t, u, k)
  <1>1. Steps(p, t)
    BY EndIsPart, StepsOfPart DEF Linked
  <1>2. ASSUME t # <<>> PROVE s # <<>> /\ t[Len(t)] = s[Len(s)]
    <2>1. Len(t) \in Nat /\ Len(t) # 0 /\ Len(s) \in Nat
      BY <1>2
    <2>2. t[Len(t)] = s[Len(s) - Len(t) + Len(t)] /\ Len(s) # 0
      BY <2>1 DEF AtEnd
    <2> QED  BY <2>1, <2>2
  <1> QED  BY <1>1, <1>2 DEF Linked

\* Two stretches joined, the second going on where the first left off.
LEMMA StepsJoined ==
  ASSUME NEW p, NEW s \in Seq(Cell), NEW t \in Seq(Cell), Steps(p, s), Steps(p, t),
         s # <<>> /\ t # <<>> => Follows(p, s[Len(s)], t[1])
  PROVE  Steps(p, s \o t)
  <1>1. /\ Len(s \o t) = Len(s) + Len(t) /\ Len(s) \in Nat /\ Len(t) \in Nat
        /\ \A i \in 1..Len(s) + Len(t) :
             (s \o t)[i] = IF i <= Len(s) THEN s[i] ELSE t[i - Len(s)]
    BY ConcatProperties
  <1>2. ASSUME NEW i \in 1..Len(s \o t), i + 1 <= Len(s \o t)
        PROVE  Follows(p, (s \o t)[i], (s \o t)[i + 1])
    <2>1. CASE i + 1 <= Len(s)
      <3>1. (s \o t)[i] = s[i] /\ (s \o t)[i + 1] = s[i + 1] /\ i \in 1..Len(s)
        BY <1>1, <1>2, <2>1
      <3> QED  BY <2>1, <3>1 DEF Steps
    <2>2. CASE i = Len(s)
      <3>1. (s \o t)[i] = s[Len(s)] /\ (s \o t)[i + 1] = t[1] /\ Len(s) # 0 /\ Len(t) # 0
        BY <1>1, <1>2, <2>2
      <3> QED  BY <1>1, <3>1
    <2>3. CASE i > Len(s)
      <3> DEFINE j == i - Len(s)
      <3>1. j \in 1..Len(t) /\ j + 1 <= Len(t)
        BY <1>1, <1>2, <2>3
      <3>2. (s \o t)[i] = t[j] /\ (s \o t)[i + 1] = t[j + 1]
        <4>1. i + 1 - Len(s) = j + 1 /\ i + 1 \in 1..Len(s) + Len(t) /\ ~(i + 1 <= Len(s))
          BY <1>1, <1>2, <2>3
        <4> QED  BY <1>1, <1>2, <2>3, <4>1
      <3> QED  BY <3>1, <3>2 DEF Steps
    <2>4. i \in Nat
      BY <1>1
    <2>5. i + 1 <= Len(s) \/ i = Len(s) \/ i > Len(s)
      BY <1>1, <2>4
    <2> QED  BY <2>1, <2>2, <2>3, <2>5
  <1> QED  BY <1>2 DEF Steps

LEMMA EndJoined ==
  ASSUME NEW s \in Seq(Cell), NEW t \in Seq(Cell), AtEnd(t, s), NEW q \in Seq(Cell)
  PROVE  AtEnd(t \o q, s \o q)
  <1>1. /\ Len(s \o q) = Len(s) + Len(q) /\ Len(t \o q) = Len(t) + Len(q)
        /\ Len(s) \in Nat /\ Len(t) \in Nat /\ Len(q) \in Nat /\ Len(t) <= Len(s)
        /\ \A i \in 1..Len(s) + Len(q) :
             (s \o q)[i] = IF i <= Len(s) THEN s[i] ELSE q[i - Len(s)]
        /\ \A i \in 1..Len(t) + Len(q) :
             (t \o q)[i] = IF i <= Len(t) THEN t[i] ELSE q[i - Len(t)]
    BY ConcatProperties DEF AtEnd
  <1>2. ASSUME NEW i \in 1..Len(t \o q)
        PROVE  (t \o q)[i] = (s \o q)[Len(s \o q) - Len(t \o q) + i]
    <2> DEFINE j == Len(s) - Len(t) + i
    <2>1. j \in 1..Len(s) + Len(q) /\ Len(s \o q) - Len(t \o q) + i = j
      BY <1>1
    <2>2. CASE i <= Len(t)
      <3>1. t[i] = s[j] /\ j <= Len(s)
        BY <1>1, <2>2 DEF AtEnd
      <3> QED  BY <1>1, <2>1, <2>2, <3>1
    <2>3. CASE i > Len(t)
      <3>1. j - Len(s) = i - Len(t) /\ ~(j <= Len(s))
        BY <1>1, <2>3
      <3> HIDE DEF j
      <3> QED  BY <1>1, <2>1, <2>3, <3>1
    <2> QED  BY <1>1, <2>2, <2>3
  <1> QED  BY <1>1, <1>2 DEF AtEnd

LEMMA EndsAre ==
  ASSUME NEW s \in Seq(Cell)
  PROVE  AtEnd(<<>>, s) /\ AtEnd(s, s) /\ AtEnd(FromHeader(s), s)
         /\ \A n \in 0..Len(s) : AtEnd(Behind(s, n), s)
  <1>1. Len(s) \in Nat /\ Len(<<>>) = 0
    OBVIOUS
  <1>2. AtEnd(<<>>, s) /\ AtEnd(s, s)
    BY <1>1 DEF AtEnd
  <1>3. ASSUME NEW n \in 0..Len(s) PROVE AtEnd(Behind(s, n), s)
    <2>1. /\ Len(Behind(s, n)) = Len(s) - n
          /\ \A i \in 1..Len(s) - n : Behind(s, n)[i] = s[n + i]
      BY BehindIs
    <2>2. Len(s) - (Len(s) - n) = n
      BY <1>1
    <2> QED  BY <1>1, <2>1, <2>2 DEF AtEnd
  <1>4. AtEnd(FromHeader(s), s)
    <2>1. CASE FromHeader(s) = <<>>
      BY <1>2, <2>1
    <2>2. CASE FromHeader(s) # <<>>
      <3>1. PICK n \in 1..Len(s) : FromHeader(s) = Behind(s, n - 1)
        BY <2>2, HeldIs
      <3>2. n - 1 \in 0..Len(s)
        BY <1>1
      <3> QED  BY <1>3, <3>1, <3>2
    <2> QED  BY <2>1, <2>2
  <1> QED  BY <1>2, <1>3, <1>4

LEMMA Regrouped == \A x, y, z \in Seq(Cell) : (x \o y) \o z = x \o (y \o z)
  BY ConcatAssociative

\* A queue whose first n cells went elsewhere, put together again.
LEMMA Rejoined ==
  ASSUME NEW h \in Seq(Cell), NEW q \in Seq(Cell), NEW k \in 0..Len(q), NEW n \in 0..k
  PROVE  /\ (h \o SubSeq(q, 1, n)) \o SubSeq(Behind(q, n), 1, k - n) = h \o SubSeq(q, 1, k)
         /\ (h \o SubSeq(q, 1, n)) \o Behind(q, n) = h \o q
         /\ Behind(Behind(q, n), k - n) = Behind(q, k)
  <1> DEFINE t == SubSeq(q, 1, n)
             w == Behind(q, n)
             v == SubSeq(w, 1, k - n)
  <1>1. n \in 0..Len(q) /\ n \in Nat /\ k \in Nat /\ Len(q) \in Nat /\ n <= k /\ k <= Len(q)
    OBVIOUS
  <1>2. /\ t \in Seq(Cell) /\ Len(t) = n /\ \A i \in 1..n : t[i] = q[i]
        /\ w \in Seq(Cell) /\ Len(w) = Len(q) - n /\ \A i \in 1..Len(q) - n : w[i] = q[n + i]
    BY <1>1, UpToIs, BehindIs
  <1> HIDE DEF t, w
  <1>3. k - n \in 0..Len(w)
    BY <1>1, <1>2
  <1>4. v \in Seq(Cell) /\ Len(v) = k - n /\ \A i \in 1..k - n : v[i] = w[i]
    BY <1>2, <1>3, UpToIs
  <1>5. /\ Behind(w, k - n) \in Seq(Cell) /\ Len(Behind(w, k - n)) = Len(w) - (k - n)
        /\ \A i \in 1..Len(w) - (k - n) : Behind(w, k - n)[i] = w[k - n + i]
    BY <1>2, <1>3, BehindIs
  <1> HIDE DEF v
  <1>6. t \o v = SubSeq(q, 1, k)
    <2>1. /\ t \o v \in Seq(Cell) /\ Len(t \o v) = Len(t) + Len(v)
          /\ \A i \in 1..Len(t) + Len(v) :
               (t \o v)[i] = IF i <= Len(t) THEN t[i] ELSE v[i - Len(t)]
      BY <1>2, <1>4, ConcatProperties
    <2>2. SubSeq(q, 1, k) \in Seq(Cell) /\ Len(SubSeq(q, 1, k)) = k
          /\ \A i \in 1..k : SubSeq(q, 1, k)[i] = q[i]
      BY UpToIs
    <2>3. ASSUME NEW i \in 1..k PROVE (t \o v)[i] = q[i]
      <3>1. CASE i <= n
        BY <1>1, <1>2, <1>4, <2>1, <3>1
      <3>2. CASE i > n
        <4>1. i - n \in 1..k - n /\ i - n \in 1..Len(q) - n /\ n + (i - n) = i
          BY <1>1, <3>2
        <4>2. (t \o v)[i] = v[i - n]
          BY <1>1, <1>2, <1>4, <2>1, <3>2
        <4> QED  BY <1>2, <1>4, <4>1, <4>2
      <3>3. i <= n \/ i > n
        BY <1>1
      <3> QED  BY <3>1, <3>2, <3>3
    <2>4. Len(t \o v) = k
      BY <1>1, <1>2, <1>4, <2>1
    <2> QED  BY <2>1, <2>2, <2>3, <2>4, SeqEqual
  <1>7. t \o w = q
    <2>1. /\ t \o w \in Seq(Cell) /\ Len(t \o w) = Len(t) + Len(w)
          /\ \A i \in 1..Len(t) + Len(w) :
               (t \o w)[i] = IF i <= Len(t) THEN t[i] ELSE w[i - Len(t)]
      BY <1>2, ConcatProperties
    <2>2. ASSUME NEW i \in 1..Len(q) PROVE (t \o w)[i] = q[i]
      <3>1. CASE i <= n
        BY <1>1, <1>2, <2>1, <3>1
      <3>2. CASE i > n
        <4>1. i - n \in 1..Len(q) - n /\ n + (i - n) = i
          BY <1>1, <3>2
        <4>2. (t \o w)[i] = w[i - n]
          BY <1>1, <1>2, <2>1, <3>2
        <4> QED  BY <1>2, <4>1, <4>2
      <3>3. i <= n \/ i > n
        BY <1>1
      <3> QED  BY <3>1, <3>2, <3>3
    <2>3. Len(t \o w) = Len(q)
      BY <1>1, <1>2, <2>1
    <2> QED  BY <2>1, <2>2, <2>3, SeqEqual
  <1>8. Behind(w, k - n) = Behind(q, k)
    <2>1. /\ Behind(q, k) \in Seq(Cell) /\ Len(Behind(q, k)) = Len(q) - k
          /\ \A i \in 1..Len(q) - k : Behind(q, k)[i] = q[k + i]
      BY BehindIs
    <2>2. Len(w) - (k - n) = Len(q) - k
      BY <1>1, <1>2
    <2>3. ASSUME NEW i \in 1..Len(q) - k PROVE Behind(w, k - n)[i] = q[k + i]
      <3>1. k - n + i \in 1..Len(q) - n /\ n + (k - n + i) = k + i
        BY <1>1
      <3> QED  BY <1>2, <1>5, <2>2, <3>1
    <2> QED  BY <1>5, <2>1, <2>2, <2>3, SeqEqual
  <1>9. (h \o t) \o v = h \o (t \o v) /\ (h \o t) \o w = h \o (t \o w)
    BY <1>2, <1>4, Regrouped
  <1> QED  BY <1>6, <1>7, <1>8, <1>9 DEF t, w, v

\* The cart's first message leaves.
LEMMA LeadsOfTail ==
  ASSUME NEW p, NEW x, NEW u \in Seq(Message), u # <<>>, NEW k \in Nat \ {0},
         Leads(p, x, u, k + 1)
  PROVE  Leads(p, x, Tail(u), k)
  <1> DEFINE v == Tail(u)
  <1>1. /\ Len(v) = Len(u) - 1 /\ Len(u) \in Nat /\ Len(v) \in Nat
        /\ \A i \in 1..Len(v) : v[i] = u[i + 1]
    BY HeadTailProperties
  <1> HIDE DEF v
  <1>2. ASSUME NEW n \in Nat, n <= Len(v), Bare(v, k, n) PROVE Bare(u, k + 1, n + 1)
    <2>1. ASSUME NEW l \in k + 1..n + 1 PROVE u[l].cells = <<>>
      <3>1. l - 1 \in k..n /\ l - 1 \in 1..Len(v) /\ (l - 1) + 1 = l
        BY <1>1, <1>2
      <3>2. v[l - 1] = u[l]
        BY <1>1, <3>1
      <3> QED  BY <1>2, <3>1, <3>2 DEF Bare
    <2> QED  BY <2>1 DEF Bare
  <1>3. ASSUME NEW m \in k..Len(v), v[m].kind = "L3", Bare(v, k, m - 1)
        PROVE  Follows(p, x, v[m].cells[1])
    <2>1. m \in 1..Len(v) /\ m + 1 \in k + 1..Len(u) /\ m - 1 \in Nat /\ m - 1 <= Len(v)
          /\ (m - 1) + 1 = (m + 1) - 1
      BY <1>1
    <2>2. v[m] = u[m + 1]
      BY <1>1, <2>1
    <2>3. Bare(u, k + 1, (m + 1) - 1)
      BY <1>2, <1>3, <2>1
    <2> QED  BY <1>3, <2>1, <2>2, <2>3 DEF Leads
  <1>4. ASSUME Bare(v, k, Len(v)) PROVE Open(p, x)
    <2>1. Len(v) + 1 = Len(u) /\ Len(v) <= Len(v)
      BY <1>1
    <2>2. Bare(u, k + 1, Len(u))
      BY <1>1, <1>2, <1>4, <2>1
    <2> QED  BY <2>2 DEF Leads
  <1> QED  BY <1>3, <1>4 DEF Leads, v

LEMMA ChainedTail ==
  ASSUME NEW p, NEW u \in Seq(Message), u # <<>>, Chained(p, u)
  PROVE  Chained(p, Tail(u))
  <1> DEFINE v == Tail(u)
  <1>1. /\ Len(v) = Len(u) - 1 /\ Len(u) \in Nat /\ Len(v) \in Nat
        /\ \A i \in 1..Len(v) : v[i] = u[i + 1]
    BY HeadTailProperties
  <1>2. ASSUME NEW m \in 1..Len(v)
        PROVE  /\ v[m].kind = "other" <=> v[m].cells = <<>>
               /\ v[m].kind = "L3" => Linked(p, v[m].cells, v, m + 1)
    <2>1. m + 1 \in 1..Len(u) /\ v[m] = u[m + 1] /\ m + 1 \in Nat \ {0}
      BY <1>1
    <2>2. /\ u[m + 1].kind = "other" <=> u[m + 1].cells = <<>>
          /\ u[m + 1].kind = "L3" => Linked(p, u[m + 1].cells, u, (m + 1) + 1)
      BY <2>1 DEF Chained
    <2>3. ASSUME Linked(p, v[m].cells, u, (m + 1) + 1) PROVE Linked(p, v[m].cells, v, m + 1)
      BY <2>1, <2>3, LeadsOfTail DEF Linked
    <2> QED  BY <2>1, <2>2, <2>3
  <1> QED  BY <1>2 DEF Chained

\* Another program's message leaves, or the agent's own is put behind what was read.
LEMMA LinkedTail ==
  ASSUME NEW p, NEW u \in Seq(Message), u # <<>>, Chained(p, u),
         NEW s \in Seq(Cell), Linked(p, s, u, 1)
  PROVE  /\ Head(u).kind = "other" => Linked(p, s, Tail(u), 1)
         /\ Head(u).kind = "L3" => Linked(p, s \o Head(u).cells, Tail(u), 1)
  <1> DEFINE h == Head(u).cells
  <1>1. Len(u) \in Nat /\ 1 \in 1..Len(u) /\ Head(u) = u[1] /\ u[1] \in Message
    BY ElementOfSeq
  <1>2. h \in Seq(Cell) /\ h = u[1].cells
    BY <1>1 DEF Message
  <1>3. /\ Head(u).kind = "other" <=> h = <<>>
        /\ Head(u).kind = "L3" => Linked(p, h, u, 2)
    <2>1. 1 + 1 = 2
      OBVIOUS
    <2> QED  BY <1>1, <2>1 DEF Chained
  <1> HIDE DEF h
  <1>4. ASSUME Head(u).kind = "other" PROVE Linked(p, s, Tail(u), 1)
    <2>1. ASSUME s # <<>> PROVE Leads(p, s[Len(s)], Tail(u), 1)
      <3> DEFINE x == s[Len(s)]
      <3>1. Leads(p, x, u, 1)
        BY <2>1 DEF Linked
      <3> HIDE DEF x
      <3>2. \A n \in Int : Bare(u, 2, n) => Bare(u, 1, n)
        BY <1>2, <1>3, <1>4 DEF Bare
      <3>3. ASSUME NEW m \in 2..Len(u), u[m].kind = "L3", Bare(u, 2, m - 1)
            PROVE  Follows(p, x, u[m].cells[1])
        <4>1. m \in 1..Len(u) /\ Bare(u, 1, m - 1)
          BY <1>1, <3>2, <3>3
        <4> QED  BY <3>1, <3>3, <4>1 DEF Leads
      <3>4. Bare(u, 2, Len(u)) => Open(p, x)
        BY <1>1, <3>1, <3>2 DEF Leads
      <3>5. Leads(p, x, u, 1 + 1)
        BY <3>3, <3>4 DEF Leads
      <3> QED  BY <3>5, LeadsOfTail DEF x
    <2> QED  BY <2>1 DEF Linked
  <1>5. ASSUME Head(u).kind = "L3" PROVE Linked(p, s \o h, Tail(u), 1)
    <2>1. h # <<>> /\ Steps(p, h) /\ Leads(p, h[Len(h)], u, 1 + 1)
      BY <1>3, <1>5 DEF Linked
    <2>2. s # <<>> => Follows(p, s[Len(s)], h[1])
      <3>1. Bare(u, 1, 1 - 1)
        BY DEF Bare
      <3> QED  BY <1>1, <1>2, <1>5, <3>1 DEF Linked, Leads
    <2>3. Steps(p, s \o h)
      BY <1>2, <2>1, <2>2, StepsJoined DEF Linked
    <2>4. (s \o h)[Len(s \o h)] = h[Len(h)]
      <3>1. Len(s) \in Nat /\ Len(h) \in Nat \ {0}
        BY <1>2, <2>1
      <3>2. /\ Len(s \o h) = Len(s) + Len(h)
            /\ \A i \in 1..Len(s) + Len(h) :
                 (s \o h)[i] = IF i <= Len(s) THEN s[i] ELSE h[i - Len(s)]
        BY <1>2, ConcatProperties
      <3>3. Len(s) + Len(h) \in 1..Len(s) + Len(h) /\ ~(Len(s) + Len(h) <= Len(s))
            /\ Len(s) + Len(h) - Len(s) = Len(h)
        BY <3>1
      <3> QED  BY <3>2, <3>3
    <2>5. Leads(p, h[Len(h)], Tail(u), 1)
      BY <2>1, LeadsOfTail
    <2> QED  BY <2>3, <2>4, <2>5 DEF Linked
  <1> QED  BY <1>4, <1>5 DEF h

\* The PC goes on: what had an end keeps it.
LEMMA StepsOn ==
  ASSUME NEW p, NEW p1, p.hurried \subseteq p1.hurried
  PROVE  /\ \A x, y : Follows(p, x, y) => Follows(p1, x, y)
         /\ \A s : Steps(p, s) => Steps(p1, s)
  <1>1. \A x, y : Follows(p, x, y) => Follows(p1, x, y)
    BY DEF Follows, Ended
  <1> QED  BY <1>1 DEF Steps

LEMMA LeadsOn ==
  ASSUME NEW p, NEW p1, p.hurried \subseteq p1.hurried, NEW x, NEW u, NEW k,
         Leads(p, x, u, k), Open(p, x) => Open(p1, x)
  PROVE  Leads(p1, x, u, k)
  BY StepsOn DEF Leads

LEMMA LeadsAppended ==
  ASSUME NEW p, NEW p1, p.hurried \subseteq p1.hurried, NEW x,
         NEW u \in Seq(Message), NEW m \in Message, NEW k \in 1..Len(u) + 1,
         Leads(p, x, u, k),
         m.kind = "L3" /\ Open(p, x) => Follows(p1, x, m.cells[1]),
         m.cells = <<>> /\ Open(p, x) => Open(p1, x)
  PROVE  Leads(p1, x, Append(u, m), k)
  <1> DEFINE v == Append(u, m)
  <1>1. /\ Len(v) = Len(u) + 1 /\ \A i \in 1..Len(u) : v[i] = u[i]
        /\ v[Len(u) + 1] = m /\ Len(u) \in Nat
    BY AppendProperties
  <1> HIDE DEF v
  <1>2. ASSUME NEW n \in Int, n <= Len(u), Bare(v, k, n) PROVE Bare(u, k, n)
    <2>1. ASSUME NEW l \in k..n PROVE u[l].cells = <<>>
      <3>1. l \in 1..Len(u)
        BY <1>1, <1>2
      <3> QED  BY <1>1, <1>2, <3>1 DEF Bare
    <2> QED  BY <2>1 DEF Bare
  <1>3. ASSUME NEW i \in k..Len(v), v[i].kind = "L3", Bare(v, k, i - 1)
        PROVE  Follows(p1, x, v[i].cells[1])
    <2>1. i - 1 \in Int /\ i - 1 <= Len(u)
      BY <1>1
    <2>2. Bare(u, k, i - 1)
      BY <1>2, <1>3, <2>1
    <2>3. CASE i <= Len(u)
      <3>1. i \in k..Len(u) /\ v[i] = u[i]
        BY <1>1, <2>3
      <3>2. Follows(p, x, u[i].cells[1])
        BY <1>3, <2>2, <3>1 DEF Leads
      <3>3. Follows(p1, x, u[i].cells[1])
        BY <3>2 DEF Follows, Ended
      <3> QED  BY <3>1, <3>3
    <2>4. CASE i = Len(u) + 1
      <3>1. Bare(u, k, Len(u)) /\ v[i] = m
        BY <1>1, <2>2, <2>4
      <3> QED  BY <1>3, <3>1 DEF Leads
    <2> QED  BY <1>1, <2>3, <2>4
  <1>4. ASSUME Bare(v, k, Len(v)) PROVE Open(p1, x)
    <2>1. Bare(v, k, Len(u)) /\ m.cells = <<>>
      BY <1>1, <1>4 DEF Bare
    <2>2. Bare(u, k, Len(u))
      BY <1>1, <1>2, <2>1
    <2> QED  BY <2>1, <2>2 DEF Leads
  <1> QED  BY <1>3, <1>4 DEF Leads, v

LEMMA LinkedAppended ==
  ASSUME NEW p, NEW p1, p.hurried \subseteq p1.hurried,
         NEW u \in Seq(Message), NEW m \in Message, NEW k \in 1..Len(u) + 1,
         NEW s \in Seq(Cell), Linked(p, s, u, k),
         \A x \in Cell : /\ m.kind = "L3" /\ Open(p, x) => Follows(p1, x, m.cells[1])
                         /\ m.cells = <<>> /\ Open(p, x) => Open(p1, x)
  PROVE  Linked(p1, s, Append(u, m), k)
  <1>1. Steps(p1, s)
    BY StepsOn DEF Linked
  <1>2. ASSUME s # <<>> PROVE Leads(p1, s[Len(s)], Append(u, m), k)
    <2>1. s[Len(s)] \in Cell
      <3>1. Len(s) \in 1..Len(s)
        BY <1>2
      <3> QED  BY <3>1, ElementOfSeq
    <2>2. Leads(p, s[Len(s)], u, k)
      BY <1>2 DEF Linked
    <2> QED  BY <2>1, <2>2, LeadsAppended
  <1> QED  BY <1>1, <1>2 DEF Linked

LEMMA CellsOf ==
  ASSUME NEW u \in Seq(Message)
  PROVE  \A i \in 1..Len(u) : u[i].cells \in Seq(Cell)
  <1>1. \A i \in 1..Len(u) : u[i] \in Message
    BY ElementOfSeq
  <1> QED  BY <1>1 DEF Message

\* A message the PC writes goes on where it left off.
GoesOn(p, p1, m) ==
  /\ p.hurried \subseteq p1.hurried
  /\ \A x \in Cell : /\ m.kind = "L3" /\ Open(p, x) => Follows(p1, x, m.cells[1])
                     /\ m.cells = <<>> /\ Open(p, x) => Open(p1, x)
  /\ m.kind = "other" <=> m.cells = <<>>
  /\ m.kind = "L3" => Steps(p1, m.cells) /\ Open(p1, m.cells[Len(m.cells)])

LEMMA FlowAppended ==
  ASSUME NEW p, NEW p1,
         NEW a \in Seq(Cell), NEW q \in Seq(Cell), NEW lost \in BOOLEAN, NEW n,
         lost => n \in 0..Len(q),
         NEW u \in Seq(Message), NEW m \in Message, Flow(p, a, q, lost, n, u),
         GoesOn(p, p1, m)
  PROVE  Flow(p1, a, q, lost, n, Append(u, m))
  <1> DEFINE v == Append(u, m)
  <1>1. /\ Len(v) = Len(u) + 1 /\ \A i \in 1..Len(u) : v[i] = u[i]
        /\ v[Len(u) + 1] = m /\ Len(u) \in Nat
    BY AppendProperties
  <1>2. \A k \in 1..Len(u) + 1, s \in Seq(Cell) : Linked(p, s, u, k) => Linked(p1, s, v, k)
    BY LinkedAppended DEF GoesOn
  <1> HIDE DEF v
  <1>3. ASSUME NEW i \in 1..Len(v)
        PROVE  /\ v[i].kind = "other" <=> v[i].cells = <<>>
               /\ v[i].kind = "L3" => Linked(p1, v[i].cells, v, i + 1)
    <2>1. CASE i \in 1..Len(u)
      <3>1. v[i] = u[i] /\ i + 1 \in 1..Len(u) + 1 /\ u[i].cells \in Seq(Cell)
        BY <1>1, <2>1, CellsOf
      <3>2. /\ u[i].kind = "other" <=> u[i].cells = <<>>
            /\ u[i].kind = "L3" => Linked(p, u[i].cells, u, i + 1)
        BY <2>1 DEF Flow, Chained
      <3> QED  BY <1>2, <3>1, <3>2
    <2>2. CASE i = Len(u) + 1
      <3>1. v[i] = m
        BY <1>1, <2>2
      <3>2. ASSUME m.kind = "L3" PROVE Linked(p1, m.cells, v, i + 1)
        <4>1. \A l \in i + 1..Len(v) : FALSE
          BY <1>1, <2>2
        <4> QED  BY <3>2, <4>1 DEF Linked, Leads, GoesOn
      <3> QED  BY <3>1, <3>2 DEF GoesOn
    <2> QED  BY <1>1, <2>1, <2>2
  <1>4. Chained(p1, v)
    BY <1>3 DEF Chained
  <1>5. 1 \in 1..Len(u) + 1 /\ a \o q \in Seq(Cell)
    BY <1>1, ConcatProperties
  <1>6. CASE lost
    <2>1. Behind(q, n) \in Seq(Cell)
      BY <1>6, BehindIs
    <2>2. Steps(p, a \o SubSeq(q, 1, n)) /\ Linked(p, Behind(q, n), u, 1)
      BY <1>6 DEF Flow
    <2>3. Steps(p1, a \o SubSeq(q, 1, n))
      BY <2>2, StepsOn DEF GoesOn
    <2> QED  BY <1>2, <1>4, <1>5, <1>6, <2>1, <2>2, <2>3 DEF Flow, v
  <1>7. CASE ~lost
    BY <1>2, <1>4, <1>5, <1>7 DEF Flow, v
  <1> QED  BY <1>6, <1>7

LEMMA FlowKept ==
  ASSUME NEW p, NEW p1, p.hurried \subseteq p1.hurried,
         NEW a \in Seq(Cell), NEW q \in Seq(Cell), NEW lost \in BOOLEAN, NEW n,
         lost => n \in 0..Len(q),
         NEW u \in Seq(Message), Flow(p, a, q, lost, n, u),
         \A x \in Cell : Open(p, x) => Open(p1, x)
  PROVE  Flow(p1, a, q, lost, n, u)
  <1>1. ASSUME NEW s \in Seq(Cell), NEW k, Linked(p, s, u, k) PROVE Linked(p1, s, u, k)
    <2>1. Steps(p1, s)
      BY <1>1, StepsOn DEF Linked
    <2>2. ASSUME s # <<>> PROVE Leads(p1, s[Len(s)], u, k)
      <3>1. Len(s) \in 1..Len(s)
        BY <2>2
      <3>2. s[Len(s)] \in Cell
        BY <3>1, ElementOfSeq
      <3>3. Leads(p, s[Len(s)], u, k)
        BY <1>1, <2>2 DEF Linked
      <3> QED  BY <3>2, <3>3, LeadsOn
    <2> QED  BY <2>1, <2>2 DEF Linked
  <1>2. Chained(p1, u)
    BY <1>1, CellsOf DEF Flow, Chained
  <1>3. CASE lost
    <2>1. Behind(q, n) \in Seq(Cell)
      BY <1>3, BehindIs
    <2>2. Steps(p, a \o SubSeq(q, 1, n)) /\ Linked(p, Behind(q, n), u, 1)
      BY <1>3 DEF Flow
    <2>3. Steps(p1, a \o SubSeq(q, 1, n))
      BY <2>2, StepsOn
    <2> QED  BY <1>1, <1>2, <1>3, <2>1, <2>2, <2>3 DEF Flow
  <1>4. CASE ~lost
    <2>1. a \o q \in Seq(Cell)
      BY ConcatProperties
    <2> QED  BY <1>1, <1>2, <1>4, <2>1 DEF Flow
  <1> QED  BY <1>3, <1>4

\* The agent keeps the end of what it has, and may take the first cells of the queue.
LEMMA FlowDrops ==
  ASSUME NEW p, NEW u, NEW a \in Seq(Cell), NEW h \in Seq(Cell), AtEnd(h, a),
         NEW q \in Seq(Cell), NEW lost \in BOOLEAN, NEW k, lost => k \in 0..Len(q),
         Flow(p, a, q, lost, k, u)
  PROVE  Flow(p, h, q, lost, k, u)
  <1>1. CASE lost
    <2>1. SubSeq(q, 1, k) \in Seq(Cell)
      BY <1>1, UpToIs
    <2>2. /\ AtEnd(h \o SubSeq(q, 1, k), a \o SubSeq(q, 1, k))
          /\ h \o SubSeq(q, 1, k) \in Seq(Cell) /\ a \o SubSeq(q, 1, k) \in Seq(Cell)
      BY <2>1, EndJoined, ConcatProperties
    <2>3. Steps(p, h \o SubSeq(q, 1, k))
      BY <1>1, <2>2, EndIsPart, StepsOfPart DEF Flow
    <2> QED  BY <1>1, <2>3 DEF Flow
  <1>2. CASE ~lost
    <2>1. AtEnd(h \o q, a \o q) /\ h \o q \in Seq(Cell) /\ a \o q \in Seq(Cell)
      BY EndJoined, ConcatProperties
    <2>2. Linked(p, h \o q, u, 1)
      BY <1>2, <2>1, LinkedEnd DEF Flow
    <2> QED  BY <1>2, <2>2 DEF Flow
  <1> QED  BY <1>1, <1>2

LEMMA FlowTakes ==
  ASSUME NEW p, NEW u, NEW h \in Seq(Cell), NEW q \in Seq(Cell), NEW lost \in BOOLEAN,
         NEW k, lost => k \in 0..Len(q), Flow(p, h, q, lost, k, u),
         NEW n \in 0..Len(q), lost => n <= k,
         NEW k1, lost => k1 = k - n
  PROVE  Flow(p, h \o SubSeq(q, 1, n), Behind(q, n), lost, k1, u)
  <1>1. CASE lost
    <2>1. n \in 0..k /\ k \in 0..Len(q)
      BY <1>1
    <2>2. /\ (h \o SubSeq(q, 1, n)) \o SubSeq(Behind(q, n), 1, k - n) = h \o SubSeq(q, 1, k)
          /\ Behind(Behind(q, n), k - n) = Behind(q, k)
      BY <2>1, Rejoined
    <2> QED  BY <1>1, <2>2 DEF Flow
  <1>2. CASE ~lost
    <2>1. n \in 0..Len(q) /\ Len(q) \in 0..Len(q)
      OBVIOUS
    <2>2. (h \o SubSeq(q, 1, n)) \o Behind(q, n) = h \o q
      BY <2>1, Rejoined
    <2> QED  BY <1>2, <2>2 DEF Flow
  <1> QED  BY <1>1, <1>2

\* The agent meets the loss.
LEMMA FlowPast ==
  ASSUME NEW p, NEW u, NEW a \in Seq(Cell), NEW q \in Seq(Cell), NEW k,
         Flow(p, a, q, TRUE, 0, u)
  PROVE  Flow(p, <<>>, q, FALSE, k, u)
  <1>1. Behind(q, 0) = q /\ <<>> \o q = q
    BY NoneDone, ConcatEmptySeq
  <1> QED  BY <1>1 DEF Flow

\* What joins a queue does so behind its k-th cell.
LEMMA BehindJoined ==
  ASSUME NEW q \in Seq(Cell), NEW c \in Seq(Cell), NEW k \in 0..Len(q)
  PROVE  SubSeq(q \o c, 1, k) = SubSeq(q, 1, k) /\ Behind(q \o c, k) = Behind(q, k) \o c
  <1> DEFINE e == q \o c
             b == Behind(q, k)
             d == Behind(e, k)
             t == SubSeq(q, 1, k)
             r == SubSeq(e, 1, k)
  <1>1. k \in Nat /\ k <= Len(q) /\ Len(q) \in Nat /\ Len(c) \in Nat
    OBVIOUS
  <1>2. /\ e \in Seq(Cell) /\ Len(e) = Len(q) + Len(c)
        /\ \A i \in 1..Len(q) + Len(c) :
             e[i] = IF i <= Len(q) THEN q[i] ELSE c[i - Len(q)]
    BY ConcatProperties
  <1> HIDE DEF e
  <1>3. k \in 0..Len(e)
    BY <1>1, <1>2
  <1>4. /\ t \in Seq(Cell) /\ Len(t) = k /\ \A i \in 1..k : t[i] = q[i]
        /\ r \in Seq(Cell) /\ Len(r) = k /\ \A i \in 1..k : r[i] = e[i]
    BY <1>2, <1>3, UpToIs
  <1>5. /\ b \in Seq(Cell) /\ Len(b) = Len(q) - k /\ \A i \in 1..Len(q) - k : b[i] = q[k + i]
        /\ d \in Seq(Cell) /\ Len(d) = Len(e) - k /\ \A i \in 1..Len(e) - k : d[i] = e[k + i]
    BY <1>2, <1>3, BehindIs
  <1> HIDE DEF b, d, t, r
  <1>6. r = t
    <2>1. \A i \in 1..k : r[i] = t[i]
      BY <1>1, <1>2, <1>4
    <2> QED  BY <1>4, <2>1, SeqEqual
  <1>7. /\ b \o c \in Seq(Cell) /\ Len(b \o c) = Len(b) + Len(c)
        /\ \A i \in 1..Len(b) + Len(c) :
             (b \o c)[i] = IF i <= Len(b) THEN b[i] ELSE c[i - Len(b)]
    BY <1>5, ConcatProperties
  <1>8. Len(d) = Len(b \o c) /\ Len(b) \in Nat /\ Len(b) + Len(c) = Len(e) - k
    BY <1>1, <1>2, <1>5, <1>7
  <1>9. ASSUME NEW i \in 1..Len(d) PROVE d[i] = (b \o c)[i]
    <2>1. i \in 1..Len(b) + Len(c) /\ k + i \in 1..Len(q) + Len(c) /\ d[i] = e[k + i]
      BY <1>1, <1>2, <1>5, <1>8
    <2>2. CASE i <= Len(b)
      <3>1. k + i <= Len(q) /\ i \in 1..Len(q) - k
        BY <1>1, <1>5, <2>1, <2>2
      <3>2. d[i] = q[k + i]
        BY <1>2, <2>1, <3>1
      <3>3. (b \o c)[i] = b[i] /\ b[i] = q[k + i]
        BY <1>5, <1>7, <2>1, <2>2, <3>1
      <3> QED  BY <3>2, <3>3
    <2>3. CASE ~(i <= Len(b))
      <3>1. ~(k + i <= Len(q)) /\ k + i - Len(q) = i - Len(b)
        BY <1>1, <1>5, <2>1, <2>3
      <3>2. d[i] = c[i - Len(b)]
        BY <1>2, <2>1, <3>1
      <3>3. (b \o c)[i] = c[i - Len(b)]
        BY <1>7, <2>1, <2>3
      <3> QED  BY <3>2, <3>3
    <2> QED  BY <2>2, <2>3
  <1>10. d = b \o c
    BY <1>5, <1>7, <1>8, <1>9, SeqEqual
  <1> QED  BY <1>6, <1>10 DEF e, b, d, t, r

\* The cart's first message joins the queue, or is none for the agent.
LEMMA FlowJoins ==
  ASSUME NEW p, NEW u \in Seq(Message), u # <<>>, NEW a \in Seq(Cell), NEW q \in Seq(Cell),
         NEW lost \in BOOLEAN, NEW k, lost => k \in 0..Len(q), Flow(p, a, q, lost, k, u),
         NEW c \in Seq(Cell),
         \/ Head(u).kind = "other" /\ c = <<>>
         \/ Head(u).kind = "L3" /\ c = Head(u).cells
  PROVE  Flow(p, a, q \o c, lost, k, Tail(u))
  <1>1. Chained(p, Tail(u)) /\ Chained(p, u)
    BY ChainedTail DEF Flow
  <1>2. ASSUME NEW s \in Seq(Cell), Linked(p, s, u, 1) PROVE Linked(p, s \o c, Tail(u), 1)
    <2>1. s \o <<>> = s
      BY ConcatEmptySeq
    <2> QED  BY <1>1, <1>2, <2>1, LinkedTail
  <1>3. CASE lost
    <2>1. k \in 0..Len(q) /\ Len(q) \in Nat /\ Len(c) \in Nat
      BY <1>3
    <2>2. SubSeq(q \o c, 1, k) = SubSeq(q, 1, k) /\ Behind(q \o c, k) = Behind(q, k) \o c
      BY <2>1, BehindJoined
    <2>3. Behind(q, k) \in Seq(Cell)
      BY <2>1, BehindIs
    <2> QED  BY <1>1, <1>2, <1>3, <2>2, <2>3 DEF Flow
  <1>4. CASE ~lost
    <2>1. a \o (q \o c) = (a \o q) \o c
      BY Regrouped
    <2>2. a \o q \in Seq(Cell)
      BY ConcatProperties
    <2> QED  BY <1>1, <1>2, <1>4, <2>1, <2>2 DEF Flow
  <1> QED  BY <1>3, <1>4

\* The cart's first message is lost; the queue is marked, or marked already.
LEMMA FlowLoses ==
  ASSUME NEW p, NEW u \in Seq(Message), u # <<>>, NEW a \in Seq(Cell), NEW q \in Seq(Cell),
         NEW lost \in BOOLEAN, NEW k, lost => k \in 0..Len(q), Flow(p, a, q, lost, k, u)
  PROVE  /\ \A n : Flow(p, <<>>, <<>>, FALSE, n, Tail(u))
         /\ ~lost => Flow(p, a, q, TRUE, Len(q), Tail(u))
         /\ lost => Flow(p, a, SubSeq(q, 1, k), TRUE, k, Tail(u))
  <1>1. Chained(p, Tail(u))
    BY ChainedTail DEF Flow
  <1>2. Linked(p, <<>>, Tail(u), 1) /\ <<>> \o <<>> = <<>>
    <2>1. Len(<<>>) = 0 /\ \A S : <<>> \in Seq(S)
      OBVIOUS
    <2> QED  BY <2>1, ConcatEmptySeq DEF Linked, Steps
  <1>3. \A n : Flow(p, <<>>, <<>>, FALSE, n, Tail(u))
    BY <1>1, <1>2 DEF Flow
  <1>4. \A s \in Seq(Cell) : Behind(s, Len(s)) = <<>> /\ SubSeq(s, 1, Len(s)) = s
    <2>1. ASSUME NEW s \in Seq(Cell) PROVE Behind(s, Len(s)) = <<>>
      <3>1. Len(s) \in 0..Len(s) /\ Len(s) - Len(s) = 0
        OBVIOUS
      <3>2. Behind(s, Len(s)) \in Seq(Cell) /\ Len(Behind(s, Len(s))) = 0
        BY <3>1, BehindIs
      <3> QED  BY <3>2
    <2> QED  BY <2>1, SubSeqFull
  <1>5. ASSUME ~lost PROVE Flow(p, a, q, TRUE, Len(q), Tail(u))
    <2>1. Steps(p, a \o q)
      BY <1>5 DEF Flow, Linked
    <2> QED  BY <1>1, <1>2, <1>4, <2>1 DEF Flow
  <1>6. ASSUME lost PROVE Flow(p, a, SubSeq(q, 1, k), TRUE, k, Tail(u))
    <2> DEFINE t == SubSeq(q, 1, k)
    <2>1. t \in Seq(Cell) /\ Len(t) = k /\ Steps(p, a \o t)
      BY <1>6, UpToIs DEF Flow
    <2> HIDE DEF t
    <2>2. Behind(t, k) = <<>> /\ SubSeq(t, 1, k) = t
      BY <1>4, <2>1
    <2>3. Flow(p, a, t, TRUE, k, Tail(u))
      BY <1>1, <1>2, <2>1, <2>2 DEF Flow
    <2> QED  BY <2>3 DEF t
  <1> QED  BY <1>3, <1>5, <1>6

\* What a call of the driver hands over: an L3 message's cells, nothing of one
\* that is lost or another program's.
LEMMA UsbResultIs ==
  ASSUME usb \in Seq(Message), NEW r \in UsbReceive
  PROVE  \/ r.usb = usb /\ r.message = <<>> /\ r.result # "lost"
         \/ /\ usb # <<>> /\ r.usb = Tail(usb)
            /\ \/ r.result = "lost" /\ r.message = <<>>
               \/ /\ r.result = "done"
                  /\ \/ Head(usb).kind = "other" /\ r.message = <<>>
                     \/ Head(usb).kind = "L3" /\ r.message = Head(usb).cells
  <1> DEFINE Outcome(result, left, phase, front, message) ==
               [result |-> result, usb |-> left, phase |-> phase, front |-> front,
                message |-> message]
             stopped == Outcome("busy", usb, rxPhase, rxqOff, <<>>)
             clear == Outcome("clear", usb, "header", rxqOff, <<>>)
             unframed == Outcome("lost", Tail(usb), "header", rxqOff, <<>>)
             other == Outcome("done", Tail(usb), "header", rxqOff, <<>>)
             full == Outcome("full", usb, "room", 0, <<>>)
             part == Outcome("busy", usb, "payload", RxqFront, <<>>)
             torn == Outcome("lost", Tail(usb), "header", RxqFront, <<>>)
             done == Outcome("done", Tail(usb), "header", RxqFront, Head(usb).cells)
             kind == Head(usb).kind
             Is(result, left, message) ==
               r.result = result /\ r.usb = left /\ r.message = message
  <1>1. UsbReceive =
          {stopped} \cup
          IF usb = <<>> THEN {clear}
          ELSE CASE kind = "unframed" -> {unframed}
                 [] kind = "other" -> {other}
                 [] kind \in {"L3", "torn"} /\ rxPhase # "payload" /\ ~RxqRoom -> {full}
                 [] OTHER -> {part, IF kind = "torn" THEN torn ELSE done}
    BY Zenon DEF UsbReceive
  <1>2. /\ r \in {stopped, part} => Is("busy", usb, <<>>)
        /\ r = clear => Is("clear", usb, <<>>)
        /\ r = full => Is("full", usb, <<>>)
        /\ r \in {unframed, torn} => Is("lost", Tail(usb), <<>>)
        /\ r = other => Is("done", Tail(usb), <<>>)
        /\ r = done => Is("done", Tail(usb), Head(usb).cells)
    OBVIOUS
  <1> HIDE DEF stopped, clear, unframed, other, full, part, torn, done, Outcome
  <1>3. usb # <<>> => kind \in {"L3", "unframed", "torn", "other"}
    <2>1. usb # <<>> => Head(usb) \in Message
      BY HeadTailProperties
    <2> QED  BY <2>1 DEF Message
  <1> HIDE DEF kind
  <1>4. CASE r = stopped \/ usb = <<>>
    <2>1. r \in {stopped, clear}
      BY <1>1, <1>4
    <2> QED  BY <1>2, <2>1
  <1>5. CASE r # stopped /\ usb # <<>> /\ kind = "unframed"
    <2>1. r = unframed
      BY <1>1, <1>5
    <2> QED  BY <1>2, <1>5, <2>1
  <1>6. CASE r # stopped /\ usb # <<>> /\ kind = "other"
    <2>1. r = other
      BY <1>1, <1>6
    <2> QED  BY <1>2, <1>6, <2>1 DEF kind
  <1>7. CASE r # stopped /\ usb # <<>> /\ kind = "torn"
    <2>1. r \in {full, part, torn}
      BY <1>1, <1>7
    <2> QED  BY <1>2, <1>7, <2>1
  <1>8. CASE r # stopped /\ usb # <<>> /\ kind = "L3"
    <2>1. r \in {full, part, done}
      BY <1>1, <1>8
    <2> QED  BY <1>2, <1>8, <2>1 DEF kind
  <1> QED  BY <1>3, <1>4, <1>5, <1>6, <1>7, <1>8

Unbroken ==
  /\ cutOff => writing.sent = writing.of
  /\ rx # <<>> => quietTicks <= idleTicks
  /\ Flow(Sender, Behind(rx, rxDone), rxq, rxqLost, rxqBeforeLoss, usb)
  /\ \A i \in 1..Len(served) : served[i].whole \/ served[i].frame \in hurried

\* What every action takes from the others' invariants.
LEMMA FlowTypes ==
  ASSUME Bounded
  PROVE  /\ rx \in Seq(Cell) /\ rxDone \in 0..Len(rx) /\ Behind(rx, rxDone) \in Seq(Cell)
         /\ rxq \in Seq(Cell) /\ rxqLost \in BOOLEAN
         /\ rxqLost => rxqBeforeLoss \in 0..Len(rxq)
         /\ usb \in Seq(Message)
         /\ writing \in [frame : Nat, sent : Nat, of : Nat] /\ writing.sent <= writing.of
  <1>1. /\ rx \in Seq(Cell) /\ rxDone \in 0..Len(rx) /\ rxq \in Seq(Cell)
        /\ usb \in Seq(Message)
    BY Sequences
  <1>2. Marked /\ Written
    BY BoundedParts
  <1> QED  BY <1>1, <1>2, BehindIs DEF Marked, Written

\* The cells of a chunk go on one from the other, and the PC from the last one.
LEMMA CellsFollow ==
  ASSUME NEW p, NEW frame \in Nat, NEW from \in Nat, NEW to \in Nat, NEW of \in Nat,
         from < to, to <= of, p.writing.frame = frame, p.writing.sent = to, p.writing.of = of,
         NEW cells, cells = Cells(frame, from, to, of)
  PROVE  /\ cells \in Seq(Cell) /\ cells # <<>> /\ Steps(p, cells)
         /\ cells[1].frame = frame /\ cells[1].at = from + 1 /\ cells[1].of = of
         /\ Open(p, cells[Len(cells)])
  <1> DEFINE cell(i) == [frame |-> frame, at |-> from + i, of |-> of]
  <1>1. to - from \in Nat /\ to - from # 0
    OBVIOUS
  <1>2. \A i \in 1..(to - from) : cell(i) \in Cell
    BY <1>1 DEF Cell
  <1>3. cells \in Seq(Cell)
    BY <1>1, <1>2, IsASeq DEF Cells
  <1>4. Len(cells) = to - from
    BY <1>1 DEF Cells
  <1>5. \A i \in 1..(to - from) :
          cells[i].frame = frame /\ cells[i].at = from + i /\ cells[i].of = of
    BY <1>1 DEF Cells
  <1> HIDE DEF cell
  <1>6. Steps(p, cells)
    <2>1. ASSUME NEW i \in 1..Len(cells), i + 1 <= Len(cells)
          PROVE  Follows(p, cells[i], cells[i + 1])
      <3>1. i \in 1..(to - from) /\ i + 1 \in 1..(to - from) /\ i \in Nat
        BY <1>1, <1>4, <2>1
      <3>2. from + (i + 1) = (from + i) + 1
        BY <3>1
      <3> QED  BY <1>5, <3>1, <3>2 DEF Follows
    <2> QED  BY <2>1 DEF Steps
  <1>7. /\ cells # <<>> /\ 1 \in 1..(to - from)
    <2>1. Len(<<>>) = 0
      OBVIOUS
    <2> QED  BY <1>1, <1>4, <2>1
  <1>8. Open(p, cells[Len(cells)])
    <2> DEFINE x == cells[Len(cells)]
    <2>1. x.frame = frame /\ x.at = from + (to - from) /\ x.of = of
      BY <1>1, <1>4, <1>5
    <2>2. from + (to - from) = to
      OBVIOUS
    <2>3. to = of \/ to < of
      OBVIOUS
    <2> HIDE DEF x
    <2>4. Open(p, x)
      BY <2>1, <2>2, <2>3 DEF Open, Ended
    <2> QED  BY <2>4 DEF x
  <1> QED  BY <1>3, <1>5, <1>6, <1>7, <1>8

\* Nothing that was sent is left with anybody, whatever the PC's state.
LEMMA FlowOfNothing ==
  ASSUME NEW p, NEW lost \in BOOLEAN, NEW n, lost => n = 0
  PROVE  Flow(p, <<>>, <<>>, lost, n, <<>>)
  <1>1. /\ Len(<<>>) = 0 /\ <<>> \in Seq(Cell) /\ <<>> \in Seq(Message)
    BY EmptySeq
  <1>2. <<>> \o <<>> = <<>> /\ Behind(<<>>, 0) = <<>> /\ SubSeq(<<>>, 1, 0) = <<>>
    <2>1. Behind(<<>>, 0) = <<>>
      BY <1>1, NoneDone
    <2>2. <<>> \o <<>> = <<>>
      BY <1>1, ConcatEmptySeq
    <2>3. SubSeq(<<>>, 1, 0) = <<>>
      BY SubSeqEmpty
    <2> QED  BY <2>1, <2>2, <2>3
  <1>3. Chained(p, <<>>) /\ Steps(p, <<>>)
    BY <1>1 DEF Chained, Steps
  <1> QED  BY <1>2, <1>3 DEF Flow, Linked

LEMMA UnbrokenSend ==
  ASSUME Bounded, Unbroken, SendMessage
  PROVE  Unbroken'
  <1>1. PICK kind \in {"L3", "unframed", "torn"},
             w \in IF writing.sent < writing.of THEN {writing}
                   ELSE [frame : {writing.frame + 1} \cap 1..MaxFrames, sent : {0}, of : Lengths] :
          LET upTo == Fewer(w.sent + Window, w.of)
          IN /\ writing' = [w EXCEPT !.sent = upTo]
             /\ usb' = Append(usb, [kind |-> kind, cells |-> Cells(w.frame, w.sent, upTo, w.of)])
             /\ hurried' = IF cutOff /\ ~WaitedOut THEN hurried \cup {writing.frame} ELSE hurried
             /\ cutOff' = FALSE
             /\ UNCHANGED <<driver, agentRx>>
    BY Zenon DEF SendMessage
  <1> DEFINE upTo == Fewer(w.sent + Window, w.of)
             cells == Cells(w.frame, w.sent, upTo, w.of)
             m == [kind |-> kind, cells |-> cells]
             a == Behind(rx, rxDone)
             p == Sender
             p1 == Sender'
  <1>2. /\ a \in Seq(Cell) /\ rxq \in Seq(Cell) /\ rxqLost \in BOOLEAN
        /\ rxqLost => rxqBeforeLoss \in 0..Len(rxq)
        /\ usb \in Seq(Message)
        /\ writing \in [frame : Nat, sent : Nat, of : Nat] /\ writing.sent <= writing.of
    BY FlowTypes
  <1>3. /\ Window \in Nat \ {0} /\ Lengths \subseteq Nat \ {0} /\ MaxFrames \in Nat
    BY SizesAssumption
  <1>4. /\ w \in [frame : Nat, sent : Nat, of : Nat] /\ w.sent < w.of
        /\ \/ w = writing /\ writing.sent < writing.of
           \/ w.sent = 0 /\ ~(writing.sent < writing.of)
    <2>1. CASE writing.sent < writing.of
      BY <1>1, <1>2, <2>1
    <2>2. CASE ~(writing.sent < writing.of)
      <3>1. w \in [frame : {writing.frame + 1} \cap 1..MaxFrames, sent : {0}, of : Lengths]
        BY <1>1, <2>2
      <3>2. w.sent = 0 /\ w.of \in Lengths
        BY <3>1
      <3>3. w \in [frame : Nat, sent : Nat, of : Nat]
        <4>1. /\ {writing.frame + 1} \cap 1..MaxFrames \subseteq Nat /\ {0} \subseteq Nat
              /\ Lengths \subseteq Nat
          BY <1>3
        <4> QED  BY <3>1, <4>1
      <3>4. w.of \in Nat /\ w.of # 0
        BY <1>3, <3>2
      <3> QED  BY <2>2, <3>2, <3>3, <3>4
    <2> QED  BY <2>1, <2>2
  <1>5. upTo \in Nat /\ upTo <= w.of /\ w.sent < upTo
    BY <1>3, <1>4 DEF Fewer
  <1>6. /\ writing' = [w EXCEPT !.sent = upTo] /\ usb' = Append(usb, m)
        /\ hurried' = IF cutOff /\ ~WaitedOut THEN hurried \cup {writing.frame} ELSE hurried
        /\ cutOff' = FALSE
        /\ UNCHANGED <<rxq, rxqLost, rxqBeforeLoss, rx, rxDone, idleTicks, quietTicks, served>>
    BY <1>1 DEF driver, agentRx
  <1> HIDE DEF upTo
  <1>7. writing'.frame = w.frame /\ writing'.sent = upTo /\ writing'.of = w.of
    BY <1>4, <1>6
  <1>8. /\ p1.writing = writing' /\ p1.hurried = hurried' /\ p1.cutOff = FALSE
        /\ p.writing = writing /\ p.hurried = hurried /\ p.cutOff = cutOff
    BY <1>6 DEF Sender
  <1> HIDE DEF p, p1, a
  <1>9. /\ cells \in Seq(Cell) /\ cells # <<>> /\ Steps(p1, cells)
        /\ cells[1].frame = w.frame /\ cells[1].at = w.sent + 1 /\ cells[1].of = w.of
        /\ Open(p1, cells[Len(cells)])
    <2>1. w.frame \in Nat /\ w.sent \in Nat /\ w.of \in Nat
      BY <1>4
    <2> QED  BY <1>5, <1>7, <1>8, <2>1, CellsFollow
  <1> HIDE DEF cells
  <1>10. m \in Message /\ m.cells = cells /\ m.kind = kind /\ m.kind # "other"
    BY <1>9 DEF Message
  <1> HIDE DEF m
  <1>11. hurried \subseteq hurried'
    BY <1>6
  <1>12. Flow(p1, a, rxq, rxqLost, rxqBeforeLoss, usb')
    <2>1. CASE ~(w.sent = 0 /\ cutOff /\ WaitedOut)
      <3>1. ASSUME NEW x \in Cell, Open(p, x) PROVE Follows(p1, x, m.cells[1])
        <4>1. CASE Ended(p, x)
          BY <1>8, <1>11, <4>1 DEF Ended, Follows
        <4>2. CASE x.frame = writing.frame /\ x.of = writing.of /\ x.at = writing.sent
                   /\ writing.sent < writing.of
          <5>1. w = writing
            BY <1>4, <4>2
          <5> QED  BY <1>9, <1>10, <4>2, <5>1 DEF Follows
        <4>3. CASE x.frame = writing.frame /\ cutOff
          <5>1. ~(writing.sent < writing.of)
            BY <1>2, <4>3 DEF Unbroken
          <5>2. writing.frame \in hurried'
            BY <1>4, <1>6, <2>1, <4>3, <5>1
          <5> QED  BY <1>8, <4>3, <5>2 DEF Follows, Ended
        <4> QED  BY <1>8, <3>1, <4>1, <4>2, <4>3 DEF Open
      <3>2. Flow(p, a, rxq, rxqLost, rxqBeforeLoss, usb)
        BY DEF Unbroken, p, a
      <3>3. p.hurried \subseteq p1.hurried
        BY <1>8, <1>11
      <3>4. GoesOn(p, p1, m)
        BY <1>9, <1>10, <3>1, <3>3 DEF GoesOn
      <3>5. Flow(p1, a, rxq, rxqLost, rxqBeforeLoss, Append(usb, m))
        BY <1>2, <1>10, <3>2, <3>4, FlowAppended
      <3> QED  BY <1>6, <3>5
    <2>2. CASE w.sent = 0 /\ cutOff /\ WaitedOut
      <3> DEFINE p0 == [writing |-> writing, hurried |-> hurried, cutOff |-> FALSE]
      <3>1. usb = <<>> /\ rxq = <<>> /\ quietTicks = StaleTicks
        BY <2>2 DEF WaitedOut
      <3>2. rx = <<>>
        <4>1. StaleTicks \in Nat /\ idleTicks \in 0..StaleTicks - 1
          BY SizesAssumption, BoundedParts DEF Counts
        <4> QED  BY <3>1, <4>1 DEF Unbroken
      <3>3. a = <<>>
        <4>1. rxDone = 0 /\ <<>> \in Seq(Cell)
          BY <3>2, FlowTypes
        <4> QED  BY <3>2, <4>1, NoneDone DEF a
      <3>4. rxqLost => rxqBeforeLoss = 0
        BY <1>2, <3>1
      <3>5. Flow(p0, a, rxq, rxqLost, rxqBeforeLoss, usb)
        BY <1>2, <3>1, <3>3, <3>4, FlowOfNothing
      <3>6. p0.writing = writing /\ p0.hurried = hurried /\ p0.cutOff = FALSE
        OBVIOUS
      <3> HIDE DEF p0
      <3>7. ~(writing.sent < writing.of)
        BY <1>2, <2>2 DEF Unbroken
      <3>8. ASSUME NEW x \in Cell, Open(p0, x) PROVE Follows(p1, x, m.cells[1])
        <4>1. Ended(p0, x)
          BY <3>6, <3>7, <3>8 DEF Open
        <4> QED  BY <1>8, <1>11, <3>6, <4>1 DEF Ended, Follows
      <3>9. p0.hurried \subseteq p1.hurried
        BY <1>8, <1>11, <3>6
      <3>10. GoesOn(p0, p1, m)
        BY <1>9, <1>10, <3>8, <3>9 DEF GoesOn
      <3>11. Flow(p1, a, rxq, rxqLost, rxqBeforeLoss, Append(usb, m))
        BY <1>2, <1>10, <3>5, <3>10, FlowAppended
      <3> QED  BY <1>6, <3>11
    <2> QED  BY <2>1, <2>2
  <1>13. Behind(rx, rxDone)' = a
    BY <1>6 DEF a
  <1>14. Flow(Sender, Behind(rx, rxDone), rxq, rxqLost, rxqBeforeLoss, usb)'
    BY <1>6, <1>12, <1>13 DEF p1
  <1>15. \A i \in 1..Len(served') : served'[i].whole \/ served'[i].frame \in hurried'
    BY <1>6, <1>11 DEF Unbroken
  <1>16. rx' # <<>> => quietTicks' <= idleTicks'
    BY <1>6 DEF Unbroken
  <1> QED  BY <1>6, <1>14, <1>15, <1>16 DEF Unbroken

LEMMA UnbrokenLine ==
  ASSUME Bounded, Unbroken, CutOff \/ SendOther
  PROVE  Unbroken'
  <1> DEFINE a == Behind(rx, rxDone)
             p == Sender
             p1 == Sender'
  <1>1. /\ a \in Seq(Cell) /\ rxq \in Seq(Cell) /\ rxqLost \in BOOLEAN
        /\ rxqLost => rxqBeforeLoss \in 0..Len(rxq)
        /\ usb \in Seq(Message)
        /\ writing \in [frame : Nat, sent : Nat, of : Nat] /\ writing.sent <= writing.of
    BY FlowTypes
  <1>2. /\ hurried' = hurried
        /\ UNCHANGED <<rxq, rxqLost, rxqBeforeLoss, rx, rxDone, idleTicks, quietTicks, served>>
    BY DEF CutOff, SendOther, driver, agentRx
  <1>3. /\ p1.writing = writing' /\ p1.hurried = hurried' /\ p1.cutOff = cutOff'
        /\ p.writing = writing /\ p.hurried = hurried /\ p.cutOff = cutOff
    BY DEF Sender
  <1>4. Flow(p, a, rxq, rxqLost, rxqBeforeLoss, usb)
    BY DEF Unbroken
  <1>5. Behind(rx, rxDone)' = a
    BY <1>2
  <1> HIDE DEF a, p, p1
  <1>6. /\ Flow(p1, a, rxq, rxqLost, rxqBeforeLoss, usb')
        /\ cutOff' => writing'.sent = writing'.of
    <2>1. CASE CutOff
      <3>1. /\ writing.sent < writing.of /\ usb' = usb
            /\ writing' = [writing EXCEPT !.sent = writing.of]
            /\ cutOff' = (writing.of <= RxCap)
        BY <2>1 DEF CutOff
      <3>2. /\ writing'.frame = writing.frame /\ writing'.sent = writing.of
            /\ writing'.of = writing.of /\ writing.sent # writing.of
        BY <1>1, <3>1
      <3>3. ASSUME NEW x \in Cell, Open(p, x) PROVE Open(p1, x)
        <4>1. CASE Ended(p, x)
          BY <1>2, <1>3, <4>1 DEF Ended, Open
        <4>2. CASE x.frame = writing.frame /\ x.of = writing.of
          <5>1. writing.of <= RxCap \/ x.of > RxCap
            <6>1. writing.of \in Nat /\ RxCap \in Nat
              BY <1>1, SizesAssumption
            <6> QED  BY <4>2, <6>1
          <5> QED  BY <1>3, <3>1, <3>2, <4>2, <5>1 DEF Ended, Open
        <4> QED  BY <1>3, <3>2, <3>3, <4>1, <4>2 DEF Open, Unbroken
      <3>4. p.hurried \subseteq p1.hurried
        BY <1>2, <1>3
      <3>5. Flow(p1, a, rxq, rxqLost, rxqBeforeLoss, usb)
        BY <1>1, <1>4, <3>3, <3>4, FlowKept
      <3> QED  BY <3>1, <3>2, <3>5
    <2>2. CASE SendOther
      <3> DEFINE m == [kind |-> "other", cells |-> <<>>]
      <3>1. usb' = Append(usb, m) /\ UNCHANGED <<writing, cutOff>>
        BY <2>2 DEF SendOther
      <3>2. m \in Message /\ m.kind = "other" /\ m.cells = <<>>
        BY EmptySeq DEF Message
      <3> HIDE DEF m
      <3>3. GoesOn(p, p1, m)
        BY <1>2, <1>3, <3>1, <3>2 DEF GoesOn, Open, Ended
      <3>4. Flow(p1, a, rxq, rxqLost, rxqBeforeLoss, Append(usb, m))
        BY <1>1, <1>4, <3>2, <3>3, FlowAppended
      <3> QED  BY <3>1, <3>4 DEF Unbroken
    <2> QED  BY <2>1, <2>2
  <1>7. Flow(Sender, Behind(rx, rxDone), rxq, rxqLost, rxqBeforeLoss, usb)'
    BY <1>2, <1>5, <1>6 DEF p1
  <1> QED  BY <1>2, <1>6, <1>7 DEF Unbroken

\* A step of the agent or the driver: the PC's state stays.
LEMMA UnbrokenStep ==
  ASSUME Unbroken, UNCHANGED <<writing, hurried, cutOff>>,
         Flow(Sender, Behind(rx', rxDone'), rxq', rxqLost', rxqBeforeLoss', usb'),
         rx' # <<>> => quietTicks' <= idleTicks',
         \A i \in 1..Len(served') : served'[i].whole \/ served'[i].frame \in hurried
  PROVE  Unbroken'
  <1>1. Sender' = Sender
    BY DEF Sender
  <1> QED  BY <1>1 DEF Unbroken

LEMMA UnbrokenTick ==
  ASSUME Bounded, Unbroken, BeginTick
  PROVE  Unbroken'
  <1>1. /\ rx' = Behind(rx, rxDone) /\ rxDone' = 0
        /\ UNCHANGED <<writing, hurried, cutOff, usb, rxq, rxqLost, rxqBeforeLoss, served,
                       quietTicks, idleTicks>>
    BY DEF BeginTick, line, driver
  <1>2. Behind(rx', rxDone') = Behind(rx, rxDone)
    BY <1>1, FlowTypes, NoneDone
  <1>3. rx' # <<>> => rx # <<>>
    <2>1. rx = <<>> => rxDone = 0 /\ <<>> \in Seq(Cell)
      BY FlowTypes
    <2>2. rx = <<>> => Behind(rx, rxDone) = <<>>
      BY <2>1, NoneDone
    <2> QED  BY <1>1, <2>2
  <1> QED  BY <1>1, <1>2, <1>3, UnbrokenStep DEF Unbroken

LEMMA UnbrokenQueued ==
  ASSUME Bounded, Unbroken, PullQueued
  PROVE  Unbroken'
  <1> DEFINE h == FromHeader(rx)
             n == Given(rxq, RxCap - Len(h))
  <1>1. /\ agentAt = "pull" /\ rxDone' = rxDone /\ rxDone = 0
        /\ UNCHANGED <<writing, hurried, cutOff, usb, served, idleTicks>>
    BY BoundedParts DEF PullQueued, Pulling, line, RxFits
  <1>2. /\ rx \in Seq(Cell) /\ rxq \in Seq(Cell) /\ rxqLost \in BOOLEAN
        /\ rxqLost => rxqBeforeLoss \in 0..Len(rxq)
        /\ usb \in Seq(Message) /\ h \in Seq(Cell) /\ <<>> \in Seq(Cell)
    BY FlowTypes, Sequences
  <1>3. Flow(Sender, rx, rxq, rxqLost, rxqBeforeLoss, usb)
    BY <1>1, <1>2, NoneDone DEF Unbroken
  <1>4. CASE rxqLost /\ rxqBeforeLoss = 0
    <2>1. rx' = <<>> /\ rxqLost' = FALSE /\ UNCHANGED <<rxq, quietTicks, rxqBeforeLoss>>
      BY <1>4 DEF PullQueued, LostOnTheWay, NoneArrives
    <2>2. Flow(Sender, rx, rxq, TRUE, 0, usb)
      BY <1>3, <1>4
    <2>3. Flow(Sender, <<>>, rxq, FALSE, rxqBeforeLoss, usb)
      BY <1>2, <2>2, FlowPast
    <2>4. Behind(rx', rxDone') = <<>>
      BY <1>1, <1>2, <2>1, NoneDone
    <2> QED  BY <1>1, <2>1, <2>3, <2>4, UnbrokenStep DEF Unbroken
  <1>5. CASE ~(rxqLost /\ rxqBeforeLoss = 0)
    <2>1. /\ rx' = h \o SubSeq(rxq, 1, n) /\ rxq' = Behind(rxq, n) /\ quietTicks' = 0
          /\ rxqLost' = rxqLost
          /\ rxqBeforeLoss' = IF rxqLost THEN rxqBeforeLoss - n ELSE rxqBeforeLoss
      BY <1>5 DEF PullQueued, HandOver, Arrives
    <2>2. n \in 0..Len(rxq) /\ (rxqLost => n <= rxqBeforeLoss)
      <3>1. RxFits /\ Marked
        BY BoundedParts
      <3>2. RxCap - Len(FromHeader(rx)) \in Nat
        BY <3>1, HeldRoom
      <3> QED  BY <1>2, <3>1, <3>2, GivenIs
    <2> HIDE DEF n
    <2>3. AtEnd(h, rx)
      BY <1>2, EndsAre
    <2> HIDE DEF h
    <2>4. Flow(Sender, h, rxq, rxqLost, rxqBeforeLoss, usb)
      BY <1>2, <1>3, <2>3, FlowDrops
    <2>5. rxqLost => rxqBeforeLoss' = rxqBeforeLoss - n
      BY <2>1
    <2>6. Flow(Sender, rx', rxq', rxqLost, rxqBeforeLoss', usb)
      BY <1>2, <2>1, <2>2, <2>4, <2>5, FlowTakes
    <2>7. rx' \in Seq(Cell)
      BY <1>2, <2>1, <2>2, UpToIs, ConcatProperties
    <2>8. Behind(rx', rxDone') = rx'
      BY <1>1, <2>7, NoneDone
    <2>9. quietTicks' <= idleTicks'
      BY <1>1, <2>1, BoundedParts, SizesAssumption DEF Counts
    <2> QED  BY <1>1, <2>1, <2>6, <2>8, <2>9, UnbrokenStep DEF Unbroken
  <1> QED  BY <1>4, <1>5

LEMMA UnbrokenUsb ==
  ASSUME Bounded, Unbroken, PullUsb
  PROVE  Unbroken'
  <1> DEFINE h == FromHeader(rx)
  <1>1. PICK r \in UsbReceive :
          /\ usb' = r.usb
          /\ LET held == FromHeader(rx)
                 n == Given(r.message, RxCap - Len(held))
             IN /\ HandOver(r.message, r.front, n)
                /\ IF r.result = "lost" THEN LostOnTheWay /\ NoneArrives
                   ELSE IF n = 0
                        THEN rx' = held /\ agentAt' = "pulled" /\ NoneArrives
                        ELSE rx' = held \o SubSeq(r.message, 1, n) /\ Arrives
                             /\ UNCHANGED agentAt
    BY Zenon DEF PullUsb
  <1> DEFINE n == Given(r.message, RxCap - Len(h))
  <1>2. /\ agentAt = "pull" /\ rxDone' = rxDone /\ rxDone = 0 /\ rxq = <<>> /\ ~rxqLost
        /\ UNCHANGED <<writing, hurried, cutOff, rxqLost, served, idleTicks>>
    BY BoundedParts DEF PullUsb, Pulling, RxFits
  <1>3. /\ rx \in Seq(Cell) /\ usb \in Seq(Message) /\ h \in Seq(Cell) /\ <<>> \in Seq(Cell)
        /\ rxqLost = FALSE
    BY <1>2, FlowTypes, Sequences
  <1>4. /\ rxq' = Behind(r.message, n)
        /\ r.result = "lost" => rx' = <<>>
        /\ \/ rx' = <<>>
           \/ n = 0 /\ rx' = h /\ quietTicks' = quietTicks
           \/ rx' = h \o SubSeq(r.message, 1, n) /\ quietTicks' = 0
        /\ r.result # "lost" => \/ n = 0 /\ rx' = h
                                \/ rx' = h \o SubSeq(r.message, 1, n)
    BY <1>1 DEF HandOver, LostOnTheWay, Arrives, NoneArrives
  <1>5. r.message \in Seq(Cell)
    BY UsbReceiveIs
  <1>6. n \in 0..Len(r.message)
    <2>1. RxFits /\ Marked
      BY BoundedParts
    <2>2. RxCap - Len(FromHeader(rx)) \in Nat
      BY <2>1, HeldRoom
    <2> QED  BY <1>2, <1>5, <2>1, <2>2, GivenIs
  <1> HIDE DEF n
  <1>7. AtEnd(h, rx)
    BY <1>3, EndsAre
  <1>8. Flow(Sender, rx, <<>>, FALSE, rxqBeforeLoss, usb)
    BY <1>2, <1>3, NoneDone DEF Unbroken
  <1>9. Flow(Sender, h, <<>>, FALSE, rxqBeforeLoss, usb)
    BY <1>3, <1>7, <1>8, FlowDrops
  <1>10. h # <<>> => rx # <<>>
    <2>1. Len(h) <= Len(rx)
      BY <1>3, HeldTypes
    <2> QED  BY <1>3, <2>1
  <1> HIDE DEF h
  <1>11. quietTicks \in Nat /\ idleTicks \in Nat
    BY BoundedParts, SizesAssumption DEF Counts
  <1>12. rx' # <<>> => quietTicks' <= idleTicks'
    BY <1>2, <1>4, <1>10, <1>11 DEF Unbroken
  <1>13. rx' \in Seq(Cell)
    <2>1. h \o SubSeq(r.message, 1, n) \in Seq(Cell)
      BY <1>3, <1>5, <1>6, UpToIs, ConcatProperties
    <2> QED  BY <1>3, <1>4, <2>1
  <1>14. Flow(Sender, rx', rxq', FALSE, rxqBeforeLoss', usb')
    <2>1. CASE r.result = "lost"
      <3>1. usb # <<>> /\ r.usb = Tail(usb) /\ r.message = <<>>
        BY <1>3, <2>1, UsbResultIs
      <3>2. Behind(<<>>, n) = <<>>
        <4>1. n = 0
          BY <1>6, <3>1
        <4> QED  BY <1>3, <4>1, NoneDone
      <3>3. Flow(Sender, <<>>, <<>>, FALSE, rxqBeforeLoss', Tail(usb))
        BY <1>3, <1>9, <3>1, FlowLoses
      <3> QED  BY <1>1, <1>4, <2>1, <3>1, <3>2, <3>3
    <2>2. CASE r.result # "lost"
      <3>1. Flow(Sender, h, r.message, FALSE, rxqBeforeLoss, usb')
        <4>1. CASE r.usb = usb /\ r.message = <<>>
          BY <1>1, <1>9, <4>1
        <4>2. CASE /\ usb # <<>> /\ r.usb = Tail(usb)
                   /\ \/ Head(usb).kind = "other" /\ r.message = <<>>
                      \/ Head(usb).kind = "L3" /\ r.message = Head(usb).cells
          <5>1. <<>> \o r.message = r.message
            BY <1>5, ConcatEmptySeq
          <5>2. Flow(Sender, h, <<>> \o r.message, FALSE, rxqBeforeLoss, Tail(usb))
            BY <1>3, <1>5, <1>9, <4>2, FlowJoins
          <5> QED  BY <1>1, <4>2, <5>1, <5>2
        <4> QED  BY <1>3, <2>2, <4>1, <4>2, UsbResultIs
      <3>2. Flow(Sender, h \o SubSeq(r.message, 1, n), Behind(r.message, n), FALSE,
                 rxqBeforeLoss', usb')
        BY <1>3, <1>5, <1>6, <3>1, FlowTakes
      <3>3. n = 0 => h \o SubSeq(r.message, 1, n) = h
        <4>1. SubSeq(r.message, 1, 0) = <<>> /\ h \o <<>> = h
          BY <1>3, SubSeqEmpty, ConcatEmptySeq
        <4> QED  BY <4>1
      <3> QED  BY <1>4, <2>2, <3>2, <3>3
    <2> QED  BY <2>1, <2>2
  <1>15. Behind(rx', rxDone') = rx'
    BY <1>2, <1>13, NoneDone
  <1>16. Flow(Sender, Behind(rx', rxDone'), rxq', rxqLost', rxqBeforeLoss', usb')
    BY <1>2, <1>3, <1>14, <1>15
  <1> QED  BY <1>2, <1>12, <1>16, UnbrokenStep DEF Unbroken

LEMMA UnbrokenPartial ==
  ASSUME Bounded, Unbroken, KeepPartial
  PROVE  Unbroken'
  <1> DEFINE h == FromHeader(rx)
             waited == IF arrived \/ h = <<>> THEN 0 ELSE idleTicks + 1
  <1>1. /\ agentAt \in {"pull", "pulled"} /\ rxDone' = rxDone
        /\ UNCHANGED <<writing, hurried, cutOff, usb, rxq, rxqLost, rxqBeforeLoss, served>>
        /\ idleTicks' = (IF waited >= StaleTicks THEN 0 ELSE waited)
        /\ rx' = (IF waited >= StaleTicks THEN <<>> ELSE h)
        /\ quietTicks' = IF arrived THEN 0 ELSE Fewer(quietTicks + 1, StaleTicks)
    BY DEF KeepPartial, TickOver, line, driver
  <1>2. /\ rx \in Seq(Cell) /\ rxq \in Seq(Cell) /\ rxqLost \in BOOLEAN
        /\ rxqLost => rxqBeforeLoss \in 0..Len(rxq)
        /\ h \in Seq(Cell) /\ <<>> \in Seq(Cell) /\ rxDone = 0
    BY <1>1, FlowTypes, Sequences, BoundedParts DEF RxFits
  <1>3. Flow(Sender, rx, rxq, rxqLost, rxqBeforeLoss, usb)
    BY <1>2, NoneDone DEF Unbroken
  <1>4. AtEnd(h, rx) /\ AtEnd(<<>>, rx)
    BY <1>2, EndsAre
  <1>5. h # <<>> => rx # <<>>
    <2>1. Len(h) <= Len(rx)
      BY <1>2, HeldTypes
    <2> QED  BY <1>2, <2>1
  <1>6. quietTicks \in Nat /\ idleTicks \in Nat /\ StaleTicks \in Nat \ {0}
    BY BoundedParts, SizesAssumption DEF Counts
  <1> HIDE DEF h
  <1>7. rx' # <<>> => quietTicks' <= idleTicks'
    <2>1. ASSUME rx' # <<>> PROVE quietTicks' <= idleTicks'
      <3>1. h # <<>> /\ idleTicks' = waited /\ quietTicks <= idleTicks
        BY <1>1, <1>5, <2>1 DEF Unbroken
      <3>2. CASE arrived
        BY <1>1, <3>1, <3>2
      <3>3. CASE ~arrived
        <4>1. idleTicks' = idleTicks + 1 /\ quietTicks' = Fewer(quietTicks + 1, StaleTicks)
          BY <1>1, <3>1, <3>3
        <4> QED  BY <1>6, <3>1, <4>1 DEF Fewer
      <3> QED  BY <3>2, <3>3
    <2> QED  BY <2>1
  <1> HIDE DEF waited
  <1>8. rx' \in Seq(Cell) /\ AtEnd(rx', rx)
    BY <1>1, <1>2, <1>4
  <1>9. Flow(Sender, rx', rxq, rxqLost, rxqBeforeLoss, usb)
    BY <1>2, <1>3, <1>8, FlowDrops
  <1>10. Behind(rx', rxDone') = rx'
    BY <1>1, <1>2, <1>8, NoneDone
  <1> QED  BY <1>1, <1>7, <1>9, <1>10, UnbrokenStep DEF Unbroken

\* From a header on, cells that go on one from the other are a frame's, up to its end.
LEMMA StepsAreWhole ==
  ASSUME NEW p, NEW s \in Seq(Cell), s # <<>>, Steps(p, s), s[1].at = 1, s[1].of <= RxCap,
         s[1].frame \notin p.hurried, s[1].of <= Len(s)
  PROVE  \A i \in 1..s[1].of : s[i].frame = s[1].frame /\ s[i].at = i
  <1> DEFINE Good(i) == s[i].frame = s[1].frame /\ s[i].at = i /\ s[i].of = s[1].of
             I == {i \in 1..s[1].of : ~Good(i)}
  <1>1. Len(s) \in Nat /\ s[1].of \in Nat
    <2>1. 1 \in 1..Len(s)
      OBVIOUS
    <2>2. s[1] \in Cell
      BY <2>1, ElementOfSeq
    <2> QED  BY <2>2 DEF Cell
  <1>2. I = {}
    <2> SUFFICES ASSUME I # {} PROVE FALSE
      OBVIOUS
    <2> DEFINE least == Min(I)
    <2>1. I \subseteq Nat
      OBVIOUS
    <2>2. least \in I /\ \A j \in I : least <= j
      BY <2>1, LeastIs
    <2> HIDE DEF least
    <2>3. least \in 1..s[1].of /\ ~Good(least)
      BY <2>2
    <2>4. least # 1
      BY <2>3
    <2>5. least - 1 \in 1..s[1].of /\ least \in Nat /\ ~(least <= least - 1)
      BY <1>1, <2>3, <2>4
    <2>6. Good(least - 1)
      BY <2>2, <2>5
    <2>7. Follows(p, s[least - 1], s[(least - 1) + 1])
      <3>1. least - 1 \in 1..Len(s) /\ (least - 1) + 1 <= Len(s)
        BY <1>1, <2>3, <2>5
      <3> QED  BY <3>1 DEF Steps
    <2>8. (least - 1) + 1 = least
      BY <2>5
    <2>9. ~Ended(p, s[least - 1])
      BY <1>1, <2>3, <2>5, <2>6, SizesAssumption DEF Ended
    <2>10. Good(least)
      BY <2>6, <2>7, <2>8, <2>9 DEF Follows
    <2> QED  BY <2>3, <2>10
  <1> QED  BY <1>2

\* What is kept of the bytes held, if anything, begins with such a header.
LEMMA HeldBegins ==
  ASSUME NEW s \in Seq(Cell), FromHeader(s) # <<>>
  PROVE  FromHeader(s)[1].at = 1 /\ FromHeader(s)[1].of <= RxCap
  <1>1. PICK n \in 1..Len(s) :
          FromHeader(s) = Behind(s, n - 1) /\ s[n].at = 1 /\ s[n].of <= RxCap
    BY HeldIs
  <1>2. n - 1 \in 0..Len(s) /\ 1 \in 1..Len(s) - (n - 1) /\ n - 1 + 1 = n
    OBVIOUS
  <1>3. \A i \in 1..Len(s) - (n - 1) : Behind(s, n - 1)[i] = s[n - 1 + i]
    BY <1>2, BehindIs
  <1> QED  BY <1>1, <1>2, <1>3

\* With no loss between them, the agent's cells go on one from the other.
LEMMA StepsHeld ==
  ASSUME NEW p, NEW a \in Seq(Cell), NEW q \in Seq(Cell), NEW u, NEW n, NEW lost \in BOOLEAN,
         lost => n \in 0..Len(q), Flow(p, a, q, lost, n, u)
  PROVE  Steps(p, a)
  <1> DEFINE b == IF lost THEN SubSeq(q, 1, n) ELSE q
  <1>1. b \in Seq(Cell) /\ Steps(p, a \o b)
    <2>1. CASE lost
      BY <2>1, UpToIs DEF Flow
    <2>2. CASE ~lost
      BY <2>2 DEF Flow, Linked
    <2> QED  BY <2>1, <2>2
  <1> HIDE DEF b
  <1>2. /\ a \o b \in Seq(Cell) /\ Len(a \o b) = Len(a) + Len(b)
        /\ \A i \in 1..Len(a) + Len(b) :
             (a \o b)[i] = IF i <= Len(a) THEN a[i] ELSE b[i - Len(a)]
    BY <1>1, ConcatProperties
  <1>3. Len(a) \in Nat /\ Len(b) \in Nat
    BY <1>1
  <1>4. \A i \in 1..Len(a) : 0 + i \in 1..Len(a \o b) /\ a[i] = (a \o b)[0 + i]
    BY <1>2, <1>3
  <1>5. Part(a, a \o b)
    BY <1>4 DEF Part
  <1> QED  BY <1>1, <1>2, <1>5, StepsOfPart

LEMMA UnbrokenServe ==
  ASSUME Bounded, InRow, Unbroken, ServeFrame
  PROVE  Unbroken'
  <1> DEFINE h == FromHeader(rx)
             n == FrameLen(rx)
             whole == \A i \in 1..rxDone' : rx'[i].frame = rx'[1].frame /\ rx'[i].at = i
             now == [frame |-> rx'[1].frame, whole |-> whole]
  <1>1. /\ agentAt \in {"pull", "pulled"} /\ n > 0
        /\ UNCHANGED <<writing, hurried, cutOff, usb, rxq, rxqLost, rxqBeforeLoss>>
        /\ rx' = h /\ rxDone' = n /\ idleTicks' = 0 /\ quietTicks' = 0
        /\ served' = Append(served, now)
    BY DEF ServeFrame, TickOver, line, driver
  <1>2. /\ rx \in Seq(Cell) /\ rxq \in Seq(Cell) /\ rxqLost \in BOOLEAN
        /\ rxqLost => rxqBeforeLoss \in 0..Len(rxq)
        /\ h \in Seq(Cell) /\ rxDone = 0
    BY <1>1, FlowTypes, Sequences, BoundedParts DEF RxFits
  <1>3. Flow(Sender, rx, rxq, rxqLost, rxqBeforeLoss, usb)
    BY <1>2, NoneDone DEF Unbroken
  <1>4. AtEnd(h, rx)
    BY <1>2, EndsAre
  <1>5. n \in 0..Len(h) /\ h # <<>> /\ n = h[1].of /\ h[1].at = 1 /\ h[1].of <= RxCap
    <2>1. n \in 0..Len(h)
      BY <1>2, FrameLenIs
    <2>2. h # <<>> /\ n = h[1].of
      BY <1>1 DEF FrameLen
    <2>3. h[1].at = 1 /\ h[1].of <= RxCap
      BY <1>2, <2>2, HeldBegins
    <2> QED  BY <2>1, <2>2, <2>3
  <1>6. Flow(Sender, h, rxq, rxqLost, rxqBeforeLoss, usb)
    BY <1>2, <1>3, <1>4, FlowDrops
  <1> HIDE DEF h, n
  <1>7. Flow(Sender, Behind(rx', rxDone'), rxq', rxqLost', rxqBeforeLoss', usb')
    <2>1. Behind(h, n) \in Seq(Cell) /\ AtEnd(Behind(h, n), h)
      BY <1>2, <1>5, EndsAre, BehindIs
    <2>2. Flow(Sender, Behind(h, n), rxq, rxqLost, rxqBeforeLoss, usb)
      BY <1>2, <1>6, <2>1, FlowDrops
    <2> QED  BY <1>1, <2>2
  <1>8. Steps(Sender, h)
    BY <1>2, <1>6, StepsHeld
  <1>9. whole \/ h[1].frame \in hurried
    <2>1. ASSUME h[1].frame \notin hurried PROVE whole
      <3>1. h[1].frame \notin Sender.hurried
        BY <2>1 DEF Sender
      <3>2. h[1].of <= Len(h)
        BY <1>2, <1>5
      <3>3. \A i \in 1..h[1].of : h[i].frame = h[1].frame /\ h[i].at = i
        BY <1>2, <1>5, <1>8, <3>1, <3>2, StepsAreWhole
      <3> QED  BY <1>1, <1>5, <3>3
    <2> QED  BY <2>1
  <1>10. whole \in BOOLEAN /\ now.whole = whole /\ now.frame = h[1].frame
    BY <1>1
  <1>11. h[1].frame \in Nat
    <2>1. 1 \in 1..Len(h)
      BY <1>2, <1>5
    <2>2. h[1] \in Cell
      BY <1>2, <2>1, ElementOfSeq
    <2> QED  BY <2>2 DEF Cell
  <1>12. now \in [frame : Nat, whole : BOOLEAN]
    BY <1>1, <1>11
  <1> HIDE DEF whole
  <1>13. now.whole \/ now.frame \in hurried
    BY <1>9, <1>10
  <1> HIDE DEF now
  <1>14. /\ served \in Seq([frame : Nat, whole : BOOLEAN]) /\ Len(served) \in Nat
         /\ Len(served') = Len(served) + 1
         /\ \A i \in 1..Len(served) : served'[i] = served[i]
         /\ served'[Len(served) + 1] = now
    BY <1>1, <1>12, AppendProperties DEF InRow
  <1>15. ASSUME NEW i \in 1..Len(served')
         PROVE  served'[i].whole \/ served'[i].frame \in hurried
    <2>1. CASE i \in 1..Len(served)
      BY <1>14, <2>1 DEF Unbroken
    <2>2. CASE i = Len(served) + 1
      BY <1>13, <1>14, <2>2
    <2> QED  BY <1>14, <2>1, <2>2
  <1> QED  BY <1>1, <1>7, <1>15, UnbrokenStep

LEMMA UnbrokenAhead ==
  ASSUME Bounded, Unbroken, ReadAhead
  PROVE  Unbroken'
  <1>1. PICK r \in UsbReceive :
          /\ usb' = r.usb
          /\ IF r.result = "lost" THEN NoteLoss
             ELSE rxq' = rxq \o r.message /\ UNCHANGED <<rxqLost, rxqBeforeLoss>>
    BY DEF ReadAhead
  <1>2. UNCHANGED <<writing, hurried, cutOff, rx, rxDone, served, quietTicks, idleTicks>>
    BY DEF ReadAhead
  <1> DEFINE a == Behind(rx, rxDone)
  <1>3. /\ a \in Seq(Cell) /\ rxq \in Seq(Cell) /\ rxqLost \in BOOLEAN
        /\ rxqLost => rxqBeforeLoss \in 0..Len(rxq)
        /\ usb \in Seq(Message)
        /\ Flow(Sender, a, rxq, rxqLost, rxqBeforeLoss, usb)
    BY FlowTypes DEF Unbroken
  <1>4. Behind(rx', rxDone') = a
    BY <1>2
  <1> HIDE DEF a
  <1>5. r.message \in Seq(Cell)
    BY UsbReceiveIs
  <1>6. Flow(Sender, a, rxq', rxqLost', rxqBeforeLoss', usb')
    <2>1. CASE r.result = "lost"
      <3>1. usb # <<>> /\ r.usb = Tail(usb)
        BY <1>3, <2>1, UsbResultIs
      <3>2. CASE rxqLost
        <4>1. rxqLost = TRUE
          BY <1>3, <3>2
        <4>2. rxq' = SubSeq(rxq, 1, rxqBeforeLoss) /\ rxqLost' = TRUE
              /\ rxqBeforeLoss' = rxqBeforeLoss
          BY <1>1, <2>1, <4>1 DEF NoteLoss, Fold
        <4>3. Flow(Sender, a, SubSeq(rxq, 1, rxqBeforeLoss), TRUE, rxqBeforeLoss, Tail(usb))
          BY <1>3, <3>1, <3>2, FlowLoses
        <4> QED  BY <1>1, <3>1, <4>2, <4>3
      <3>3. CASE ~rxqLost
        <4>1. rxq' = rxq /\ rxqLost' = TRUE /\ rxqBeforeLoss' = Len(rxq)
          BY <1>1, <2>1, <3>3 DEF NoteLoss
        <4>2. Flow(Sender, a, rxq, TRUE, Len(rxq), Tail(usb))
          BY <1>3, <3>1, <3>3, FlowLoses
        <4> QED  BY <1>1, <3>1, <4>1, <4>2
      <3> QED  BY <3>2, <3>3
    <2>2. CASE r.result # "lost"
      <3>1. rxq' = rxq \o r.message /\ UNCHANGED <<rxqLost, rxqBeforeLoss>>
        BY <1>1, <2>2
      <3>2. CASE r.usb = usb /\ r.message = <<>>
        <4>1. rxq \o <<>> = rxq
          BY <1>3, ConcatEmptySeq
        <4> QED  BY <1>1, <1>3, <3>1, <3>2, <4>1
      <3>3. CASE /\ usb # <<>> /\ r.usb = Tail(usb)
                 /\ \/ Head(usb).kind = "other" /\ r.message = <<>>
                    \/ Head(usb).kind = "L3" /\ r.message = Head(usb).cells
        <4>1. Flow(Sender, a, rxq \o r.message, rxqLost, rxqBeforeLoss, Tail(usb))
          BY <1>3, <1>5, <3>3, FlowJoins
        <4> QED  BY <1>1, <3>1, <3>3, <4>1
      <3> QED  BY <1>3, <2>2, <3>2, <3>3, UsbResultIs
    <2> QED  BY <2>1, <2>2
  <1> QED  BY <1>2, <1>4, <1>6, UnbrokenStep DEF Unbroken

LEMMA UnbrokenInit == RxInit => Unbroken
  <1> SUFFICES ASSUME RxInit PROVE Unbroken
    OBVIOUS
  <1>1. /\ served = <<>> /\ rx = <<>> /\ rxDone = 0 /\ rxq = <<>> /\ usb = <<>>
        /\ rxqLost = FALSE /\ cutOff = FALSE
    BY DEF RxInit
  <1>2. Behind(rx, rxDone) = <<>> /\ Len(<<>>) = 0
    BY <1>1, EmptySeq, NoneDone
  <1>3. Flow(Sender, <<>>, <<>>, FALSE, rxqBeforeLoss, <<>>)
    BY FlowOfNothing
  <1>4. Flow(Sender, Behind(rx, rxDone), rxq, rxqLost, rxqBeforeLoss, usb)
    BY <1>1, <1>2, <1>3
  <1>5. \A i \in 1..Len(served) : FALSE
    BY <1>1, <1>2
  <1> QED  BY <1>1, <1>4, <1>5 DEF Unbroken

LEMMA ReceptionKept ==
  ASSUME Bounded, InRow, Unbroken, [RxNext]_rxVars
  PROVE  Bounded' /\ InRow' /\ Unbroken'
  <1>1. CASE SendMessage \/ CutOff \/ SendOther
    BY <1>1, BoundedLine, RowLine, UnbrokenSend, UnbrokenLine
  <1>2. CASE BeginTick \/ PullQueued \/ PullUsb
    BY <1>2, BoundedTick, BoundedQueued, BoundedUsb, RowTick, RowQueued, RowUsb,
       UnbrokenTick, UnbrokenQueued, UnbrokenUsb
  <1>3. CASE ServeFrame \/ KeepPartial \/ ReadAhead
    BY <1>3, BoundedServe, BoundedPartial, BoundedAhead, RowFrame, RowPartial, RowAhead,
       UnbrokenServe, UnbrokenPartial, UnbrokenAhead
  <1>4. CASE UNCHANGED rxVars
    <2>1. /\ UNCHANGED <<writing, usb, hurried, cutOff, rxq, rxqLost, rxqBeforeLoss, rx,
                         rxDone, served, quietTicks, idleTicks>>
      BY <1>4 DEF rxVars, line, driver, agentRx
    <2>2. InRow'
      BY <2>1 DEF InRow, Handled, Coming, ServedInOrder
    <2>3. Unbroken'
      BY <2>1, UnbrokenStep DEF Unbroken
    <2> QED  BY <1>4, <2>2, <2>3 DEF Bounded, RxTypeOK, Shapes, rxVars, line, driver, agentRx
  <1> QED  BY <1>1, <1>2, <1>3, <1>4 DEF RxNext

\* Whatever is damaged, cut off, given up or read ahead, for any sizes, every
\* request agent_tick handles is one the PC sent, whole and in its turn, but for
\* one cut off and followed by another before agent.c's AGENT_STREAM_STALE_TICKS
\* had passed: a loss on the way leaves no cells that bytes from behind it could
\* complete.
THEOREM RequestsWhole == RxSpec => []ServedWhole
  <1> DEFINE IInv == Bounded /\ InRow /\ Unbroken
  <1>1. IInv /\ [RxNext]_rxVars => IInv'
    BY ReceptionKept
  <1>2. IInv => ServedWhole
    BY DEF InRow, Unbroken, ServedWhole
  <1>3. RxInit => IInv
    BY BoundedInit, RowInit, UnbrokenInit
  <1> HIDE DEF IInv
  <1> QED  BY <1>1, <1>2, <1>3, PTL DEF RxSpec

-----------------------------------------------------------------------------
(* No undamaged request is forgotten: while none was cut off and followed  *)
(* too soon, what was sent of every request that is not hurt is on its way *)
(* to the agent, or the agent has handled it, or it lay between two losses.*)

In(c, s) == \E i \in 1..Len(s) : s[i] = c
Sound(c, u) == \E m \in 1..Len(u) : u[m].kind = "L3" /\ In(c, u[m].cells)
Among(c, a, q, u) == In(c, a) \/ In(c, q) \/ Sound(c, u)

\* With the PC as far as w, all that it has sent of a frame f that s_rx can
\* hold is with the agent, the driver or the cart.
CellOf(f, at, k) == [frame |-> f, at |-> at, of |-> k]
Due(w, f, a, q, u) ==
  \E k \in 1..RxCap :
    /\ f = w.frame => k = w.of
    /\ \A at \in 1..k : f < w.frame \/ at <= w.sent => Among(CellOf(f, at, k), a, q, u)
Done(f) == \E i \in 1..Len(served) : served[i].frame = f
Between(f) == \E g, h \in hurt : g < f /\ f < h
Waiting ==
  \A f \in 1..writing.frame \ hurt :
    Done(f) \/ Between(f) \/ Due(writing, f, Behind(rx, rxDone), rxq, usb)

\* A message that will be lost is of a request that is hurt.  So is one that was
\* lost: what the agent and the driver hold from before it is of that request g
\* or earlier ones, what came behind it of that one or later ones.
HarmKnown ==
  \A m \in 1..Len(usb) :
    usb[m].kind \in {"unframed", "torn"} =>
      usb[m].cells # <<>> /\ \A i \in 1..Len(usb[m].cells) : usb[m].cells[i].frame \in hurt
LossAt(g, a, q, n, u) ==
  /\ \A i \in 1..Len(a) : a[i].frame <= g
  /\ \A i \in 1..Len(q) : IF i <= n THEN q[i].frame <= g ELSE g <= q[i].frame
  /\ \A m \in 1..Len(u) : \A i \in 1..Len(u[m].cells) : g <= u[m].cells[i].frame
LossKnown ==
  rxqLost => \E g \in hurt : LossAt(g, Behind(rx, rxDone), rxq, rxqBeforeLoss, usb)

Accounted ==
  /\ hurt \subseteq 0..writing.frame
  /\ HarmKnown /\ LossKnown
  /\ hurried = {} => Waiting

\* The cells of two sequences, one behind the other.
LEMMA InJoined ==
  ASSUME NEW s \in Seq(Cell), NEW t \in Seq(Cell), NEW c
  PROVE  In(c, s \o t) <=> In(c, s) \/ In(c, t)
  <1>1. /\ Len(s \o t) = Len(s) + Len(t)
        /\ \A i \in 1..Len(s) + Len(t) :
             (s \o t)[i] = IF i <= Len(s) THEN s[i] ELSE t[i - Len(s)]
    BY ConcatProperties
  <1>2. Len(s) \in Nat /\ Len(t) \in Nat
    OBVIOUS
  <1>3. ASSUME NEW i \in 1..Len(s), s[i] = c PROVE In(c, s \o t)
    <2>1. i \in 1..Len(s \o t) /\ (s \o t)[i] = s[i]
      BY <1>1, <1>2
    <2> QED  BY <1>3, <2>1 DEF In
  <1>4. ASSUME NEW i \in 1..Len(t), t[i] = c PROVE In(c, s \o t)
    <2>1. Len(s) + i \in 1..Len(s \o t) /\ (s \o t)[Len(s) + i] = t[i]
      BY <1>1, <1>2
    <2> QED  BY <1>4, <2>1 DEF In
  <1>5. ASSUME NEW i \in 1..Len(s \o t), (s \o t)[i] = c PROVE In(c, s) \/ In(c, t)
    <2>1. CASE i <= Len(s)
      <3>1. i \in 1..Len(s) /\ (s \o t)[i] = s[i]
        BY <1>1, <1>2, <2>1
      <3> QED  BY <1>5, <3>1 DEF In
    <2>2. CASE ~(i <= Len(s))
      <3>1. i - Len(s) \in 1..Len(t) /\ (s \o t)[i] = t[i - Len(s)]
        BY <1>1, <1>2, <2>2
      <3> QED  BY <1>5, <3>1 DEF In
    <2> QED  BY <2>1, <2>2
  <1> QED  BY <1>3, <1>4, <1>5 DEF In

\* The cells of a sequence are those of its first n and of the rest.
LEMMA InSplit ==
  ASSUME NEW s \in Seq(Cell), NEW n \in 0..Len(s), NEW c
  PROVE  In(c, s) <=> In(c, SubSeq(s, 1, n)) \/ In(c, Behind(s, n))
  <1>1. /\ Len(SubSeq(s, 1, n)) = n /\ \A i \in 1..n : SubSeq(s, 1, n)[i] = s[i]
        /\ Len(Behind(s, n)) = Len(s) - n
        /\ \A i \in 1..Len(s) - n : Behind(s, n)[i] = s[n + i]
    BY BehindIs, UpToIs
  <1>2. Len(s) \in Nat
    OBVIOUS
  <1>3. ASSUME NEW i \in 1..Len(s), s[i] = c
        PROVE  In(c, SubSeq(s, 1, n)) \/ In(c, Behind(s, n))
    <2>1. CASE i <= n
      <3>1. i \in 1..Len(SubSeq(s, 1, n)) /\ SubSeq(s, 1, n)[i] = c
        BY <1>1, <1>3, <2>1
      <3> QED  BY <3>1 DEF In
    <2>2. CASE ~(i <= n)
      <3>1. i - n \in 1..Len(s) - n /\ n + (i - n) = i
        BY <1>2, <2>2
      <3>2. i - n \in 1..Len(Behind(s, n)) /\ Behind(s, n)[i - n] = c
        BY <1>1, <1>3, <3>1
      <3> QED  BY <3>2 DEF In
    <2> QED  BY <2>1, <2>2
  <1>4. ASSUME NEW i \in 1..n, SubSeq(s, 1, n)[i] = c PROVE In(c, s)
    <2>1. i \in 1..Len(s) /\ s[i] = c
      BY <1>1, <1>2, <1>4
    <2> QED  BY <2>1 DEF In
  <1>5. ASSUME NEW i \in 1..Len(s) - n, Behind(s, n)[i] = c PROVE In(c, s)
    <2>1. n + i \in 1..Len(s) /\ s[n + i] = c
      BY <1>1, <1>2, <1>5
    <2> QED  BY <2>1 DEF In
  <1> QED  BY <1>1, <1>3, <1>4, <1>5 DEF In

\* The cells a sound message brings, and those of the messages behind it.
LEMMA SoundOfTail ==
  ASSUME NEW u \in Seq(Message), u # <<>>, NEW c
  PROVE  Sound(c, u) <=> \/ Head(u).kind = "L3" /\ In(c, Head(u).cells)
                         \/ Sound(c, Tail(u))
  <1>1. /\ Len(Tail(u)) = Len(u) - 1 /\ Len(u) \in Nat \ {0} /\ Head(u) = u[1]
        /\ \A i \in 1..Len(u) - 1 : Tail(u)[i] = u[i + 1]
    BY HeadTailProperties
  <1>2. ASSUME NEW m \in 1..Len(u), u[m].kind = "L3", In(c, u[m].cells), m # 1
        PROVE  Sound(c, Tail(u))
    <2>1. m - 1 \in 1..Len(Tail(u)) /\ Tail(u)[m - 1] = u[(m - 1) + 1] /\ (m - 1) + 1 = m
      BY <1>1, <1>2
    <2> QED  BY <1>2, <2>1 DEF Sound
  <1>3. ASSUME NEW m \in 1..Len(Tail(u)), Tail(u)[m].kind = "L3", In(c, Tail(u)[m].cells)
        PROVE  Sound(c, u)
    <2>1. m + 1 \in 1..Len(u) /\ Tail(u)[m] = u[m + 1]
      BY <1>1
    <2> QED  BY <1>3, <2>1 DEF Sound
  <1>4. 1 \in 1..Len(u)
    BY <1>1
  <1> QED  BY <1>1, <1>2, <1>3, <1>4 DEF Sound

LEMMA SoundAppended ==
  ASSUME NEW u \in Seq(Message), NEW m \in Message, NEW c
  PROVE  Sound(c, Append(u, m)) <=> Sound(c, u) \/ (m.kind = "L3" /\ In(c, m.cells))
  <1>1. /\ Len(Append(u, m)) = Len(u) + 1 /\ Len(u) \in Nat
        /\ \A i \in 1..Len(u) : Append(u, m)[i] = u[i]
        /\ Append(u, m)[Len(u) + 1] = m
    BY AppendProperties
  <1>2. \A i \in 1..Len(u) + 1 : i \in 1..Len(u) \/ i = Len(u) + 1
    BY <1>1
  <1>3. Len(u) + 1 \in 1..Len(u) + 1 /\ \A i \in 1..Len(u) : i \in 1..Len(u) + 1
    BY <1>1
  <1> QED  BY <1>1, <1>2, <1>3 DEF Sound

\* What is kept of the bytes held begins with the first header that s_rx can hold.
LEMMA HeldFirst ==
  ASSUME NEW cells \in Seq(Cell), NEW i \in 1..Len(cells),
         cells[i].at = 1, cells[i].of <= RxCap
  PROVE  \E n \in 1..i :
           /\ FromHeader(cells) = Behind(cells, n - 1)
           /\ cells[n].at = 1 /\ cells[n].of <= RxCap
  <1> DEFINE Header(c) == c.at = 1 /\ c.of <= RxCap
             I == {j \in 1..Len(cells) : Header(cells[j])}
             first == SelectInSeq(cells, Header)
  <1>1. FromHeader(cells) = IF first = 0 THEN <<>> ELSE Behind(cells, first - 1)
    BY Zenon DEF FromHeader
  <1>2. first = IF I # {} THEN Min(I) ELSE 0
    BY Zenon DEF SelectInSeq
  <1>3. i \in I /\ I \subseteq Nat /\ I # {}
    OBVIOUS
  <1>4. Min(I) \in I /\ Min(I) <= i
    BY <1>3, LeastIs
  <1> HIDE DEF first
  <1>5. first = Min(I)
    BY <1>2, <1>3
  <1>6. first \in 1..Len(cells) /\ Header(cells[first]) /\ first <= i
    BY <1>4, <1>5
  <1>7. first \in 1..i /\ first # 0
    BY <1>6
  <1> QED  BY <1>1, <1>6, <1>7

\* What comes in a row before a cell that the agent holds, the agent holds too.
LEMMA HeldBefore ==
  ASSUME NEW c, NEW d, NEW a \in Seq(Cell), NEW q \in Seq(Cell), NEW u \in Seq(Message),
         Row(c, a, q, u, d), NEW x \in Cell, NEW y \in Cell, Before(x, y), In(y, a),
         In(x, a) \/ In(x, q) \/ Sound(x, u)
  PROVE  In(x, a)
  <1>1. ~Before(y, x)
    BY DEF Before, Cell
  <1>2. ~In(x, q)
    BY <1>1 DEF In, Row, AllBefore
  <1>3. ~Sound(x, u)
    <2> SUFFICES ASSUME NEW m \in 1..Len(u), In(x, u[m].cells) PROVE FALSE
      BY DEF Sound
    <2>1. AllBefore(a, u[m].cells)
      BY DEF Row
    <2> QED  BY <1>1, <2>1 DEF In, AllBefore
  <1> QED  BY <1>2, <1>3

\* Nothing of a frame whose header is held is dropped with what precedes a header.
LEMMA HeldKeeps ==
  ASSUME NEW s \in Seq(Cell), Ordered(s), NEW f \in Nat, NEW a \in Nat \ {0}, NEW k \in Nat,
         k <= RxCap, In(CellOf(f, a, k), s), In(CellOf(f, 1, k), s)
  PROVE  In(CellOf(f, a, k), FromHeader(s))
  <1>1. PICK i \in 1..Len(s) : s[i] = CellOf(f, 1, k)
    BY DEF In
  <1>2. PICK j \in 1..Len(s) : s[j] = CellOf(f, a, k)
    BY DEF In
  <1>3. i <= j
    <2>1. SUFFICES ASSUME j < i PROVE FALSE
      OBVIOUS
    <2>2. Before(CellOf(f, a, k), CellOf(f, 1, k))
      BY <1>1, <1>2, <2>1 DEF Ordered
    <2> QED  BY <2>2 DEF Before, CellOf
  <1>4. s[i].at = 1 /\ s[i].of <= RxCap
    BY <1>1 DEF CellOf
  <1>5. PICK n \in 1..i : FromHeader(s) = Behind(s, n - 1)
    BY <1>4, HeldFirst
  <1>6. n - 1 \in 0..Len(s) /\ j - (n - 1) \in 1..Len(s) - (n - 1)
        /\ (n - 1) + (j - (n - 1)) = j
    BY <1>3
  <1>7. /\ Len(Behind(s, n - 1)) = Len(s) - (n - 1)
        /\ \A l \in 1..Len(s) - (n - 1) : Behind(s, n - 1)[l] = s[n - 1 + l]
    BY <1>6, BehindIs
  <1>8. /\ j - (n - 1) \in 1..Len(Behind(s, n - 1))
        /\ Behind(s, n - 1)[j - (n - 1)] = s[j]
    BY <1>6, <1>7
  <1> QED  BY <1>2, <1>5, <1>8 DEF In

\* From a header on, cells that go on one from the other are a frame's, as far
\* as they go.
LEMMA StepsAreOne ==
  ASSUME NEW p, NEW s \in Seq(Cell), s # <<>>, Steps(p, s), s[1].at = 1, s[1].of <= RxCap,
         p.hurried = {}, s[1].of \notin 1..Len(s)
  PROVE  \A i \in 1..Len(s) : s[i].at = i /\ s[i].of = s[1].of
  <1> DEFINE Good(i) == s[i].at = i /\ s[i].of = s[1].of
             I == {i \in 1..Len(s) : ~Good(i)}
  <1>1. Len(s) \in Nat /\ s[1].of \in Nat
    <2>1. 1 \in 1..Len(s)
      OBVIOUS
    <2>2. s[1] \in Cell
      BY <2>1, ElementOfSeq
    <2> QED  BY <2>2 DEF Cell
  <1>2. I = {}
    <2> SUFFICES ASSUME I # {} PROVE FALSE
      OBVIOUS
    <2> DEFINE least == Min(I)
    <2>1. I \subseteq Nat
      OBVIOUS
    <2>2. least \in I /\ \A j \in I : least <= j
      BY <2>1, LeastIs
    <2> HIDE DEF least
    <2>3. least \in 1..Len(s) /\ ~Good(least)
      BY <2>2
    <2>4. least # 1
      BY <2>3
    <2>5. least - 1 \in 1..Len(s) /\ least \in Nat /\ ~(least <= least - 1)
      BY <1>1, <2>3, <2>4
    <2>6. Good(least - 1)
      BY <2>2, <2>5
    <2>7. Follows(p, s[least - 1], s[(least - 1) + 1])
      <3>1. least - 1 \in 1..Len(s) /\ (least - 1) + 1 <= Len(s)
        BY <1>1, <2>3, <2>5
      <3> QED  BY <3>1 DEF Steps
    <2>8. (least - 1) + 1 = least
      BY <2>5
    <2>9. ~Ended(p, s[least - 1])
      BY <1>1, <2>3, <2>5, <2>6, SizesAssumption DEF Ended
    <2>10. Good(least)
      BY <2>6, <2>7, <2>8, <2>9 DEF Follows
    <2> QED  BY <2>3, <2>10
  <1> QED  BY <1>2

\* A frame that is held from its first cell to its last one is seen to be whole.
LEMMA WholeIsSeen ==
  ASSUME NEW p, NEW s \in Seq(Cell), Ordered(s), Steps(p, s), p.hurried = {},
         NEW f \in Nat, NEW k \in 1..RxCap,
         In(CellOf(f, 1, k), s), In(CellOf(f, k, k), s)
  PROVE  FrameLen(s) > 0
  <1> DEFINE h == FromHeader(s)
  <1>1. h \in Seq(Cell) /\ Part(h, s)
    BY HeldTypes, PartHeld
  <1>2. In(CellOf(f, k, k), h)
    <2>1. k \in Nat \ {0} /\ k <= RxCap
      BY SizesAssumption
    <2> QED  BY <2>1, HeldKeeps
  <1>3. PICK j \in 1..Len(h) : h[j] = CellOf(f, k, k)
    BY <1>2 DEF In
  <1>4. h # <<>>
    BY <1>1, <1>3
  <1>5. h[1].at = 1 /\ h[1].of <= RxCap
    BY <1>4, HeldBegins
  <1> HIDE DEF h
  <1>6. Steps(p, h) /\ h[1].of \in Nat /\ Len(h) \in Nat
    <2>1. h[1] \in Cell /\ Len(h) \in Nat
      BY <1>1, <1>4
    <2>2. Steps(p, h)
      BY <1>1, StepsOfPart
    <2> QED  BY <2>1, <2>2 DEF Cell
  <1>7. h[1].of \in 1..Len(h)
    <2> SUFFICES ASSUME h[1].of \notin 1..Len(h) PROVE FALSE
      OBVIOUS
    <2>1. h[j].at = j /\ h[j].of = h[1].of
      BY <1>1, <1>4, <1>5, <1>6, StepsAreOne
    <2>2. k = j /\ k = h[1].of
      BY <1>3, <2>1 DEF CellOf
    <2> QED  BY <2>2
  <1>8. FrameLen(s) = h[1].of
    BY <1>4, <1>6, <1>7 DEF FrameLen, h
  <1> QED  BY <1>6, <1>7, <1>8

-----------------------------------------------------------------------------

\* Cells that move on but do not leave.
LEMMA DueMoved ==
  ASSUME NEW w, NEW f, NEW a, NEW q, NEW u, NEW a1, NEW q1, NEW u1,
         Due(w, f, a, q, u),
         \A c : c.frame = f /\ Among(c, a, q, u) => Among(c, a1, q1, u1)
  PROVE  Due(w, f, a1, q1, u1)
  <1>1. \A at, k : CellOf(f, at, k).frame = f
    BY DEF CellOf
  <1> QED  BY <1>1 DEF Due

\* The agent keeps what it holds of a frame whose header it holds.
LEMMA DueHeld ==
  ASSUME NEW c, NEW d, NEW w, w \in [frame : Nat, sent : Nat, of : Nat], NEW f \in Nat,
         NEW a \in Seq(Cell), NEW q \in Seq(Cell), NEW u \in Seq(Message),
         Row(c, a, q, u, d), Due(w, f, a, q, u)
  PROVE  Due(w, f, FromHeader(a), q, u)
  <1>1. PICK k \in 1..RxCap :
          /\ f = w.frame => k = w.of
          /\ \A at \in 1..k : f < w.frame \/ at <= w.sent => Among(CellOf(f, at, k), a, q, u)
    BY DEF Due
  <1>2. k \in Nat /\ k <= RxCap /\ 1 \in 1..k
    BY SizesAssumption
  <1>3. ASSUME NEW at \in 1..k, f < w.frame \/ at <= w.sent
        PROVE  Among(CellOf(f, at, k), FromHeader(a), q, u)
    <2>1. Among(CellOf(f, at, k), a, q, u) /\ Among(CellOf(f, 1, k), a, q, u)
      <3>1. f < w.frame \/ 1 <= w.sent
        BY <1>2, <1>3
      <3> QED  BY <1>1, <1>2, <1>3, <3>1
    <2>2. CASE In(CellOf(f, at, k), a)
      <3>1. In(CellOf(f, 1, k), a)
        <4>1. CASE at = 1
          BY <2>2, <4>1
        <4>2. CASE at # 1
          <5>1. /\ CellOf(f, at, k) \in Cell /\ CellOf(f, 1, k) \in Cell
                /\ Before(CellOf(f, 1, k), CellOf(f, at, k))
            BY <1>2, <4>2 DEF CellOf, Cell, Before
          <5> QED  BY <2>1, <2>2, <5>1, HeldBefore DEF Among
        <4> QED  BY <4>1, <4>2
      <3>2. Ordered(a)
        BY DEF Row
      <3>3. at \in Nat \ {0}
        BY <1>2
      <3> QED  BY <1>2, <2>2, <3>1, <3>2, <3>3, HeldKeeps DEF Among
    <2>3. CASE ~In(CellOf(f, at, k), a)
      BY <2>1, <2>3 DEF Among
    <2> QED  BY <2>2, <2>3
  <1> QED  BY <1>1, <1>3 DEF Due

\* A loss takes nothing of a frame that is due: what the agent holds up to it
\* would be the whole frame.
LEMMA DueSpared ==
  ASSUME NEW c, NEW d, NEW w, w \in [frame : Nat, sent : Nat, of : Nat],
         NEW f \in Nat, NEW g \in 0..w.frame, f # g,
         NEW a \in Seq(Cell), NEW q \in Seq(Cell), NEW u \in Seq(Message),
         Row(c, a, q, u, d), NEW p, Steps(p, a), p.hurried = {}, FrameLen(a) = 0,
         \A x : In(x, a) => x.frame <= g,
         \A x : In(x, q) \/ Sound(x, u) => g <= x.frame,
         Due(w, f, a, q, u)
  PROVE  Due(w, f, <<>>, q, u)
  <1>1. PICK k \in 1..RxCap :
          /\ f = w.frame => k = w.of
          /\ \A at \in 1..k : f < w.frame \/ at <= w.sent => Among(CellOf(f, at, k), a, q, u)
    BY DEF Due
  <1>2. k \in Nat /\ 1 \in 1..k /\ k \in 1..k
    BY SizesAssumption
  <1>3. ASSUME NEW at \in 1..k, In(CellOf(f, at, k), a)
        PROVE  FALSE
    <2>1. f <= g
      <3>1. CellOf(f, at, k).frame <= g
        BY <1>3
      <3> QED  BY <3>1 DEF CellOf
    <2>2. f < g /\ f < w.frame
      BY <2>1
    <2>3. ASSUME NEW b \in 1..k PROVE In(CellOf(f, b, k), a)
      <3>1. Among(CellOf(f, b, k), a, q, u)
        BY <1>1, <2>2
      <3>2. CellOf(f, b, k).frame = f
        BY DEF CellOf
      <3>3. ~(In(CellOf(f, b, k), q) \/ Sound(CellOf(f, b, k), u))
        BY <2>2, <3>2
      <3> QED  BY <3>1, <3>3 DEF Among
    <2>4. In(CellOf(f, 1, k), a) /\ In(CellOf(f, k, k), a)
      BY <1>2, <2>3
    <2>5. Ordered(a)
      BY DEF Row
    <2>6. FrameLen(a) > 0
      BY <2>4, <2>5, WholeIsSeen
    <2> QED  BY <2>6
  <1>4. \A at \in 1..k : f < w.frame \/ at <= w.sent => Among(CellOf(f, at, k), <<>>, q, u)
    BY <1>1, <1>3 DEF Among
  <1> QED  BY <1>1, <1>4 DEF Due

\* A step of the agent or the driver.
LEMMA AccountedStep ==
  ASSUME Accounted, UNCHANGED <<writing, hurried>>,
         hurt \subseteq hurt', hurt' \subseteq 0..writing.frame, HarmKnown', LossKnown',
         \A f : Done(f) => Done(f)',
         hurried = {} =>
           \A f \in 1..writing.frame \ hurt' :
             Due(writing, f, Behind(rx, rxDone), rxq, usb) =>
               Done(f)' \/ Between(f)' \/ Due(writing, f, Behind(rx', rxDone'), rxq', usb')
  PROVE  Accounted'
  <1>1. ASSUME hurried = {}, NEW f \in 1..writing.frame \ hurt'
        PROVE  Done(f)' \/ Between(f)' \/ Due(writing, f, Behind(rx', rxDone'), rxq', usb')
    <2>1. Done(f) \/ Between(f) \/ Due(writing, f, Behind(rx, rxDone), rxq, usb)
      BY <1>1 DEF Accounted, Waiting
    <2>2. Between(f) => Between(f)'
      BY DEF Between
    <2> QED  BY <1>1, <2>1, <2>2
  <1>2. hurried' = {} => Waiting'
    BY <1>1 DEF Waiting
  <1> QED  BY <1>2 DEF Accounted

\* A message that leaves the cart, or none.
LEMMA HarmKept ==
  ASSUME usb \in Seq(Message), HarmKnown, hurt \subseteq hurt',
         usb' = usb \/ (usb # <<>> /\ usb' = Tail(usb))
  PROVE  HarmKnown'
  <1>1. CASE usb' = usb
    BY <1>1 DEF HarmKnown
  <1>2. CASE usb # <<>> /\ usb' = Tail(usb)
    <2>1. \A m \in 1..Len(usb') : m + 1 \in 1..Len(usb) /\ usb'[m] = usb[m + 1]
      BY <1>2, HeadTailProperties
    <2> QED  BY <2>1 DEF HarmKnown
  <1> QED  BY <1>1, <1>2

LEMMA AccountedTick ==
  ASSUME Bounded, Accounted, BeginTick
  PROVE  Accounted'
  <1>1. /\ rx' = Behind(rx, rxDone) /\ rxDone' = 0
        /\ UNCHANGED <<writing, hurried, hurt, usb, rxq, rxqLost, rxqBeforeLoss, served>>
    BY DEF BeginTick, line, driver
  <1>2. Behind(rx', rxDone') = Behind(rx, rxDone)
    BY <1>1, FlowTypes, NoneDone
  <1>3. HarmKnown' /\ LossKnown' /\ hurt' \subseteq 0..writing.frame
    BY <1>1, <1>2 DEF Accounted, HarmKnown, LossKnown
  <1>4. \A f : Done(f) => Done(f)'
    BY <1>1 DEF Done
  <1> QED  BY <1>1, <1>2, <1>3, <1>4, AccountedStep

\* What joins the agent's cells from the front of a queue.
LEMMA DueJoins ==
  ASSUME NEW c, NEW d, NEW w, w \in [frame : Nat, sent : Nat, of : Nat], NEW f \in Nat,
         NEW a \in Seq(Cell), NEW q \in Seq(Cell), NEW u \in Seq(Message), NEW n \in 0..Len(q),
         Row(c, a, q, u, d), Due(w, f, a, q, u)
  PROVE  Due(w, f, FromHeader(a) \o SubSeq(q, 1, n), Behind(q, n), u)
  <1>1. FromHeader(a) \in Seq(Cell) /\ SubSeq(q, 1, n) \in Seq(Cell)
    BY HeldTypes, UpToIs
  <1>2. Due(w, f, FromHeader(a), q, u)
    BY DueHeld
  <1>3. ASSUME NEW x, Among(x, FromHeader(a), q, u)
        PROVE  Among(x, FromHeader(a) \o SubSeq(q, 1, n), Behind(q, n), u)
    <2>1. /\ In(x, q) <=> In(x, SubSeq(q, 1, n)) \/ In(x, Behind(q, n))
          /\ In(x, FromHeader(a) \o SubSeq(q, 1, n))
               <=> In(x, FromHeader(a)) \/ In(x, SubSeq(q, 1, n))
      BY <1>1, InSplit, InJoined
    <2> QED  BY <1>3, <2>1 DEF Among
  <1> QED  BY <1>2, <1>3, DueMoved

LEMMA AccountedQueued ==
  ASSUME Bounded, InRow, Unbroken, Accounted, PullQueued
  PROVE  Accounted'
  <1> DEFINE h == FromHeader(rx)
             n == Given(rxq, RxCap - Len(h))
  <1>1. /\ agentAt = "pull" /\ rxDone' = rxDone /\ rxDone = 0 /\ FrameLen(rx) = 0
        /\ UNCHANGED <<writing, hurried, cutOff, usb, served, hurt>>
    BY BoundedParts DEF PullQueued, Pulling, line, RxFits, Arrives, NoneArrives
  <1>2. /\ rx \in Seq(Cell) /\ rxq \in Seq(Cell) /\ rxqLost \in BOOLEAN
        /\ rxqLost => rxqBeforeLoss \in 0..Len(rxq)
        /\ usb \in Seq(Message) /\ h \in Seq(Cell) /\ <<>> \in Seq(Cell)
        /\ writing \in [frame : Nat, sent : Nat, of : Nat]
    BY FlowTypes, Sequences
  <1>3. Behind(rx, rxDone) = rx
    BY <1>1, <1>2, NoneDone
  <1>4. /\ Flow(Sender, rx, rxq, rxqLost, rxqBeforeLoss, usb)
        /\ Row(Handled, rx, rxq, usb, Coming)
    BY <1>3 DEF Unbroken, InRow
  <1>5. /\ \A f : Done(f) => Done(f)'
        /\ HarmKnown' /\ hurt' \subseteq 0..writing.frame
    BY <1>1 DEF Done, Accounted, HarmKnown
  <1>6. CASE rxqLost /\ rxqBeforeLoss = 0
    <2>1. rx' = <<>> /\ rxqLost' = FALSE /\ rxq' = rxq
      BY <1>6 DEF PullQueued, LostOnTheWay
    <2>2. Behind(rx', rxDone') = <<>>
      BY <1>1, <1>2, <2>1, NoneDone
    <2>3. PICK g \in hurt : LossAt(g, rx, rxq, 0, usb)
      BY <1>3, <1>6 DEF Accounted, LossKnown
    <2>4. g \in 0..writing.frame
      BY DEF Accounted
    <2>5. \A x : In(x, rx) => x.frame <= g
      BY <2>3 DEF In, LossAt
    <2>6. \A x : In(x, rxq) => g <= x.frame
      BY <2>3 DEF In, LossAt
    <2>7. \A x : Sound(x, usb) => g <= x.frame
      BY <2>3 DEF In, Sound, LossAt
    <2>8. ASSUME hurried = {}, NEW f \in 1..writing.frame \ hurt,
                 Due(writing, f, rx, rxq, usb)
          PROVE  Due(writing, f, <<>>, rxq, usb)
      <3>1. Steps(Sender, rx) /\ Sender.hurried = {}
        BY <1>2, <1>4, <2>8, StepsHeld DEF Sender
      <3>2. f \in Nat /\ f # g
        BY <1>2, <2>3
      <3> QED  BY <1>1, <1>2, <1>4, <2>4, <2>5, <2>6, <2>7, <2>8, <3>1, <3>2, DueSpared
    <2>9. LossKnown'
      BY <2>1 DEF LossKnown
    <2> QED  BY <1>1, <1>3, <1>5, <2>1, <2>2, <2>8, <2>9, AccountedStep
  <1>7. CASE ~(rxqLost /\ rxqBeforeLoss = 0)
    <2>1. /\ rx' = h \o SubSeq(rxq, 1, n) /\ rxq' = Behind(rxq, n) /\ rxqLost' = rxqLost
          /\ rxqBeforeLoss' = IF rxqLost THEN rxqBeforeLoss - n ELSE rxqBeforeLoss
      BY <1>7 DEF PullQueued, HandOver
    <2>2. n \in 0..Len(rxq) /\ (rxqLost => n <= rxqBeforeLoss)
      <3>1. RxFits /\ Marked
        BY BoundedParts
      <3>2. RxCap - Len(h) \in Nat
        BY <3>1, HeldRoom
      <3> QED  BY <1>2, <3>1, <3>2, GivenIs
    <2> HIDE DEF n
    <2>3. rx' \in Seq(Cell) /\ Behind(rx', rxDone') = rx'
      <3>1. SubSeq(rxq, 1, n) \in Seq(Cell)
        BY <1>2, <2>2, UpToIs
      <3> QED  BY <1>1, <1>2, <2>1, <3>1, NoneDone, ConcatProperties
    <2>4. ASSUME NEW f \in 1..writing.frame, Due(writing, f, rx, rxq, usb)
          PROVE  Due(writing, f, rx', rxq', usb)
      <3>1. f \in Nat
        BY <1>2
      <3> QED  BY <1>2, <1>4, <2>1, <2>2, <2>4, <3>1, DueJoins
    <2>5. ASSUME rxqLost, NEW g \in hurt, LossAt(g, rx, rxq, rxqBeforeLoss, usb)
          PROVE  LossAt(g, rx', rxq', rxqBeforeLoss', usb)
      <3> DEFINE k == rxqBeforeLoss
      <3>1. k \in Nat /\ n \in Nat /\ n <= k /\ k <= Len(rxq) /\ Len(rxq) \in Nat
            /\ rxqBeforeLoss' = k - n
        BY <1>2, <2>1, <2>2, <2>5
      <3>2. \A i \in 1..Len(rxq') : n + i \in 1..Len(rxq) /\ rxq'[i] = rxq[n + i]
        <4>1. /\ Len(Behind(rxq, n)) = Len(rxq) - n
              /\ \A i \in 1..Len(rxq) - n : Behind(rxq, n)[i] = rxq[n + i]
          BY <1>2, <2>2, BehindIs
        <4> QED  BY <2>1, <3>1, <4>1
      <3>3. \A i \in 1..Len(rxq) : IF i <= k THEN rxq[i].frame <= g ELSE g <= rxq[i].frame
        BY <2>5 DEF LossAt
      <3>4. \A x : In(x, h) => In(x, rx)
        <4>1. PICK j \in Nat : \A i \in 1..Len(h) : j + i \in 1..Len(rx) /\ h[i] = rx[j + i]
          BY <1>2, PartHeld DEF Part
        <4> QED  BY <4>1 DEF In
      <3>5. \A x : In(x, SubSeq(rxq, 1, n)) => x.frame <= g
        <4>1. \A i \in 1..n : i \in 1..Len(rxq) /\ SubSeq(rxq, 1, n)[i] = rxq[i] /\ i <= k
          BY <1>2, <2>2, <3>1, UpToIs
        <4>2. Len(SubSeq(rxq, 1, n)) = n
          BY <1>2, <2>2, UpToIs
        <4> QED  BY <3>3, <4>1, <4>2 DEF In
      <3>6. \A x : In(x, rx) => x.frame <= g
        BY <2>5 DEF In, LossAt
      <3>7. \A i \in 1..Len(rx') : rx'[i].frame <= g
        <4>1. SubSeq(rxq, 1, n) \in Seq(Cell)
          BY <1>2, <2>2, UpToIs
        <4>2. \A x : In(x, rx') => In(x, h) \/ In(x, SubSeq(rxq, 1, n))
          BY <1>2, <2>1, <4>1, InJoined
        <4>3. \A i \in 1..Len(rx') : In(rx'[i], rx')
          BY DEF In
        <4> QED  BY <3>4, <3>5, <3>6, <4>2, <4>3
      <3>8. \A i \in 1..Len(rxq') :
              IF i <= k - n THEN rxq'[i].frame <= g ELSE g <= rxq'[i].frame
        <4> SUFFICES ASSUME NEW i \in 1..Len(rxq')
                     PROVE  IF i <= k - n THEN rxq'[i].frame <= g ELSE g <= rxq'[i].frame
          OBVIOUS
        <4>1. n + i \in 1..Len(rxq) /\ rxq'[i] = rxq[n + i] /\ i \in Nat
          BY <3>2
        <4>2. i <= k - n <=> n + i <= k
          BY <3>1, <4>1
        <4> QED  BY <3>3, <4>1, <4>2
      <3> QED  BY <2>5, <3>1, <3>7, <3>8 DEF LossAt
    <2>6. LossKnown'
      BY <1>1, <1>3, <2>1, <2>3, <2>5 DEF Accounted, LossKnown
    <2> QED  BY <1>1, <1>3, <1>5, <2>3, <2>4, <2>6, AccountedStep
  <1> QED  BY <1>6, <1>7

\* A loss the driver tells of is of a message that was damaged.
LEMMA UsbLostIs ==
  ASSUME usb \in Seq(Message), NEW r \in UsbReceive, r.result = "lost"
  PROVE  /\ usb # <<>> /\ r.usb = Tail(usb) /\ r.message = <<>>
         /\ Head(usb).kind \in {"unframed", "torn"}
  <1>1. usb # <<>> /\ r.usb = Tail(usb) /\ r.message = <<>>
    BY UsbResultIs
  <1>2. Head(usb).kind \in {"L3", "unframed", "torn", "other"}
    <2>1. Head(usb) \in Message
      BY <1>1, HeadTailProperties
    <2> QED  BY <2>1 DEF Message
  <1> DEFINE Outcome(result, left, phase, front, message) ==
               [result |-> result, usb |-> left, phase |-> phase, front |-> front,
                message |-> message]
             stopped == Outcome("busy", usb, rxPhase, rxqOff, <<>>)
             other == Outcome("done", Tail(usb), "header", rxqOff, <<>>)
             full == Outcome("full", usb, "room", 0, <<>>)
             part == Outcome("busy", usb, "payload", RxqFront, <<>>)
             torn == Outcome("lost", Tail(usb), "header", RxqFront, <<>>)
             done == Outcome("done", Tail(usb), "header", RxqFront, Head(usb).cells)
             kind == Head(usb).kind
  <1>3. kind = "L3" => r \in {stopped, full, part, done}
    BY <1>1 DEF UsbReceive
  <1>4. kind = "other" => r \in {stopped, other}
    BY <1>1 DEF UsbReceive
  <1>5. r \in {stopped, other, full, part, done} => r.result # "lost"
    OBVIOUS
  <1> HIDE DEF stopped, other, full, part, torn, done
  <1> QED  BY <1>1, <1>2, <1>3, <1>4, <1>5

\* The cells of the message the driver takes from the cart are the queue's next.
LEMMA DueTaken ==
  ASSUME NEW w, NEW f, NEW a, NEW q \in Seq(Cell), NEW u \in Seq(Message), u # <<>>,
         NEW message \in Seq(Cell),
         Head(u).kind = "L3" => message = Head(u).cells,
         Due(w, f, a, q, u)
  PROVE  Due(w, f, a, q \o message, Tail(u))
  <1>1. ASSUME NEW x, Among(x, a, q, u) PROVE Among(x, a, q \o message, Tail(u))
    <2>1. In(x, q \o message) <=> In(x, q) \/ In(x, message)
      BY InJoined
    <2>2. Sound(x, u) => In(x, message) \/ Sound(x, Tail(u))
      BY SoundOfTail
    <2> QED  BY <1>1, <2>1, <2>2 DEF Among
  <1> QED  BY <1>1, DueMoved

\* A message that is lost: its request is hurt, and all that is behind it is of
\* that request or later ones, all that is before it of that or earlier ones.
LEMMA LossComes ==
  ASSUME Bounded, InRow, Accounted, usb # <<>>, Head(usb).kind \in {"unframed", "torn"}
  PROVE  \E g \in hurt : LossAt(g, Behind(rx, rxDone), rxq, Len(rxq), Tail(usb))
  <1> DEFINE a == Behind(rx, rxDone)
             m == Head(usb).cells
             g == m[1].frame
  <1>1. /\ a \in Seq(Cell) /\ rxq \in Seq(Cell) /\ usb \in Seq(Message)
        /\ Row(Handled, a, rxq, usb, Coming)
    BY FlowTypes DEF InRow
  <1>2. /\ Len(usb) \in Nat \ {0} /\ Head(usb) = usb[1]
        /\ Len(Tail(usb)) = Len(usb) - 1
        /\ \A i \in 1..Len(usb) - 1 : Tail(usb)[i] = usb[i + 1]
    BY <1>1, HeadTailProperties
  <1>3. 1 \in 1..Len(usb) /\ m = usb[1].cells
    BY <1>2
  <1>4. m # <<>> /\ \A i \in 1..Len(m) : m[i].frame \in hurt
    BY <1>3 DEF Accounted, HarmKnown
  <1>5. m \in Seq(Cell)
    BY <1>1, <1>3, CellsOf
  <1>6. 1 \in 1..Len(m)
    BY <1>4, <1>5
  <1>7. g \in hurt
    BY <1>4, <1>6
  <1>8. AllBefore(a, m) /\ AllBefore(rxq, m)
    BY <1>1, <1>3 DEF Row
  <1>9. \A k \in 1..Len(Tail(usb)) : AllBefore(m, Tail(usb)[k].cells)
    <2> SUFFICES ASSUME NEW k \in 1..Len(Tail(usb)) PROVE AllBefore(m, Tail(usb)[k].cells)
      OBVIOUS
    <2>1. k + 1 \in 1..Len(usb) /\ 1 < k + 1 /\ Tail(usb)[k] = usb[k + 1]
      BY <1>2
    <2>2. AllBefore(usb[1].cells, usb[k + 1].cells)
      BY <1>1, <1>3, <2>1 DEF Row
    <2> QED  BY <1>3, <2>1, <2>2
  <1>10. \A i \in 1..Len(m) : Place(m[i])
    BY <1>5, PlacesOfCells
  <1> HIDE DEF a, m
  <1>11. \A i \in 1..Len(a) : a[i].frame <= g
    <2>1. \A i \in 1..Len(a) : Place(a[i]) /\ Before(a[i], m[1])
      BY <1>1, <1>6, <1>8, PlacesOfCells DEF AllBefore
    <2> QED  BY <1>6, <1>10, <2>1 DEF Before, Place
  <1>12. \A i \in 1..Len(rxq) : i <= Len(rxq) /\ rxq[i].frame <= g
    <2>1. \A i \in 1..Len(rxq) : Place(rxq[i]) /\ Before(rxq[i], m[1])
      BY <1>1, <1>6, <1>8, PlacesOfCells DEF AllBefore
    <2> QED  BY <1>6, <1>10, <2>1 DEF Before, Place
  <1>13. ASSUME NEW k \in 1..Len(Tail(usb)), NEW i \in 1..Len(Tail(usb)[k].cells)
         PROVE  g <= Tail(usb)[k].cells[i].frame
    <2>1. Before(m[1], Tail(usb)[k].cells[i])
      BY <1>6, <1>9 DEF AllBefore
    <2>2. Place(Tail(usb)[k].cells[i])
      <3>1. Tail(usb) \in Seq(Message)
        BY <1>1, HeadTailProperties
      <3>2. Tail(usb)[k].cells \in Seq(Cell)
        BY <3>1, CellsOf
      <3> QED  BY <3>2, PlacesOfCells
    <2> QED  BY <1>6, <1>10, <2>1, <2>2 DEF Before, Place
  <1>14. LossAt(g, a, rxq, Len(rxq), Tail(usb))
    BY <1>11, <1>12, <1>13 DEF LossAt
  <1> QED  BY <1>7, <1>14 DEF a

LEMMA AccountedUsb ==
  ASSUME Bounded, InRow, Unbroken, Accounted, PullUsb
  PROVE  Accounted'
  <1>1. PICK r \in UsbReceive :
          /\ usb' = r.usb
          /\ LET held == FromHeader(rx)
                 n == Given(r.message, RxCap - Len(held))
             IN /\ HandOver(r.message, r.front, n)
                /\ IF r.result = "lost" THEN LostOnTheWay /\ NoneArrives
                   ELSE IF n = 0
                        THEN rx' = held /\ agentAt' = "pulled" /\ NoneArrives
                        ELSE rx' = held \o SubSeq(r.message, 1, n) /\ Arrives
                             /\ UNCHANGED agentAt
    BY Zenon DEF PullUsb
  <1> DEFINE h == FromHeader(rx)
             n == Given(r.message, RxCap - Len(h))
  <1>2. /\ agentAt = "pull" /\ rxDone' = rxDone /\ rxDone = 0 /\ FrameLen(rx) = 0
        /\ rxq = <<>> /\ ~rxqLost /\ rxqLost' = rxqLost
        /\ UNCHANGED <<writing, hurried, served, hurt>>
    BY BoundedParts DEF PullUsb, Pulling, RxFits
  <1>3. /\ rx \in Seq(Cell) /\ rxq \in Seq(Cell) /\ usb \in Seq(Message)
        /\ h \in Seq(Cell) /\ <<>> \in Seq(Cell) /\ r.message \in Seq(Cell)
        /\ writing \in [frame : Nat, sent : Nat, of : Nat]
    BY FlowTypes, Sequences, UsbReceiveIs, EmptySeq
  <1>4. Behind(rx, rxDone) = rx
    BY <1>2, <1>3, NoneDone
  <1>5. /\ Flow(Sender, rx, rxq, FALSE, rxqBeforeLoss, usb)
        /\ Row(Handled, rx, rxq, usb, Coming)
    BY <1>2, <1>4 DEF Unbroken, InRow, Flow
  <1>6. n \in 0..Len(r.message)
    <2>1. RxFits /\ Marked
      BY BoundedParts
    <2>2. RxCap - Len(h) \in Nat
      BY <2>1, HeldRoom
    <2> QED  BY <1>2, <1>3, <2>1, <2>2, GivenIs
  <1>7. /\ rxq' = Behind(r.message, n)
        /\ r.result = "lost" => rx' = <<>>
        /\ r.result # "lost" => rx' = h \o SubSeq(r.message, 1, n)
    <2>1. /\ rxq' = Behind(r.message, n)
          /\ r.result = "lost" => rx' = <<>>
          /\ r.result # "lost" => \/ n = 0 /\ rx' = h
                                  \/ rx' = h \o SubSeq(r.message, 1, n)
      BY <1>1 DEF HandOver, LostOnTheWay
    <2>2. n = 0 => h = h \o SubSeq(r.message, 1, n)
      <3>1. n = 0 => SubSeq(r.message, 1, n) \in Seq(Cell) /\ Len(SubSeq(r.message, 1, n)) = 0
        BY <1>3, <1>6, UpToIs
      <3>2. n = 0 => SubSeq(r.message, 1, n) = <<>>
        BY <3>1, EmptySeq
      <3> QED  BY <1>3, <3>2, ConcatEmptySeq
    <2> QED  BY <2>1, <2>2
  <1> HIDE DEF n
  <1>8. /\ \A f : Done(f) => Done(f)'
        /\ HarmKnown' /\ LossKnown' /\ hurt' \subseteq 0..writing.frame
    <2>1. usb' = usb \/ (usb # <<>> /\ usb' = Tail(usb))
      BY <1>1, UsbReceiveIs
    <2>2. HarmKnown'
      BY <1>2, <1>3, <2>1, HarmKept DEF Accounted
    <2> QED  BY <1>2, <2>2 DEF Done, Accounted, LossKnown
  <1>9. rx' \in Seq(Cell) /\ Behind(rx', rxDone') = rx'
    <2>1. SubSeq(r.message, 1, n) \in Seq(Cell)
      BY <1>3, <1>6, UpToIs
    <2>2. rx' \in Seq(Cell)
      BY <1>3, <1>7, <2>1, ConcatProperties
    <2> QED  BY <1>2, <2>2, NoneDone
  <1>10. ASSUME hurried = {}, NEW f \in 1..writing.frame \ hurt,
                Due(writing, f, rx, rxq, usb)
         PROVE  Due(writing, f, rx', rxq', usb')
    <2>1. f \in Nat
      BY <1>3
    <2>2. CASE r.result # "lost"
      <3>1. /\ Due(writing, f, rx, r.message, usb')
            /\ Row(Handled, rx, r.message, usb', Coming) /\ usb' \in Seq(Message)
        <4>1. CASE r.usb = usb /\ r.message = <<>>
          BY <1>1, <1>2, <1>3, <1>5, <1>10, <4>1
        <4>2. CASE /\ usb # <<>> /\ r.usb = Tail(usb)
                   /\ \/ Head(usb).kind = "other" /\ r.message = <<>>
                      \/ Head(usb).kind = "L3" /\ r.message = Head(usb).cells
          <5>1. rxq \o r.message = r.message
            BY <1>2, <1>3, ConcatEmptySeq
          <5>2. Due(writing, f, rx, rxq \o r.message, Tail(usb))
            BY <1>3, <1>10, <4>2, DueTaken
          <5>3. Tail(usb) \in Seq(Message)
            BY <1>3, <4>2, HeadTailProperties
          <5>4. Row(Handled, rx, r.message, Tail(usb), Coming)
            <6>1. /\ Row(Handled, rx, rxq, Tail(usb), Coming)
                  /\ Row(Handled, rx, rxq \o Head(usb).cells, Tail(usb), Coming)
              BY <1>3, <1>5, <4>2, Queued
            <6> QED  BY <1>2, <4>2, <5>1, <6>1
          <5> QED  BY <1>1, <4>2, <5>1, <5>2, <5>3, <5>4
        <4> QED  BY <1>3, <2>2, <4>1, <4>2, UsbResultIs
      <3>2. Due(writing, f, h \o SubSeq(r.message, 1, n), Behind(r.message, n), usb')
        BY <1>3, <1>6, <2>1, <3>1, DueJoins
      <3> QED  BY <1>7, <2>2, <3>2
    <2>3. CASE r.result = "lost"
      <3>1. /\ usb # <<>> /\ usb' = Tail(usb) /\ r.message = <<>>
            /\ Head(usb).kind \in {"unframed", "torn"}
        BY <1>1, <1>3, <2>3, UsbLostIs
      <3>2. rx' = <<>> /\ rxq' = <<>>
        <4>1. n = 0
          BY <1>6, <3>1
        <4>2. Behind(<<>>, 0) = <<>>
          BY <1>3, NoneDone
        <4> QED  BY <1>7, <2>3, <3>1, <4>1, <4>2
      <3>3. PICK g \in hurt : LossAt(g, rx, rxq, Len(rxq), Tail(usb))
        BY <1>4, <3>1, LossComes
      <3>4. g \in 0..writing.frame /\ f # g
        BY <1>10, <3>3 DEF Accounted
      <3>5. \A x : Sound(x, usb) <=> Sound(x, Tail(usb))
        BY <1>3, <3>1, SoundOfTail
      <3>6. \A x : In(x, rx) => x.frame <= g
        BY <3>3 DEF In, LossAt
      <3>7. \A x : In(x, rxq) \/ Sound(x, usb) => g <= x.frame
        <4>1. \A x : Sound(x, Tail(usb)) => g <= x.frame
          BY <3>3 DEF In, Sound, LossAt
        <4>2. \A x : ~In(x, rxq)
          BY <1>2 DEF In
        <4> QED  BY <3>5, <4>1, <4>2
      <3>8. Steps(Sender, rx) /\ Sender.hurried = {}
        BY <1>3, <1>5, <1>10, StepsHeld DEF Sender
      <3>9. Due(writing, f, <<>>, rxq, usb)
        BY <1>2, <1>3, <1>5, <1>10, <2>1, <3>4, <3>6, <3>7, <3>8, DueSpared
      <3>10. Due(writing, f, <<>>, rxq, Tail(usb))
        <4>1. \A x : Among(x, <<>>, rxq, usb) => Among(x, <<>>, rxq, Tail(usb))
          BY <3>5 DEF Among
        <4> QED  BY <3>9, <4>1, DueMoved
      <3> QED  BY <1>2, <3>1, <3>2, <3>10
    <2> QED  BY <2>2, <2>3
  <1> QED  BY <1>2, <1>4, <1>8, <1>9, <1>10, AccountedStep

\* What is known of a loss does not depend on what the agent drops.
LEMMA LossKept ==
  ASSUME NEW a \in Seq(Cell), NEW a1 \in Seq(Cell), Part(a1, a),
         NEW g, NEW q, NEW n, NEW u, LossAt(g, a, q, n, u)
  PROVE  LossAt(g, a1, q, n, u)
  <1>1. PICK k \in Nat : \A i \in 1..Len(a1) : k + i \in 1..Len(a) /\ a1[i] = a[k + i]
    BY DEF Part
  <1> QED  BY <1>1 DEF LossAt

LEMMA AccountedServe ==
  ASSUME Bounded, InRow, Unbroken, Unbroken', Accounted, ServeFrame
  PROVE  Accounted'
  <1> DEFINE h == FromHeader(rx)
             n == FrameLen(rx)
             whole == \A i \in 1..rxDone' : rx'[i].frame = rx'[1].frame /\ rx'[i].at = i
             now == [frame |-> rx'[1].frame, whole |-> whole]
  <1>1. /\ agentAt \in {"pull", "pulled"} /\ n > 0
        /\ UNCHANGED <<writing, hurried, hurt, usb, rxq, rxqLost, rxqBeforeLoss>>
        /\ rx' = h /\ rxDone' = n /\ served' = Append(served, now)
    BY DEF ServeFrame, TickOver, line, driver
  <1>2. /\ rx \in Seq(Cell) /\ rxq \in Seq(Cell) /\ usb \in Seq(Message)
        /\ h \in Seq(Cell) /\ rxDone = 0
        /\ writing \in [frame : Nat, sent : Nat, of : Nat]
        /\ n \in 0..Len(h)
    BY <1>1, FlowTypes, Sequences, FrameLenIs, BoundedParts DEF RxFits
  <1>3. Behind(rx, rxDone) = rx
    BY <1>2, NoneDone
  <1>4. Row(Handled, rx, rxq, usb, Coming)
    BY <1>3 DEF InRow
  <1> HIDE DEF h, n
  <1>5. Behind(h, n) \in Seq(Cell) /\ Part(Behind(h, n), h)
    BY <1>2, BehindIs, PartBehind
  <1>6. \A x : In(x, Behind(h, n)) => In(x, rx)
    <2>1. \A x : In(x, Behind(h, n)) => In(x, h)
      BY <1>2, InSplit
    <2>2. PICK k \in Nat : \A i \in 1..Len(h) : k + i \in 1..Len(rx) /\ h[i] = rx[k + i]
      BY <1>2, PartHeld DEF Part, h
    <2>3. \A x : In(x, h) => In(x, rx)
      BY <2>2 DEF In
    <2> QED  BY <2>1, <2>3
  <1>7. /\ Len(served) \in Nat /\ Len(served') = Len(served) + 1
        /\ \A i \in 1..Len(served) : served'[i] = served[i]
        /\ served'[Len(served) + 1] = now
    <2>1. served \in Seq([frame : Nat, whole : BOOLEAN])
      BY DEF InRow
    <2>2. 1 \in 1..Len(h)
      BY <1>1, <1>2
    <2>3. h[1] \in Cell
      BY <1>2, <2>2, ElementOfSeq
    <2>4. now \in [frame : Nat, whole : BOOLEAN]
      BY <1>1, <2>3 DEF Cell
    <2> HIDE DEF now
    <2> QED  BY <1>1, <2>1, <2>4, AppendProperties
  <1>8. \A f : f = h[1].frame \/ Done(f) => Done(f)'
    <2>1. /\ Len(served) + 1 \in 1..Len(served')
          /\ \A i \in 1..Len(served) : i \in 1..Len(served')
      BY <1>7
    <2>2. now.frame = h[1].frame
      BY <1>1
    <2> HIDE DEF now
    <2> QED  BY <1>7, <2>1, <2>2 DEF Done
  <1>9. hurried = {} => \A i \in 1..n : h[i].frame = h[1].frame
    <2>1. Len(served) + 1 \in 1..Len(served')
      BY <1>7
    <2>2. now.whole \/ now.frame \in hurried
      BY <1>1, <1>7, <2>1 DEF Unbroken
    <2>3. hurried = {} => whole
      BY <2>2
    <2> QED  BY <1>1, <2>3
  <1>10. ASSUME hurried = {}, NEW f \in 1..writing.frame \ hurt, f # h[1].frame,
                Due(writing, f, rx, rxq, usb)
         PROVE  Due(writing, f, Behind(h, n), rxq, usb)
    <2>1. f \in Nat
      BY <1>2
    <2>2. Due(writing, f, h, rxq, usb)
      BY <1>2, <1>4, <1>10, <2>1, DueHeld DEF h
    <2>3. ASSUME NEW c, c.frame = f, In(c, h) PROVE In(c, Behind(h, n))
      <3>1. ~In(c, SubSeq(h, 1, n))
        <4>1. /\ Len(SubSeq(h, 1, n)) = n
              /\ \A i \in 1..n : SubSeq(h, 1, n)[i] = h[i]
          BY <1>2, UpToIs
        <4> QED  BY <1>9, <1>10, <2>3, <4>1 DEF In
      <3> QED  BY <1>2, <2>3, <3>1, InSplit
    <2>4. \A c : c.frame = f /\ Among(c, h, rxq, usb) => Among(c, Behind(h, n), rxq, usb)
      BY <2>3 DEF Among
    <2> QED  BY <2>2, <2>4, DueMoved
  <1>11. HarmKnown' /\ LossKnown' /\ hurt' \subseteq 0..writing.frame
    <2>1. Behind(rx', rxDone') = Behind(h, n)
      BY <1>1
    <2>2. ASSUME NEW g, LossAt(g, rx, rxq, rxqBeforeLoss, usb)
          PROVE  LossAt(g, Behind(h, n), rxq, rxqBeforeLoss, usb)
      <3>1. \A i \in 1..Len(Behind(h, n)) : In(Behind(h, n)[i], Behind(h, n))
        BY DEF In
      <3>2. \A x : In(x, rx) => x.frame <= g
        BY <2>2 DEF In, LossAt
      <3> QED  BY <1>6, <2>2, <3>1, <3>2 DEF LossAt
    <2> QED  BY <1>1, <1>3, <2>1, <2>2 DEF Accounted, HarmKnown, LossKnown
  <1> QED  BY <1>1, <1>3, <1>8, <1>10, <1>11, AccountedStep

LEMMA AccountedPartial ==
  ASSUME Bounded, InRow, Accounted, KeepPartial
  PROVE  Accounted'
  <1> DEFINE h == FromHeader(rx)
             frames == {h[i].frame : i \in 1..Len(h)}
  <1>1. /\ agentAt \in {"pull", "pulled"} /\ rxDone' = rxDone
        /\ UNCHANGED <<writing, hurried, usb, rxq, rxqLost, rxqBeforeLoss, served>>
        /\ \/ rx' = h /\ hurt' = hurt
           \/ rx' = <<>> /\ hurt' = hurt \cup frames
    BY DEF KeepPartial, TickOver, line, driver
  <1>2. /\ rx \in Seq(Cell) /\ rxq \in Seq(Cell) /\ usb \in Seq(Message)
        /\ h \in Seq(Cell) /\ <<>> \in Seq(Cell) /\ rxDone = 0
        /\ writing \in [frame : Nat, sent : Nat, of : Nat]
    BY <1>1, FlowTypes, Sequences, EmptySeq, BoundedParts DEF RxFits
  <1>3. Behind(rx, rxDone) = rx /\ Behind(rx', rxDone') = rx'
    BY <1>1, <1>2, NoneDone
  <1>4. Row(Handled, rx, rxq, usb, Coming)
    BY <1>3 DEF InRow
  <1>5. Part(rx', rx) /\ rx' \in Seq(Cell) /\ Part(h, rx)
    BY <1>1, <1>2, PartHeld, PartEmpty
  <1> HIDE DEF h
  <1>6. hurt \subseteq hurt' /\ hurt' \subseteq 0..writing.frame
    <2>1. ASSUME NEW i \in 1..Len(h) PROVE h[i].frame \in 0..writing.frame
      <3>1. PICK j \in 1..Len(rx) : h[i] = rx[j]
        BY <1>5 DEF Part
      <3>2. Before(rx[j], Coming) /\ Place(rx[j])
        BY <1>2, <1>4, PlacesOfCells DEF Row, Within
      <3> QED  BY <1>2, <3>1, <3>2 DEF Before, Place, Coming
    <2> QED  BY <1>1, <2>1 DEF Accounted
  <1>7. HarmKnown' /\ LossKnown' /\ \A f : Done(f) => Done(f)'
    <2>1. HarmKnown'
      BY <1>1, <1>2, <1>6, HarmKept DEF Accounted
    <2>2. LossKnown'
      <3>1. ASSUME NEW g, LossAt(g, rx, rxq, rxqBeforeLoss, usb)
            PROVE  LossAt(g, rx', rxq, rxqBeforeLoss, usb)
        BY <1>2, <1>5, <3>1, LossKept
      <3> QED  BY <1>1, <1>3, <1>6, <3>1 DEF Accounted, LossKnown
    <2> QED  BY <1>1, <2>1, <2>2 DEF Done
  <1>8. ASSUME NEW f \in 1..writing.frame \ hurt', Due(writing, f, rx, rxq, usb)
        PROVE  Due(writing, f, rx', rxq, usb)
    <2>1. f \in Nat
      BY <1>2
    <2>2. Due(writing, f, h, rxq, usb)
      BY <1>2, <1>4, <1>8, <2>1, DueHeld DEF h
    <2>3. CASE rx' = <<>> /\ hurt' = hurt \cup frames
      <3>1. \A c : c.frame = f => ~In(c, h)
        BY <1>8, <2>3 DEF In
      <3>2. \A c : c.frame = f /\ Among(c, h, rxq, usb) => Among(c, <<>>, rxq, usb)
        BY <3>1 DEF Among
      <3> QED  BY <2>2, <2>3, <3>2, DueMoved
    <2> QED  BY <1>1, <2>2, <2>3
  <1> QED  BY <1>1, <1>3, <1>6, <1>7, <1>8, AccountedStep

LEMMA AccountedAhead ==
  ASSUME Bounded, InRow, Accounted, ReadAhead
  PROVE  Accounted'
  <1>1. PICK r \in UsbReceive :
          /\ usb' = r.usb
          /\ IF r.result = "lost" THEN NoteLoss
             ELSE rxq' = rxq \o r.message /\ UNCHANGED <<rxqLost, rxqBeforeLoss>>
    BY DEF ReadAhead
  <1>2. UNCHANGED <<writing, hurried, hurt, rx, rxDone, served>>
    BY DEF ReadAhead
  <1> DEFINE a == Behind(rx, rxDone)
             k == rxqBeforeLoss
  <1>3. /\ a \in Seq(Cell) /\ rxq \in Seq(Cell) /\ rxqLost \in BOOLEAN
        /\ rxqLost => k \in 0..Len(rxq)
        /\ usb \in Seq(Message) /\ r.message \in Seq(Cell)
        /\ writing \in [frame : Nat, sent : Nat, of : Nat]
    BY FlowTypes, UsbReceiveIs
  <1>4. Behind(rx', rxDone') = a
    BY <1>2
  <1>5. rxqLost => \E g \in hurt : LossAt(g, a, rxq, k, usb)
    BY DEF Accounted, LossKnown
  <1>6. /\ HarmKnown' /\ hurt' \subseteq 0..writing.frame /\ \A f : Done(f) => Done(f)'
    <2>1. usb' = usb \/ (usb # <<>> /\ usb' = Tail(usb))
      BY <1>1, UsbReceiveIs
    <2>2. HarmKnown'
      BY <1>2, <1>3, <2>1, HarmKept DEF Accounted
    <2> QED  BY <1>2, <2>2 DEF Done, Accounted
  <1>7. /\ LossKnown'
        /\ \A f \in 1..writing.frame \ hurt :
             Due(writing, f, a, rxq, usb) =>
               Between(f) \/ Due(writing, f, a, rxq', usb')
    <2>1. CASE r.result = "lost"
      <3>1. /\ usb # <<>> /\ usb' = Tail(usb)
            /\ Head(usb).kind \in {"unframed", "torn"}
        BY <1>1, <1>3, <2>1, UsbLostIs
      <3>2. PICK h \in hurt : LossAt(h, a, rxq, Len(rxq), Tail(usb))
        BY <3>1, LossComes
      <3>3. \A x : Sound(x, usb) => Sound(x, Tail(usb))
        BY <1>3, <3>1, SoundOfTail
      <3> HIDE DEF a
      <3>4. CASE rxqLost
        <4>1. rxqLost = TRUE
          BY <1>3, <3>4
        <4>2. /\ rxq' = SubSeq(rxq, 1, k) /\ rxqLost' = rxqLost
              /\ rxqBeforeLoss' = k
          BY <1>1, <2>1, <4>1 DEF NoteLoss, Fold
        <4>3. PICK g \in hurt : LossAt(g, a, rxq, k, usb)
          BY <1>5, <3>4
        <4>4. /\ k \in 0..Len(rxq) /\ Len(SubSeq(rxq, 1, k)) = k
              /\ \A i \in 1..k : SubSeq(rxq, 1, k)[i] = rxq[i]
          BY <1>3, <3>4, UpToIs
        <4>5. LossAt(g, a, SubSeq(rxq, 1, k), k, Tail(usb))
          <5>1. \A i \in 1..Len(SubSeq(rxq, 1, k)) :
                  i \in 1..Len(rxq) /\ i <= k /\ SubSeq(rxq, 1, k)[i] = rxq[i]
            BY <4>4
          <5>2. \A m \in 1..Len(Tail(usb)) :
                  m + 1 \in 1..Len(usb) /\ Tail(usb)[m] = usb[m + 1]
            BY <1>3, <3>1, HeadTailProperties
          <5> QED  BY <4>3, <5>1, <5>2 DEF LossAt
        <4>6. LossKnown'
          BY <1>2, <1>4, <3>1, <4>2, <4>5 DEF LossKnown
        <4>7. ASSUME NEW f \in 1..writing.frame \ hurt, Due(writing, f, a, rxq, usb), ~Between(f)
              PROVE  Due(writing, f, a, rxq', usb')
          <5>1. g \in Nat /\ h \in Nat /\ f \in Nat /\ f # g /\ f # h
            BY <1>3, <4>7 DEF Accounted
          <5>2. ~(g < f /\ f < h)
            BY <4>7 DEF Between
          <5>3. ASSUME NEW c, c.frame = f, In(c, rxq) PROVE In(c, SubSeq(rxq, 1, k))
            <6>1. PICK i \in 1..Len(rxq) : rxq[i] = c
              BY <5>3 DEF In
            <6>2. rxq[i].frame <= h
              BY <3>2 DEF LossAt
            <6>3. ~(g <= rxq[i].frame)
              BY <5>1, <5>2, <5>3, <6>1, <6>2
            <6>4. i <= k
              BY <4>3, <6>3 DEF LossAt
            <6>5. i \in 1..Len(SubSeq(rxq, 1, k)) /\ SubSeq(rxq, 1, k)[i] = c
              BY <4>4, <6>1, <6>4
            <6> QED  BY <6>5 DEF In
          <5>4. \A c : c.frame = f /\ Among(c, a, rxq, usb)
                         => Among(c, a, SubSeq(rxq, 1, k), Tail(usb))
            BY <3>3, <5>3 DEF Among
          <5>5. Due(writing, f, a, SubSeq(rxq, 1, k), Tail(usb))
            BY <4>7, <5>4, DueMoved
          <5> QED  BY <3>1, <4>2, <5>5
        <4> QED  BY <4>6, <4>7
      <3>5. CASE ~rxqLost
        <4>1. rxq' = rxq /\ rxqBeforeLoss' = Len(rxq)
          BY <1>1, <2>1, <3>5 DEF NoteLoss
        <4>2. LossKnown'
          BY <1>2, <1>4, <3>1, <3>2, <4>1 DEF LossKnown
        <4>3. \A c : Among(c, a, rxq, usb) => Among(c, a, rxq, Tail(usb))
          BY <3>3 DEF Among
        <4>4. \A f : Due(writing, f, a, rxq, usb) => Due(writing, f, a, rxq, Tail(usb))
          BY <4>3, DueMoved
        <4> QED  BY <3>1, <4>1, <4>2, <4>4
      <3> QED  BY <3>4, <3>5
    <2>2. CASE r.result # "lost"
      <3>1. rxq' = rxq \o r.message /\ UNCHANGED <<rxqLost, rxqBeforeLoss>>
        BY <1>1, <2>2
      <3> HIDE DEF a
      <3>2. CASE r.usb = usb /\ r.message = <<>>
        <4>1. rxq' = rxq
          BY <1>3, <3>1, <3>2, ConcatEmptySeq
        <4> QED  BY <1>1, <1>2, <1>4, <1>5, <3>1, <3>2, <4>1 DEF LossKnown
      <3>3. CASE /\ usb # <<>> /\ r.usb = Tail(usb)
                 /\ \/ Head(usb).kind = "other" /\ r.message = <<>>
                    \/ Head(usb).kind = "L3" /\ r.message = Head(usb).cells
        <4>1. \A f : Due(writing, f, a, rxq, usb) => Due(writing, f, a, rxq', usb')
          BY <1>1, <1>3, <3>1, <3>3, DueTaken
        <4>2. ASSUME rxqLost, NEW g, LossAt(g, a, rxq, k, usb)
              PROVE  LossAt(g, a, rxq', k, usb')
          <5>1. /\ Len(usb) \in Nat \ {0} /\ Head(usb) = usb[1]
                /\ Len(Tail(usb)) = Len(usb) - 1
                /\ \A i \in 1..Len(usb) - 1 : Tail(usb)[i] = usb[i + 1]
            BY <1>3, <3>3, HeadTailProperties
          <5>2. /\ 1 \in 1..Len(usb)
                /\ \A i \in 1..Len(Tail(usb)) : i + 1 \in 1..Len(usb) /\ Tail(usb)[i] = usb[i + 1]
            BY <5>1
          <5>3. \A i \in 1..Len(r.message) : g <= r.message[i].frame
            <6>1. Len(<<>>) = 0
              BY EmptySeq
            <6> QED  BY <3>3, <4>2, <5>1, <5>2, <6>1 DEF LossAt
          <5>4. /\ Len(rxq \o r.message) = Len(rxq) + Len(r.message)
                /\ \A i \in 1..Len(rxq) + Len(r.message) :
                     (rxq \o r.message)[i] =
                       IF i <= Len(rxq) THEN rxq[i] ELSE r.message[i - Len(rxq)]
                /\ Len(rxq) \in Nat /\ Len(r.message) \in Nat
            BY <1>3, ConcatProperties
          <5>5. ASSUME NEW i \in 1..Len(rxq')
                PROVE  IF i <= k THEN rxq'[i].frame <= g ELSE g <= rxq'[i].frame
            <6>1. CASE i <= Len(rxq)
              <7>1. i \in 1..Len(rxq) /\ rxq'[i] = rxq[i]
                BY <3>1, <5>4, <6>1
              <7> QED  BY <4>2, <7>1 DEF LossAt
            <6>2. CASE ~(i <= Len(rxq))
              <7>1. /\ i - Len(rxq) \in 1..Len(r.message)
                    /\ rxq'[i] = r.message[i - Len(rxq)] /\ ~(i <= k)
                BY <1>3, <3>1, <4>2, <5>4, <6>2
              <7> QED  BY <5>3, <7>1
            <6> QED  BY <6>1, <6>2
          <5>6. \A m \in 1..Len(usb') : \A i \in 1..Len(usb'[m].cells) :
                  g <= usb'[m].cells[i].frame
            BY <1>1, <3>3, <4>2, <5>2 DEF LossAt
          <5> QED  BY <4>2, <5>5, <5>6 DEF LossAt
        <4>3. LossKnown'
          BY <1>2, <1>4, <1>5, <3>1, <4>2 DEF LossKnown
        <4> QED  BY <4>1, <4>3
      <3> QED  BY <1>3, <2>2, <3>2, <3>3, UsbResultIs
    <2> QED  BY <2>1, <2>2
  <1>8. \A f : Between(f) => Between(f)'
    BY <1>2 DEF Between
  <1> QED  BY <1>2, <1>4, <1>6, <1>7, <1>8, AccountedStep

\* What the PC writes is on its way, unless it is hurt.
LEMMA AccountedSend ==
  ASSUME Bounded, Accounted, SendMessage
  PROVE  Accounted'
  <1>1. PICK kind \in {"L3", "unframed", "torn"},
             w \in IF writing.sent < writing.of THEN {writing}
                   ELSE [frame : {writing.frame + 1} \cap 1..MaxFrames, sent : {0}, of : Lengths] :
          LET upTo == Fewer(w.sent + Window, w.of)
              harmed == kind # "L3" \/ (w.sent = 0 /\ w.of > RxCap)
          IN /\ hurt' = IF harmed THEN hurt \cup {w.frame} ELSE hurt
             /\ writing' = [w EXCEPT !.sent = upTo]
             /\ usb' = Append(usb, [kind |-> kind, cells |-> Cells(w.frame, w.sent, upTo, w.of)])
             /\ hurried' = IF cutOff /\ ~WaitedOut THEN hurried \cup {writing.frame} ELSE hurried
             /\ UNCHANGED <<driver, agentRx>>
    BY Zenon DEF SendMessage
  <1> DEFINE upTo == Fewer(w.sent + Window, w.of)
             harmed == kind # "L3" \/ (w.sent = 0 /\ w.of > RxCap)
             cells == Cells(w.frame, w.sent, upTo, w.of)
             m == [kind |-> kind, cells |-> cells]
             a == Behind(rx, rxDone)
  <1>2. /\ a \in Seq(Cell) /\ rxq \in Seq(Cell) /\ usb \in Seq(Message)
        /\ writing \in [frame : Nat, sent : Nat, of : Nat] /\ writing.sent <= writing.of
        /\ RxCap \in Nat
    BY FlowTypes, SizesAssumption
  <1>3. /\ w \in [frame : Nat, sent : Nat, of : Nat] /\ w.sent < w.of
        /\ \/ w = writing
           \/ /\ w.sent = 0 /\ w.frame = writing.frame + 1 /\ writing.sent = writing.of
    <2>1. Lengths \subseteq Nat \ {0} /\ MaxFrames \in Nat
      BY SizesAssumption
    <2>2. CASE writing.sent < writing.of
      BY <1>1, <1>2, <2>2
    <2>3. CASE ~(writing.sent < writing.of)
      <3>1. w \in [frame : {writing.frame + 1} \cap 1..MaxFrames, sent : {0}, of : Lengths]
        BY <1>1, <2>3
      <3>2. w.sent = 0 /\ w.of \in Lengths /\ w.frame = writing.frame + 1
        BY <3>1
      <3>3. w \in [frame : Nat, sent : Nat, of : Nat]
        <4>1. /\ {writing.frame + 1} \cap 1..MaxFrames \subseteq Nat /\ {0} \subseteq Nat
              /\ Lengths \subseteq Nat
          BY <2>1
        <4> QED  BY <3>1, <4>1
      <3>4. w.of \in Nat /\ w.of # 0
        BY <2>1, <3>2
      <3>5. writing.sent = writing.of
        BY <1>2, <2>3
      <3> QED  BY <3>2, <3>3, <3>4, <3>5
    <2> QED  BY <2>2, <2>3
  <1>4. upTo \in Nat /\ upTo <= w.of /\ w.sent < upTo
    <2>1. Window \in Nat \ {0}
      BY SizesAssumption
    <2> QED  BY <1>3, <2>1 DEF Fewer
  <1>5. /\ hurt' = (IF harmed THEN hurt \cup {w.frame} ELSE hurt)
        /\ writing' = [w EXCEPT !.sent = upTo] /\ usb' = Append(usb, m)
        /\ hurried \subseteq hurried'
        /\ UNCHANGED <<rxq, rxqLost, rxqBeforeLoss, rx, rxDone, served>>
    BY <1>1 DEF driver, agentRx
  <1> HIDE DEF upTo
  <1>6. writing'.frame = w.frame /\ writing'.sent = upTo /\ writing'.of = w.of
    BY <1>3, <1>5
  <1>7. /\ Len(cells) = upTo - w.sent
        /\ \A i \in 1..upTo - w.sent : cells[i] = CellOf(w.frame, w.sent + i, w.of)
    <2>1. upTo - w.sent \in Nat
      BY <1>3, <1>4
    <2> QED  BY <2>1 DEF Cells, CellOf
  <1>8. cells \in Seq(Cell)
    <2>1. upTo - w.sent \in Nat
      BY <1>3, <1>4
    <2>2. \A i \in 1..(upTo - w.sent) :
            [frame |-> w.frame, at |-> w.sent + i, of |-> w.of] \in Cell
      BY <1>3, <2>1 DEF Cell
    <2> QED  BY <2>1, <2>2, IsASeq DEF Cells
  <1> HIDE DEF cells
  <1>9. m \in Message /\ m.kind = kind /\ m.cells = cells
    BY <1>1, <1>8 DEF Message
  <1> HIDE DEF m
  <1>10. /\ Len(usb') = Len(usb) + 1 /\ Len(usb) \in Nat
         /\ \A i \in 1..Len(usb) : usb'[i] = usb[i]
         /\ usb'[Len(usb) + 1] = m
    BY <1>2, <1>5, <1>9, AppendProperties
  <1>11. \A l \in 1..Len(usb') : (l \in 1..Len(usb) /\ usb'[l] = usb[l]) \/ usb'[l] = m
    BY <1>10
  <1>12. \A i \in 1..Len(cells) : cells[i].frame = w.frame
    <2>1. \A at, k : CellOf(w.frame, at, k).frame = w.frame
      BY DEF CellOf
    <2>2. \A i \in 1..Len(cells) : cells[i] = CellOf(w.frame, w.sent + i, w.of)
      BY <1>7
    <2> QED  BY <2>1, <2>2
  <1>13. hurt \subseteq hurt' /\ hurt' \subseteq 0..writing'.frame
         /\ (harmed => w.frame \in hurt')
    BY <1>2, <1>3, <1>5, <1>6 DEF Accounted
  <1>14. HarmKnown'
    <2>1. kind # "L3" => m.cells # <<>> /\ \A i \in 1..Len(m.cells) : m.cells[i].frame \in hurt'
      <3>1. Len(cells) # 0 /\ Len(<<>>) = 0
        BY <1>3, <1>4, <1>7, EmptySeq
      <3> QED  BY <1>9, <1>12, <1>13, <3>1
    <2> QED  BY <1>9, <1>11, <1>13, <2>1 DEF Accounted, HarmKnown
  <1>15. LossKnown'
    <2>1. ASSUME NEW g \in hurt, LossAt(g, a, rxq, rxqBeforeLoss, usb)
          PROVE  LossAt(g, a, rxq, rxqBeforeLoss, usb')
      <3>1. g <= w.frame
        BY <1>2, <1>3 DEF Accounted
      <3>2. \A i \in 1..Len(m.cells) : g <= m.cells[i].frame
        BY <1>9, <1>12, <3>1
      <3> QED  BY <1>11, <2>1, <3>2 DEF LossAt
    <2>2. Behind(rx', rxDone') = a
      BY <1>5
    <2> HIDE DEF a
    <2>3. rxqLost => \E g \in hurt : LossAt(g, a, rxq, rxqBeforeLoss, usb)
      BY DEF Accounted, LossKnown, a
    <2> QED  BY <1>5, <1>13, <2>1, <2>2, <2>3 DEF LossKnown
  <1>16. \A c : Among(c, a, rxq, usb) => Among(c, a, rxq, usb')
    <2>1. \A c : Sound(c, usb) => Sound(c, usb')
      BY <1>2, <1>5, <1>9, SoundAppended
    <2> QED  BY <2>1 DEF Among
  <1>17. kind = "L3" =>
           \A at \in w.sent + 1..upTo : Among(CellOf(w.frame, at, w.of), a, rxq, usb')
    <2> SUFFICES ASSUME kind = "L3", NEW at \in w.sent + 1..upTo
                 PROVE  Sound(CellOf(w.frame, at, w.of), usb')
      BY DEF Among
    <2>1. at - w.sent \in 1..upTo - w.sent /\ w.sent + (at - w.sent) = at
      BY <1>3, <1>4
    <2>2. In(CellOf(w.frame, at, w.of), cells)
      BY <1>7, <2>1 DEF In
    <2> QED  BY <1>2, <1>5, <1>9, <2>2, SoundAppended
  <1> HIDE DEF a
  <1>18. ASSUME hurried' = {}, NEW f \in 1..writing'.frame \ hurt'
         PROVE  Done(f) \/ Between(f) \/ Due(writing', f, a, rxq, usb')
    <2>1. f \in Nat \ {0} /\ f <= w.frame
      BY <1>3, <1>6
    <2>2. f \in 1..writing.frame => Done(f) \/ Between(f) \/ Due(writing, f, a, rxq, usb)
      BY <1>5, <1>13, <1>18 DEF Accounted, Waiting, a
    <2>3. CASE f # w.frame
      <3>1. /\ f \in 1..writing.frame
            /\ f < writing.frame \/ writing.sent = writing.of
        BY <1>2, <1>3, <2>1, <2>3
      <3>2. ASSUME Due(writing, f, a, rxq, usb) PROVE Due(writing', f, a, rxq, usb')
        <4>1. PICK k \in 1..RxCap :
                /\ f = writing.frame => k = writing.of
                /\ \A at \in 1..k : f < writing.frame \/ at <= writing.sent
                                      => Among(CellOf(f, at, k), a, rxq, usb)
          BY <3>2 DEF Due
        <4>2. \A at \in 1..k : Among(CellOf(f, at, k), a, rxq, usb)
          <5>1. f < writing.frame \/ k = writing.sent
            BY <1>2, <3>1, <4>1
          <5> QED  BY <1>2, <4>1, <5>1
        <4> QED  BY <1>6, <1>16, <2>3, <4>2 DEF Due
      <3> QED  BY <2>2, <3>1, <3>2
    <2>4. CASE f = w.frame
      <3>1. kind = "L3" /\ ~(w.sent = 0 /\ w.of > RxCap)
        BY <1>13, <1>18, <2>4
      <3>2. CASE w = writing
        <4>1. ASSUME Due(writing, f, a, rxq, usb) PROVE Due(writing', f, a, rxq, usb')
          <5>1. /\ w.of \in 1..RxCap
                /\ \A at \in 1..w.of : at <= w.sent => Among(CellOf(f, at, w.of), a, rxq, usb)
            BY <2>4, <3>2, <4>1 DEF Due
          <5>2. \A at \in 1..w.of : at <= upTo => Among(CellOf(f, at, w.of), a, rxq, usb')
            <6> SUFFICES ASSUME NEW at \in 1..w.of, at <= upTo
                         PROVE  Among(CellOf(f, at, w.of), a, rxq, usb')
              OBVIOUS
            <6>1. at <= w.sent \/ at \in w.sent + 1..upTo
              BY <1>3, <1>4
            <6> QED  BY <1>16, <1>17, <2>4, <3>1, <5>1, <6>1
          <5>3. ~(f < writing'.frame)
            BY <1>3, <1>6, <2>4
          <5> QED  BY <1>6, <5>1, <5>2, <5>3 DEF Due
        <4>2. f \in 1..writing.frame
          BY <1>2, <2>1, <2>4, <3>2
        <4> QED  BY <2>2, <4>1, <4>2
      <3>3. CASE w.sent = 0
        <4>1. w.of \in 1..RxCap
          BY <1>2, <1>3, <3>1, <3>3
        <4>2. \A at \in 1..w.of : at <= upTo => Among(CellOf(f, at, w.of), a, rxq, usb')
          <5>1. \A at \in 1..w.of : at <= upTo => at \in w.sent + 1..upTo
            BY <1>3, <1>4, <3>3
          <5> QED  BY <1>17, <2>4, <3>1, <5>1
        <4>3. ~(f < writing'.frame)
          BY <1>3, <1>6, <2>4
        <4> QED  BY <1>6, <4>1, <4>2, <4>3 DEF Due
      <3> QED  BY <1>3, <3>2, <3>3
    <2> QED  BY <2>3, <2>4
  <1>19. hurried' = {} => Waiting'
    <2>1. /\ \A f : Done(f) => Done(f)'
          /\ \A f : Between(f) => Between(f)'
      BY <1>5, <1>13 DEF Done, Between
    <2>2. Behind(rx', rxDone') = a
      BY <1>5 DEF a
    <2> QED  BY <1>5, <1>18, <2>1, <2>2 DEF Waiting
  <1> QED  BY <1>13, <1>14, <1>15, <1>19 DEF Accounted

LEMMA AccountedLine ==
  ASSUME Bounded, Accounted, CutOff \/ SendOther
  PROVE  Accounted'
  <1> DEFINE a == Behind(rx, rxDone)
  <1>1. /\ usb \in Seq(Message) /\ rxq \in Seq(Cell)
        /\ writing \in [frame : Nat, sent : Nat, of : Nat]
    BY FlowTypes
  <1>2. UNCHANGED <<hurried, rxq, rxqLost, rxqBeforeLoss, rx, rxDone, served>>
    BY DEF CutOff, SendOther, driver, agentRx
  <1>3. /\ \A f : Done(f) => Done(f)'
        /\ Behind(rx', rxDone') = a
    BY <1>2 DEF Done
  <1> HIDE DEF a
  <1>4. rxqLost => \E g \in hurt : LossAt(g, a, rxq, rxqBeforeLoss, usb)
    BY DEF Accounted, LossKnown, a
  <1>5. CASE CutOff
    <2>1. /\ usb' = usb /\ writing' = [writing EXCEPT !.sent = writing.of]
          /\ hurt' = hurt \cup {writing.frame}
      BY <1>5 DEF CutOff
    <2>2. /\ writing'.frame = writing.frame /\ writing'.of = writing.of
      BY <1>1, <2>1
    <2>3. hurt \subseteq hurt' /\ hurt' \subseteq 0..writing'.frame
      BY <1>1, <2>1, <2>2 DEF Accounted
    <2>4. HarmKnown' /\ LossKnown'
      BY <1>2, <1>3, <1>4, <2>1, <2>3 DEF Accounted, HarmKnown, LossKnown
    <2>5. ASSUME hurried = {}, NEW f \in 1..writing.frame \ hurt'
          PROVE  Done(f) \/ Between(f) \/ Due(writing', f, a, rxq, usb)
      <3>1. Done(f) \/ Between(f) \/ Due(writing, f, a, rxq, usb)
        BY <2>3, <2>5 DEF Accounted, Waiting, a
      <3>2. f # writing.frame /\ f < writing.frame
        BY <1>1, <2>1, <2>5
      <3>3. Due(writing, f, a, rxq, usb) => Due(writing', f, a, rxq, usb)
        BY <2>2, <3>2 DEF Due
      <3> QED  BY <3>1, <3>3
    <2>6. hurried' = {} => Waiting'
      <3>1. \A f : Between(f) => Between(f)'
        BY <2>3 DEF Between
      <3> QED  BY <1>2, <1>3, <2>1, <2>2, <2>5, <3>1 DEF Waiting
    <2> QED  BY <2>3, <2>4, <2>6 DEF Accounted
  <1>6. CASE SendOther
    <2> DEFINE m == [kind |-> "other", cells |-> <<>>]
    <2>1. usb' = Append(usb, m) /\ UNCHANGED <<writing, hurt>>
      BY <1>6 DEF SendOther
    <2>2. m \in Message /\ m.kind = "other" /\ m.cells = <<>> /\ Len(<<>>) = 0
      BY EmptySeq DEF Message
    <2> HIDE DEF m
    <2>3. /\ Len(usb') = Len(usb) + 1 /\ Len(usb) \in Nat
          /\ \A i \in 1..Len(usb) : usb'[i] = usb[i]
          /\ usb'[Len(usb) + 1] = m
      BY <1>1, <2>1, <2>2, AppendProperties
    <2>4. \A l \in 1..Len(usb') : (l \in 1..Len(usb) /\ usb'[l] = usb[l]) \/ usb'[l] = m
      BY <2>3
    <2>5. HarmKnown'
      BY <2>1, <2>2, <2>4 DEF Accounted, HarmKnown
    <2>6. ASSUME NEW g, LossAt(g, a, rxq, rxqBeforeLoss, usb)
          PROVE  LossAt(g, a, rxq, rxqBeforeLoss, usb')
      BY <2>2, <2>4, <2>6 DEF LossAt
    <2>7. LossKnown'
      BY <1>2, <1>3, <1>4, <2>1, <2>6 DEF LossKnown
    <2>8. \A c : Among(c, a, rxq, usb) => Among(c, a, rxq, usb')
      BY <1>1, <2>1, <2>2, SoundAppended DEF Among
    <2>9. \A f : Due(writing, f, a, rxq, usb) => Due(writing, f, a, rxq, usb')
      BY <2>8, DueMoved
    <2>10. hurt' \subseteq 0..writing.frame
      BY <2>1 DEF Accounted
    <2> QED  BY <1>2, <1>3, <2>1, <2>5, <2>7, <2>9, <2>10, AccountedStep DEF a
  <1> QED  BY <1>5, <1>6

LEMMA AccountedInit == RxInit => Accounted
  BY EmptySeq DEF RxInit, Accounted, HarmKnown, LossKnown, Waiting

\* With nothing left to read, what is due would be with the agent, whole.
LEMMA NothingDue ==
  ASSUME Bounded, InRow, Unbroken, Accounted
  PROVE  UndamagedServed
  <1> DEFINE a == Behind(rx, rxDone)
  <1> SUFFICES ASSUME usb = <<>>, rxq = <<>>, FrameLen(a) = 0, writing.sent = writing.of,
                      hurried = {}, NEW f \in 1..writing.frame \ hurt, ~Done(f), ~Between(f)
               PROVE  FALSE
    BY DEF UndamagedServed, Done, Between
  <1>1. /\ a \in Seq(Cell) /\ rxq \in Seq(Cell) /\ rxqLost \in BOOLEAN
        /\ rxqLost => rxqBeforeLoss \in 0..Len(rxq)
        /\ writing \in [frame : Nat, sent : Nat, of : Nat]
    BY FlowTypes
  <1>2. Ordered(a) /\ Flow(Sender, a, rxq, rxqLost, rxqBeforeLoss, usb)
    BY DEF InRow, Row, Unbroken
  <1>3. Due(writing, f, a, rxq, usb)
    BY DEF Accounted, Waiting
  <1> HIDE DEF a
  <1>4. PICK k \in 1..RxCap :
          /\ f = writing.frame => k = writing.of
          /\ \A at \in 1..k : f < writing.frame \/ at <= writing.sent
                                => Among(CellOf(f, at, k), a, rxq, usb)
    BY <1>3 DEF Due
  <1>5. 1 \in 1..k /\ k \in 1..k /\ f \in Nat
    BY <1>1, SizesAssumption
  <1>6. \A at \in 1..k : f < writing.frame \/ at <= writing.sent
    <2>1. f < writing.frame \/ k = writing.sent
      BY <1>1, <1>4
    <2> QED  BY <1>1, <2>1
  <1>7. \A c : Among(c, a, rxq, usb) => In(c, a)
    <2>1. \A i \in 1..Len(<<>>) : FALSE
      BY EmptySeq
    <2> QED  BY <2>1 DEF Among, In, Sound
  <1>8. In(CellOf(f, 1, k), a) /\ In(CellOf(f, k, k), a)
    BY <1>4, <1>5, <1>6, <1>7
  <1>9. Steps(Sender, a) /\ Sender.hurried = {}
    <2>1. Steps(Sender, a)
      BY <1>1, <1>2, StepsHeld
    <2> QED  BY <2>1 DEF Sender
  <1>10. FrameLen(a) > 0
    BY <1>1, <1>2, <1>5, <1>8, <1>9, WholeIsSeen
  <1> QED  BY <1>10

\* For any sizes and whatever is damaged, once nothing is left to read, every
\* request that came undamaged was handled, but for those between two that were
\* hurt, which rxq_note_loss in ed64.c folds into one loss: no loss, told late or
\* early, makes the agent drop bytes of a request it has not got to the end of,
\* as long as none was cut off and followed before the agent had given it up.
THEOREM UndamagedHandled == RxSpec => []UndamagedServed
  <1> DEFINE IInv == Bounded /\ InRow /\ Unbroken /\ Accounted
  <1>1. IInv /\ [RxNext]_rxVars => IInv'
    <2> SUFFICES ASSUME Bounded, InRow, Unbroken, Accounted, [RxNext]_rxVars
                 PROVE  Bounded' /\ InRow' /\ Unbroken' /\ Accounted'
      OBVIOUS
    <2>1. Bounded' /\ InRow' /\ Unbroken'
      BY ReceptionKept
    <2>2. CASE SendMessage \/ CutOff \/ SendOther
      BY <2>1, <2>2, AccountedSend, AccountedLine
    <2>3. CASE BeginTick \/ PullQueued \/ PullUsb
      BY <2>1, <2>3, AccountedTick, AccountedQueued, AccountedUsb
    <2>4. CASE ServeFrame \/ KeepPartial \/ ReadAhead
      BY <2>1, <2>4, AccountedServe, AccountedPartial, AccountedAhead
    <2>5. CASE UNCHANGED rxVars
      <3>1. /\ UNCHANGED <<writing, usb, hurried, rxq, rxqLost, rxqBeforeLoss, rx, rxDone,
                           served, hurt>>
        BY <2>5 DEF rxVars, line, driver, agentRx
      <3>2. HarmKnown' /\ LossKnown' /\ hurt' \subseteq 0..writing.frame
        BY <3>1 DEF Accounted, HarmKnown, LossKnown
      <3>3. \A f : Done(f) => Done(f)'
        BY <3>1 DEF Done
      <3> QED  BY <2>1, <3>1, <3>2, <3>3, AccountedStep
    <2> QED  BY <2>2, <2>3, <2>4, <2>5 DEF RxNext
  <1>2. IInv => UndamagedServed
    BY NothingDue
  <1>3. RxInit => IInv
    BY BoundedInit, RowInit, UnbrokenInit, AccountedInit
  <1> HIDE DEF IInv
  <1> QED  BY <1>1, <1>2, <1>3, PTL DEF RxSpec
=============================================================================
