------------------------------ MODULE CartLink ------------------------------
(***************************************************************************)
(* AP64's link to the agent in the ROM: one synchronous host (`Multi64`    *)
(* and `Multi64Transport`, crates/ap64-cart), a FIFO but lossy path in     *)
(* each direction (the daemon, the cable, the cart's buffer), and the      *)
(* agent (n64/agent, n64/test-rom/mem_proto.c), which serves one request a *)
(* frame, in order, and can be reset into another ROM at any moment.       *)
(*                                                                         *)
(* Every request is sent again until it is answered, on the same link      *)
(* while the soft retries last and on a rebuilt one after that; except a   *)
(* POKEV, which is to land at most once.                                   *)
(***************************************************************************)
EXTENDS Naturals, Sequences, FiniteSets

CONSTANTS
    Writes,       \* the POKEV batches the caller sends, each decided once
    Images,       \* the ROM images the console can be reset into
    Recognizes,   \* images whose agent knows a copy of a write (HELLO_ACK bit 3)
    Refuses,      \* images whose agent answers ERR to POKEV and PEEKROM
    Pages,        \* the ROM pages the caller may read; 0 holds the header
    SlowHello,    \* whether a HELLO can be answered after its connect gave up
    SoftRetries,  \* timeouts retried on one transport (SOFT_RETRIES)
    Depth,        \* bound: requests, and answers, on their way at once
    MaxReads,     \* bound: reads, ROM reads and probes in a behaviour
    MaxDials,     \* bound: connection attempts
    MaxResets,    \* bound: console resets
    MaxBusy       \* bound: E_BUSY answers

ASSUME RetriesAssumption == SoftRetries \in Nat \ {0}
ASSUME BoundsAssumption ==
    Depth \in Nat /\ MaxReads \in Nat /\ MaxDials \in Nat /\ MaxResets \in Nat /\ MaxBusy \in Nat
ASSUME ImagesAssumption == Recognizes \subseteq Images /\ Refuses \subseteq Images
ASSUME PagesAssumption  == Pages \subseteq Nat
ASSUME FlagsAssumption  == SlowHello \in BOOLEAN

None    == "none"          \* an uncached page
NoWrite == "no write"
NoRid   == 0               \* rid() never hands out 0

VARIABLES
    phase,     \* where the caller's thread is
    op,        \* the request in with_retry, and its locals
    t,         \* the transport in use
    missed,    \* a request went unanswered since the ROM was last known
    cache,     \* rom_pages: the image each cached page was read from
    up, down,  \* requests on their way to the agent, answers on their way back
    cart,      \* the console: image, agent's hold, booting
    applied,   \* how often each write was applied since the console's last reset
    landed,    \* the writes ever applied
    done,      \* what write_many said of each write
    got,       \* the images the last finished ROM read was put together from
    spent      \* what has been used of each bound

vars == <<phase, op, t, missed, cache, up, down, cart, applied, landed, done, got,
          spent>>

NoOp == [kind |-> "none", w |-> NoWrite, pages |-> {}, fetch |-> {}, img |-> None,
         timeouts |-> 0, sent |-> NoRid, moved |-> FALSE, res |-> "none"]

EmptyCache == [p \in Pages |-> None]

\* Variant: the counter starts at the rid reserved for "no request".
NewLink_ZeroRid(conn, img, whole) ==
    [conn |-> conn, rid |-> 0, want |-> NoRid, once |-> whole /\ img \in Recognizes,
     whole |-> whole, serves |-> img \notin Refuses, copied |-> TRUE, dead |-> FALSE]

\* What a HELLO_ACK says of the agent that sent it, on a transport just made.
\* Over an EverDrive (`whole` false) nothing is ever sent twice.
NewLink(conn, img, whole) ==
    [conn |-> conn, rid |-> 1, want |-> NoRid, once |-> whole /\ img \in Recognizes,
     whole |-> whole, serves |-> img \notin Refuses, copied |-> TRUE, dead |-> FALSE]

-----------------------------------------------------------------------------
(* Types.                                                                  *)

Phases  == {"idle", "await", "check", "recheck", "greet", "down", "dial", "again"}
Kinds   == {"none", "write", "read", "rom", "probe"}
Boots   == {"up", "quiet", "due"}   \* a booting console is quiet, then due to answer
Results == {"none", "ok", "refused", "restarted", "failed"}
Rids    == Nat     \* a u16 in the code, which starts again at 1 after 65535 requests on a link
Conns   == 1 .. (MaxDials + 1)

Requests == [kind : {"HELLO", "POKE", "ROM", "PEEK"}, rid : Rids, conn : Conns,
             w : Writes \cup {NoWrite}]
Replies  == [kind : {"HELLO", "POKE", "ROM", "PEEK", "BUSY", "ERR"}, rid : Rids,
             conn : Conns, img : Images]
Ops      == [kind : Kinds, w : Writes \cup {NoWrite}, pages : SUBSET Pages,
             fetch : SUBSET Pages, img : Images \cup {None}, timeouts : 0 .. SoftRetries,
             sent : Rids, moved : BOOLEAN, res : Results]
Links    == [conn : Conns, rid : Rids \ {0}, want : Rids, once : BOOLEAN, whole : BOOLEAN,
             serves : BOOLEAN, copied : BOOLEAN, dead : BOOLEAN]
Consoles == [image : Images, boot : Boots, unseen : BOOLEAN, hold : Rids]
Uses     == [reads : 0 .. MaxReads, dials : 0 .. MaxDials, resets : 0 .. MaxResets,
             busy : 0 .. MaxBusy]

\* Every variable is what the code's types make it.
TypeOK ==
    /\ phase \in Phases
    /\ op \in Ops /\ (op.kind = "write" => op.w \in Writes)
    /\ t \in Links
    /\ missed \in BOOLEAN
    /\ cache \in [Pages -> Images \cup {None}]
    /\ up \in Seq(Requests)
    /\ \A i \in DOMAIN up : up[i].kind = "POKE" => up[i].w \in Writes
    /\ down \in Seq(Replies)
    /\ cart \in Consoles
    /\ applied \in [Writes -> Nat]
    /\ landed \subseteq Writes
    /\ done \in [Writes -> Results \cup {"sent"}]
    /\ got \subseteq Images
    /\ spent \in Uses

Init ==
    /\ phase = "idle"
    /\ op = NoOp
    /\ cart \in [image : Images \ Refuses, boot : {"up"}, unseen : {FALSE}, hold : {NoRid}]
    /\ \E whole \in BOOLEAN : t = NewLink(1, cart.image, whole)
    /\ missed = FALSE
    /\ cache = EmptyCache
    /\ up = << >> /\ down = << >>
    /\ applied = [w \in Writes |-> 0]
    /\ landed = {}
    /\ done = [w \in Writes |-> "none"]
    /\ got = {}
    /\ spent = [reads |-> 0, dials |-> 0, resets |-> 0, busy |-> 0]

HeaderKnown == 0 \in Pages /\ cache[0] # None        \* known_header

-----------------------------------------------------------------------------
(* Sending.                                                                *)

Put(m) == Len(up) < Depth /\ up' = Append(up, m)

Wire(kind) == CASE kind = "write" -> "POKE" [] kind = "rom" -> "ROM" [] OTHER -> "PEEK"

\* A request under the transport's next rid, kept so that it may go again early.
SendFresh(kind) ==
    /\ Put([kind |-> kind, rid |-> t.rid, conn |-> t.conn,
            w |-> IF kind = "POKE" THEN op'.w ELSE NoWrite])
    /\ t' = [t EXCEPT !.rid = @ + 1, !.want = t.rid,
                      !.copied = ~t.whole \/ (kind = "POKE" /\ ~t.once)]

\* Variant: the copy goes under a rid of its own.
SendCopy_FreshRid ==
    /\ Put([kind |-> "POKE", rid |-> t.rid, conn |-> t.conn, w |-> op.w])
    /\ t' = [t EXCEPT !.rid = @ + 1, !.want = t.rid, !.copied = TRUE]

\* The write again under its own rid: nothing tells the agent it is a copy but the rid.
SendCopy ==
    /\ Put([kind |-> "POKE", rid |-> op.sent, conn |-> t.conn, w |-> op.w])
    /\ t' = [t EXCEPT !.want = op.sent, !.copied = TRUE]

\* The first call of `op` fails at once on a transport whose socket is gone, and a write on
\* one whose agent said it takes none.
CannotSend(kind) == t.dead \/ (kind = "write" /\ ~t.serves)

Begin(o) ==
    /\ op' = o
    /\ IF CannotSend(o.kind)
       THEN phase' = "down" /\ UNCHANGED <<t, up>>
       ELSE phase' = "await" /\ SendFresh(Wire(o.kind))

\* What a retry of `op` on the same transport sends.
CheckHeader == t.once /\ HeaderKnown /\ phase' = "check" /\ SendFresh("ROM")
CopyWrite   == t.once /\ ~HeaderKnown /\ phase' = "await" /\ SendCopy
WaitOn      == ~t.once /\ phase' = "await" /\ t' = [t EXCEPT !.want = op.sent] /\ UNCHANGED up
Retry ==
    \/ op.kind = "write" /\ (CheckHeader \/ CopyWrite \/ WaitOn)
    \/ op.kind # "write" /\ phase' = "await" /\ SendFresh(Wire(op.kind))

-----------------------------------------------------------------------------
(* Returning to the caller.                                                *)

\* The caller gets r. A ROM read first keeps the pages that came back, then fails if the
\* generation moved while it ran.
Return(o, pages, r) ==
    /\ phase' = "idle"
    /\ op' = NoOp
    /\ done' = IF o.kind = "write" THEN [done EXCEPT ![o.w] = r] ELSE done
    /\ cache' = IF o.kind = "rom" /\ r = "ok"
                THEN [p \in Pages |-> IF p \in o.fetch THEN o.img ELSE pages[p]]
                ELSE pages
    /\ got' = IF o.kind = "rom" /\ r = "ok" /\ ~o.moved
              THEN {cache'[p] : p \in o.pages}
              ELSE {}

\* answering(): after a miss the ROM header is read again, if one was read before.
Answering(o, r) ==
    IF missed /\ HeaderKnown
    THEN /\ phase' = "recheck"
         /\ op' = [o EXCEPT !.res = r]
         /\ SendFresh("ROM")
         /\ UNCHANGED <<missed, cache, done, got>>
    ELSE /\ missed' = FALSE
         /\ Return(o, cache, r)
         /\ UNCHANGED <<t, up>>

\* rom_changed(): greet the new ROM's agent on a link of its own.
RomChanged(r) ==
    /\ phase' = "greet"
    /\ op' = [op EXCEPT !.res = r]
    /\ IF spent.dials < MaxDials
       THEN /\ Put([kind |-> "HELLO", rid |-> NoRid, w |-> NoWrite,
                                 conn |-> spent.dials + 2])
            /\ spent' = [spent EXCEPT !.dials = @ + 1]
       ELSE UNCHANGED <<up, spent>>      \* the bound is spent: this connect can only fail
    /\ UNCHANGED <<t, missed, cache, done, got>>

-----------------------------------------------------------------------------
(* The caller.                                                             *)

StartWrite(w) ==
    /\ phase = "idle" /\ done[w] = "none"
    /\ done' = [done EXCEPT ![w] = "sent"]
    /\ Begin([NoOp EXCEPT !.kind = "write", !.w = w,
                          !.sent = IF CannotSend("write") THEN NoRid ELSE t.rid])
    /\ UNCHANGED <<missed, cache, down, cart, applied, landed, got, spent>>

\* A RAM read, or the one-shot read of alive(), whose failed send counts as a miss.
StartRead(kind) ==
    /\ phase = "idle" /\ kind \in {"read", "probe"}
    /\ spent.reads < MaxReads
    /\ spent' = [spent EXCEPT !.reads = @ + 1]
    /\ \/ /\ kind = "probe" /\ t.dead
          /\ missed' = TRUE /\ UNCHANGED <<phase, op, t, up>>
       \/ /\ kind = "probe" => ~t.dead
          /\ Begin([NoOp EXCEPT !.kind = kind]) /\ UNCHANGED missed
    /\ UNCHANGED <<cache, down, cart, applied, landed, done, got>>

\* read_rom_many: only the pages not cached are asked for; all cached, nothing is sent.
StartRomRead(pages) ==
    LET fetch == {p \in pages : cache[p] = None} IN
    /\ phase = "idle" /\ t.serves /\ pages # {}
    /\ spent.reads < MaxReads
    /\ spent' = [spent EXCEPT !.reads = @ + 1]
    /\ \/ /\ fetch # {}
          /\ Begin([NoOp EXCEPT !.kind = "rom", !.pages = pages, !.fetch = fetch])
          /\ got' = {}
       \/ /\ fetch = {}
          /\ got' = {cache[p] : p \in pages}
          /\ UNCHANGED <<phase, op, t, up>>
    /\ UNCHANGED <<missed, cache, down, cart, applied, landed, done>>

-----------------------------------------------------------------------------
(* Answers.                                                                *)

Waiting == phase \in {"await", "check", "recheck", "again"}

\* The answer the transport is waiting for is next; every other one is passed over.
Answered(kinds) ==
    /\ Waiting /\ down # << >>
    /\ LET r == Head(down) IN r.kind # "HELLO" /\ r.rid = t.want /\ r.kind \in kinds
    /\ down' = Tail(down)

Answers  == {"POKE", "ROM", "PEEK", "BUSY", "ERR"}
Expected == IF phase \in {"check", "recheck"} THEN "ROM" ELSE Wire(op.kind)

\* The request itself is answered.
OpAnswered ==
    /\ phase \in {"await", "again"}
    /\ Answered({Expected})
    /\ Answering([op EXCEPT !.img = Head(down).img], "ok")
    /\ UNCHANGED <<cart, applied, landed, spent>>

\* The agent said no: no copy, no reconnect.
OpRefused ==
    /\ phase \in {"await", "again"}
    /\ Answered({"ERR"})
    /\ Answering(op, "refused")
    /\ UNCHANGED <<cart, applied, landed, spent>>

\* The game held the bus (E_BUSY): asked again while the soft retries would have waited.
OpBusy ==
    /\ phase \in {"await", "check"} /\ Answered({"BUSY"})
    /\ \/ Retry
       \/ phase' = "down" /\ UNCHANGED <<t, up>>
    /\ UNCHANGED <<op, missed, cache, cart, applied, landed, done, got, spent>>

\* same_rom() before a copy: the copy goes only to the ROM the write was decided against.
CheckAnswered ==
    /\ phase = "check" /\ Answered({"ROM", "ERR"})
    /\ LET r == Head(down) IN
       \/ /\ r.kind = "ROM" /\ r.img = cache[0]
          /\ phase' = "await" /\ SendCopy
          /\ UNCHANGED <<op, missed, cache, done, got, spent>>
       \/ /\ r.kind = "ERR" \/ r.img # cache[0]
          /\ RomChanged("restarted")
    /\ UNCHANGED <<cart, applied, landed>>

\* recheck_rom() after an answer. Busy leaves `missed`, to be asked after the next answer.
RecheckAnswered ==
    /\ phase = "recheck" /\ Answered(Answers)
    /\ LET r == Head(down) IN
       \/ /\ r.kind = "ROM" /\ r.img = cache[0]
          /\ missed' = FALSE /\ Return(op, cache, op.res)
          /\ UNCHANGED <<t, up, spent>>
       \/ /\ r.kind = "ERR" \/ (r.kind = "ROM" /\ r.img # cache[0])
          /\ RomChanged(op.res)
       \/ /\ r.kind \notin {"ROM", "ERR"}
          /\ Return(op, cache, op.res) /\ UNCHANGED <<missed, t, up, spent>>
    /\ UNCHANGED <<cart, applied, landed>>

\* An error the soft retries do not cover: alive() counts a miss, the rest reconnect.
Fails ==
    \/ /\ op.kind = "probe"
       /\ Return(op, cache, "failed") /\ missed' = TRUE
    \/ /\ op.kind # "probe"
       /\ phase' = "down" /\ UNCHANGED <<op, missed, cache, done, got>>

\* The rid is the one waited for, the message is not; or busy still, on a rebuilt link.
WrongAnswer ==
    /\ phase \in {"await", "check", "again"}
    /\ Answered(Answers \ {Expected, "ERR"})
    /\ Head(down).kind = "BUSY" /\ Expected = "ROM" => phase = "again"
    /\ Fails
    /\ UNCHANGED <<t, up, cart, applied, landed, spent>>

\* An answer to nothing now waited for, an early copy's second answer included.
PassOver ==
    /\ Waiting \/ phase \in {"greet", "dial"}
    /\ down # << >>
    /\ LET r == Head(down) IN
       IF phase \in {"greet", "dial"} THEN r.kind # "HELLO"
                                     ELSE r.kind = "HELLO" \/ r.rid # t.want
    /\ down' = Tail(down)
    /\ UNCHANGED <<phase, op, t, missed, cache, up, cart, applied, landed, done, got, spent>>

-----------------------------------------------------------------------------
(* Silence.                                                                *)

\* A reply looks dropped rather than late: the request goes again early, once, under its rid.
QuickCopy ==
    /\ Waiting /\ ~t.copied
    /\ Put([kind |-> Expected, rid |-> t.want, conn |-> t.conn,
            w |-> IF Expected = "POKE" THEN op.w ELSE NoWrite])
    /\ t' = [t EXCEPT !.copied = TRUE]
    /\ UNCHANGED <<phase, op, missed, cache, down, cart, applied, landed, done, got, spent>>

\* A whole reply timeout has passed: of a connect, or of a request, which sees the silence.
TimePasses == cart' = [cart EXCEPT !.boot = IF @ = "quiet" THEN "due" ELSE @]
Overdue    == cart' = [cart EXCEPT !.boot = IF @ = "quiet" THEN "due" ELSE @,
                                   !.unseen = FALSE]

SoftTimeout ==
    /\ phase \in {"await", "check"} /\ op.kind # "probe"
    /\ op.timeouts < SoftRetries
    /\ op' = [op EXCEPT !.timeouts = @ + 1]
    /\ missed' = TRUE
    /\ Retry /\ Overdue
    /\ UNCHANGED <<cache, down, applied, landed, done, got, spent>>

LastTimeout ==
    /\ \/ phase \in {"await", "check"} /\ op.kind # "probe" /\ op.timeouts = SoftRetries
       \/ phase = "again"
    /\ phase' = "down" /\ Overdue
    /\ UNCHANGED <<op, t, missed, cache, up, down, applied, landed, done, got, spent>>

ProbeTimeout ==
    /\ phase = "await" /\ op.kind = "probe"
    /\ missed' = TRUE
    /\ Return(op, cache, "failed") /\ Overdue
    /\ UNCHANGED <<t, up, down, applied, landed, spent>>

\* Variant: a header read that goes unanswered ends the suspicion.
RecheckTimeout_Forgets ==
    /\ phase = "recheck"
    /\ Return(op, cache, op.res) /\ Overdue
    /\ missed' = FALSE
    /\ UNCHANGED <<t, up, down, applied, landed, spent>>

RecheckTimeout ==
    /\ phase = "recheck"
    /\ Return(op, cache, op.res) /\ Overdue
    /\ UNCHANGED <<t, missed, up, down, applied, landed, spent>>

\* The daemon closes the WebSocket, or a read or send on it fails.
SocketDies ==
    /\ Waiting
    /\ t' = [t EXCEPT !.dead = TRUE]
    /\ IF phase = "recheck" THEN Return(op, cache, op.res) /\ UNCHANGED missed ELSE Fails
    /\ UNCHANGED <<up, down, cart, applied, landed, spent>>

-----------------------------------------------------------------------------
(* Rebuilding the transport.                                               *)

\* connect() in the reconnect loop.
Dial ==
    /\ phase = "down" /\ spent.dials < MaxDials
    /\ phase' = "dial"
    /\ spent' = [spent EXCEPT !.dials = @ + 1]
    /\ Put([kind |-> "HELLO", rid |-> NoRid, w |-> NoWrite,
                         conn |-> spent.dials + 2])
    /\ UNCHANGED <<op, t, missed, cache, down, cart, applied, landed, done, got>>

\* Variant: the first thing heard is taken for the greeting.
HelloArrives_Anything ==
    /\ down # << >>
    /\ down' = Tail(down)
    /\ cart' = [cart EXCEPT !.unseen = @ /\ Head(down).conn # spent.dials + 1]

HelloArrives ==
    /\ down # << >> /\ Head(down).kind = "HELLO"
    /\ down' = Tail(down)
    /\ cart' = [cart EXCEPT !.unseen = @ /\ Head(down).conn # spent.dials + 1]

Greeting == NewLink(spent.dials + 1, Head(down).img, t.whole)

\* Variant: the link is back, so the write is reported written.
DialAnsweredWrite_Ok ==
    /\ phase = "dial" /\ op.kind = "write" /\ HelloArrives
    /\ t' = Greeting
    /\ missed' = FALSE
    /\ Return(op, EmptyCache, "ok")
    /\ UNCHANGED <<up, applied, landed, spent>>

\* The cart is back. A write is not sent to it: it was decided against the console before.
DialAnsweredWrite ==
    /\ phase = "dial" /\ op.kind = "write" /\ HelloArrives
    /\ t' = Greeting
    /\ missed' = FALSE
    /\ \E r \in {"restarted", "failed"} : Return(op, EmptyCache, r)
    /\ UNCHANGED <<up, applied, landed, spent>>

\* Anything else is asked again, on the new link and under its first rid.
DialAnsweredRead ==
    /\ phase = "dial" /\ op.kind # "write" /\ HelloArrives
    /\ missed' = FALSE
    /\ \/ /\ Return(op, EmptyCache, "failed")          \* give_up() asked meanwhile
          /\ t' = Greeting /\ UNCHANGED up
       \/ /\ op.kind = "rom" /\ ~Greeting.serves        \* peek_rom() has nobody to ask
          /\ phase' = "down" /\ op' = [op EXCEPT !.moved = TRUE]
          /\ cache' = EmptyCache /\ t' = Greeting
          /\ UNCHANGED <<up, done, got>>
       \/ /\ op.kind = "rom" => Greeting.serves
          /\ phase' = "again" /\ op' = [op EXCEPT !.moved = TRUE]
          /\ cache' = EmptyCache
          /\ t' = [Greeting EXCEPT !.rid = 2, !.want = 1, !.copied = TRUE]
          /\ Put([kind |-> Wire(op.kind), rid |-> 1, w |-> NoWrite,
                               conn |-> spent.dials + 1])
          /\ UNCHANGED <<done, got>>
    /\ UNCHANGED <<applied, landed, spent>>

\* A HELLO is the last thing sent while its connect waits, and its answer the last served.
HelloGone(q) == IF q # << >> /\ q[Len(q)].kind = "HELLO" THEN SubSeq(q, 1, Len(q) - 1) ELSE q

\* What is still on its way of a HELLO whose connect gave up.
HelloStays ==
    IF SlowHello THEN UNCHANGED <<up, down>>
    ELSE up' = HelloGone(up) /\ down' = HelloGone(down)

DialFails ==
    /\ phase = "dial"
    /\ phase' = "down" /\ HelloStays /\ TimePasses
    /\ UNCHANGED <<op, t, missed, cache, applied, landed, done, got, spent>>

\* The reconnect deadline passes, or the caller asks to stop.
GiveUp ==
    /\ phase = "down"
    /\ Return(op, cache, "failed")
    /\ UNCHANGED <<t, missed, up, down, cart, applied, landed, spent>>

\* The end of rom_changed(): a new link, or the old one with no copies of writes on it.
Greeted(link) ==
    /\ t' = link
    /\ missed' = FALSE
    /\ Return([op EXCEPT !.moved = TRUE], EmptyCache, op.res)

GreetAnswered ==
    /\ phase = "greet" /\ HelloArrives
    /\ Greeted(Greeting)
    /\ UNCHANGED <<up, applied, landed, spent>>

GreetFails ==
    /\ phase = "greet"
    /\ Greeted([t EXCEPT !.once = FALSE]) /\ HelloStays /\ TimePasses
    /\ UNCHANGED <<applied, landed, spent>>

-----------------------------------------------------------------------------
(* The path and the console.                                               *)

Lose ==
    /\ \/ up # << >> /\ up' = Tail(up) /\ UNCHANGED down
       \/ down # << >> /\ down' = Tail(down) /\ UNCHANGED up
    /\ UNCHANGED <<phase, op, t, missed, cache, cart, applied, landed, done, got, spent>>

\* The agent's frame hook serves the next request.
Reply(kind) ==
    /\ Len(down) < Depth
    /\ up' = Tail(up)
    /\ down' = Append(down, [kind |-> kind, rid |-> Head(up).rid, conn |-> Head(up).conn,
                             img |-> cart.image])

Serving(kind) == cart.boot = "up" /\ up # << >> /\ Head(up).kind = kind

Hold(rid) == cart' = [cart EXCEPT !.hold = rid]

Held == cart.image \in Recognizes /\ Head(up).rid = cart.hold

\* A copy of the write served just before is acknowledged and not applied.
ServeCopy ==
    /\ Serving("POKE") /\ Held
    /\ Reply("POKE")
    /\ UNCHANGED <<phase, op, t, missed, cache, cart, applied, landed, done, got, spent>>

ServePoke ==
    /\ Serving("POKE") /\ ~Held
    /\ \/ /\ cart.image \notin Refuses
          /\ applied' = [applied EXCEPT ![Head(up).w] = @ + 1]
          /\ landed' = landed \cup {Head(up).w}
          /\ Hold(IF cart.image \in Recognizes THEN Head(up).rid ELSE NoRid)
          /\ Reply("POKE")
       \/ cart.image \in Refuses /\ Hold(NoRid) /\ Reply("ERR") /\ UNCHANGED <<applied, landed>>
    /\ UNCHANGED <<phase, op, t, missed, cache, done, got, spent>>

\* Any other request ends the hold. A ROM read may find the bus taken.
ServeOther ==
    /\ \E kind \in {"HELLO", "PEEK", "ROM"} : Serving(kind)
    /\ Hold(NoRid)
    /\ LET m == Head(up) IN
       \/ m.kind \in {"HELLO", "PEEK"} /\ Reply(m.kind) /\ UNCHANGED spent
       \/ /\ m.kind = "ROM"
          /\ Reply(IF cart.image \in Refuses THEN "ERR" ELSE "ROM") /\ UNCHANGED spent
       \/ /\ m.kind = "ROM" /\ cart.image \notin Refuses /\ spent.busy < MaxBusy
          /\ Reply("BUSY")
          /\ spent' = [spent EXCEPT !.busy = @ + 1]
    /\ UNCHANGED <<phase, op, t, missed, cache, applied, landed, done, got>>

\* The console is reset, into the same image or another. It stays quiet for longer than a
\* reply timeout, and its agent starts holding nothing.
Reset(img) ==
    /\ spent.resets < MaxResets
    /\ spent' = [spent EXCEPT !.resets = @ + 1]
    /\ cart' = [image |-> img, boot |-> "quiet", unseen |-> TRUE, hold |-> NoRid]
    /\ applied' = [w \in Writes |-> 0]
    /\ UNCHANGED <<phase, op, t, missed, cache, up, down, landed, done, got>>

Boot ==
    /\ cart.boot = "due"
    /\ cart' = [cart EXCEPT !.boot = "up"]
    /\ UNCHANGED <<phase, op, t, missed, cache, up, down, applied, landed, done, got, spent>>

-----------------------------------------------------------------------------

Host ==
    \/ OpAnswered \/ OpRefused \/ OpBusy \/ CheckAnswered \/ RecheckAnswered
    \/ WrongAnswer \/ PassOver
    \/ QuickCopy \/ SoftTimeout \/ LastTimeout \/ ProbeTimeout \/ RecheckTimeout
    \/ SocketDies
    \/ Dial \/ DialAnsweredWrite \/ DialAnsweredRead \/ DialFails \/ GiveUp
    \/ GreetAnswered \/ GreetFails

Caller ==
    \/ \E w \in Writes : StartWrite(w)
    \/ \E kind \in {"read", "probe"} : StartRead(kind)
    \/ \E pages \in SUBSET Pages : StartRomRead(pages)

Console == ServeCopy \/ ServePoke \/ ServeOther \/ Boot \/ \E img \in Images : Reset(img)

Next == Caller \/ Host \/ Lose \/ Console

Spec == Init /\ [][Next]_vars

-----------------------------------------------------------------------------
(* Properties.                                                             *)

\* poke_once: a write lands at most once on a running console, whatever is lost, late or sent again
\* (crates/ap64-cart/tests/writes.rs:1, backend.rs `poke_once`).
AtMostOnce == \A w \in Writes : applied[w] <= 1

\* A write reported written was applied: its own acknowledgment, or that of a copy the
\* agent recognized, is the only thing write_many takes for one.
AckTruthful == \A w \in Writes : done[w] = "ok" => w \in landed

\* A link once greeted hears nothing of the links before it: the requests they sent were
\* served, and their late replies heard and dropped, before its HELLO was (Want::Hello).
HelloDrains ==
    Waiting \/ phase = "idle" =>
        /\ \A i \in DOMAIN up   : up[i].kind # "HELLO" => up[i].conn = t.conn
        /\ \A i \in DOMAIN down : down[i].kind # "HELLO" => down[i].conn = t.conn

\* With no miss outstanding, what is cached of the ROM is the ROM on the cart (recheck_rom).
CacheIsCarts ==
    phase = "idle" /\ ~missed /\ ~t.dead /\ ~cart.unseen =>
        \A p \in Pages : cache[p] \in {None, cart.image}

\* A finished ROM read is never put together from the pages of two images (read_rom_many).
OneImage == \A a, b \in got : a = b
=============================================================================
