--------------------------- MODULE CartLinkProofs ---------------------------
(***************************************************************************)
(* Proofs about CartLink, for any writes, images and bounds: its types;    *)
(* that a greeted link hears nothing of the links before it; that a write  *)
(* reported written was applied; that no write is applied twice; and that  *)
(* the cached ROM is the one on the cart.                                  *)
(***************************************************************************)
EXTENDS CartLink, SequenceTheorems, TLAPS

-----------------------------------------------------------------------------
(* The path: what sending and taking do to a sequence.                     *)

LEMMA Appended ==
  ASSUME NEW S, NEW q \in Seq(S), NEW m \in S
  PROVE  /\ Append(q, m) \in Seq(S) /\ Append(q, m) # << >>
         /\ DOMAIN Append(q, m) = 1 .. Len(q) + 1 /\ Len(Append(q, m)) = Len(q) + 1
         /\ Len(q) \in Nat /\ DOMAIN q = 1 .. Len(q)
         /\ \A i \in DOMAIN q : Append(q, m)[i] = q[i] /\ i # Len(q) + 1
         /\ Append(q, m)[Len(q) + 1] = m
         /\ \A i \in DOMAIN Append(q, m) : i \in DOMAIN q \/ i = Len(q) + 1
  BY AppendProperties, LenProperties

LEMMA Taken ==
  ASSUME NEW S, NEW q \in Seq(S), q # << >>
  PROVE  /\ Head(q) \in S /\ Tail(q) \in Seq(S) /\ Head(q) = q[1] /\ 1 \in DOMAIN q
         /\ Len(q) \in Nat \ {0} /\ DOMAIN q = 1 .. Len(q)
         /\ Len(Tail(q)) = Len(q) - 1 /\ DOMAIN Tail(q) = 1 .. Len(q) - 1
         /\ \A i \in DOMAIN Tail(q) : Tail(q)[i] = q[i + 1] /\ i + 1 \in DOMAIN q
  BY HeadTailProperties, LenProperties, EmptySeq

LEMMA Dropped ==
  ASSUME NEW S, NEW q \in Seq(S)
  PROVE  /\ HelloGone(q) \in Seq(S) /\ Len(q) \in Nat /\ DOMAIN q = 1 .. Len(q)
         /\ \/ HelloGone(q) = q /\ (q = << >> \/ q[Len(q)].kind # "HELLO")
            \/ q # << >> /\ Len(HelloGone(q)) = Len(q) - 1
         /\ DOMAIN HelloGone(q) = 1 .. Len(HelloGone(q))
         /\ \A i \in DOMAIN HelloGone(q) : i \in DOMAIN q /\ HelloGone(q)[i] = q[i]
  <1>1. Len(q) \in Nat /\ DOMAIN q = 1 .. Len(q)
    BY LenProperties
  <1>2. CASE q # << >> /\ q[Len(q)].kind = "HELLO"
    <2>1. HelloGone(q) = SubSeq(q, 1, Len(q) - 1) /\ Len(q) > 0
      BY <1>1, <1>2, EmptySeq DEF HelloGone
    <2>2. /\ SubSeq(q, 1, Len(q) - 1) \in Seq(S)
          /\ Len(SubSeq(q, 1, Len(q) - 1)) = Len(q) - 1
          /\ \A i \in 1 .. Len(q) - 1 : SubSeq(q, 1, Len(q) - 1)[i] = q[i]
      BY <1>1, <2>1, SubSeqProperties
    <2>3. DOMAIN SubSeq(q, 1, Len(q) - 1) = 1 .. Len(q) - 1
      BY <2>2, LenProperties
    <2>4. Len(q) - 1 <= Len(q) /\ 1 .. Len(q) - 1 \subseteq DOMAIN q
      BY <1>1
    <2> QED BY <1>1, <1>2, <2>1, <2>2, <2>3, <2>4
  <1>3. CASE ~(q # << >> /\ q[Len(q)].kind = "HELLO")
    <2>1. HelloGone(q) = q
      BY <1>3, Zenon DEF HelloGone
    <2> QED BY <1>1, <1>3, <2>1
  <1> QED BY <1>2, <1>3

-----------------------------------------------------------------------------
(* Types.                                                                  *)

\* What a ROM read holds before its pages are put together.
ReadHolds ==
  op.kind = "rom" =>
    /\ op.res = "ok" => op.img \in Images
    /\ ~op.moved => \A p \in op.pages \ op.fetch : cache[p] # None

\* Where a call of each kind can be.
PhaseFits ==
  /\ phase = "idle" <=> op.kind = "none"
  /\ phase = "check" => op.kind = "write"
  /\ phase = "again" => op.kind # "write"

Types == TypeOK /\ ReadHolds /\ PhaseFits

LEMMA PutTypes ==
  ASSUME TypeOK, NEW m \in Requests, m.kind = "POKE" => m.w \in Writes, Put(m)
  PROVE  /\ up' \in Seq(Requests)
         /\ \A i \in DOMAIN up' : up'[i].kind = "POKE" => up'[i].w \in Writes
  <1>1. up \in Seq(Requests) /\ up' = Append(up, m)
    BY DEF TypeOK, Put
  <1>2. \A i \in DOMAIN up' : up'[i] = m \/ (i \in DOMAIN up /\ up'[i] = up[i])
    BY <1>1, Appended
  <1> QED BY <1>1, <1>2, Appended DEF TypeOK

LEMMA TakeTypes ==
  ASSUME TypeOK
  PROVE  /\ up # << >> /\ up' = Tail(up) =>
              /\ up' \in Seq(Requests)
              /\ \A i \in DOMAIN up' : up'[i].kind = "POKE" => up'[i].w \in Writes
         /\ down # << >> /\ down' = Tail(down) => down' \in Seq(Replies)
         /\ down # << >> => Head(down) \in Replies
         /\ up # << >> => Head(up) \in Requests /\ (Head(up).kind = "POKE" => Head(up).w \in Writes)
  <1>1. up \in Seq(Requests) /\ down \in Seq(Replies)
    BY DEF TypeOK
  <1>2. ASSUME up # << >>
        PROVE  Head(up) \in Requests /\ (Head(up).kind = "POKE" => Head(up).w \in Writes)
    BY <1>1, <1>2, Taken DEF TypeOK
  <1>3. ASSUME up # << >>, up' = Tail(up)
        PROVE  /\ up' \in Seq(Requests)
               /\ \A i \in DOMAIN up' : up'[i].kind = "POKE" => up'[i].w \in Writes
    BY <1>1, <1>3, Taken DEF TypeOK
  <1>4. down # << >> => Head(down) \in Replies /\ Tail(down) \in Seq(Replies)
    BY <1>1, Taken
  <1> QED BY <1>2, <1>3, <1>4

\* The next rid is a rid.
LEMMA FreshTypes ==
  ASSUME TypeOK, NEW kind \in {"POKE", "ROM", "PEEK"}, op' \in Ops,
         kind = "POKE" => op'.w \in Writes, SendFresh(kind)
  PROVE  /\ t' \in Links /\ up' \in Seq(Requests)
         /\ \A i \in DOMAIN up' : up'[i].kind = "POKE" => up'[i].w \in Writes
  <1> DEFINE m == [kind |-> kind, rid |-> t.rid, conn |-> t.conn,
                   w |-> IF kind = "POKE" THEN op'.w ELSE NoWrite]
  <1> DEFINE c == ~t.whole \/ (kind = "POKE" /\ ~t.once)
  <1>0. c \in BOOLEAN
    OBVIOUS
  <1>1. /\ t \in Links /\ Put(m)
        /\ t' = [t EXCEPT !.rid = @ + 1, !.want = t.rid, !.copied = c]
    BY DEF SendFresh, TypeOK
  <1> HIDE DEF c
  <1>2. m \in Requests /\ (m.kind = "POKE" => m.w \in Writes)
    BY <1>1 DEF Links, Requests, Rids
  <1>3. t' \in Links
    <2>1. t.rid \in Nat /\ t.rid + 1 \in Nat \ {0} /\ t \in Links
      BY <1>1 DEF Links, Rids
    <2> DEFINE n == t.rid + 1
               r == t.rid
    <2>2. t' = [t EXCEPT !.rid = n, !.want = r, !.copied = c]
      BY <1>1
    <2>3. n \in Nat \ {0} /\ r \in Nat
      BY <2>1
    <2> HIDE DEF n, r
    <2> QED BY <1>0, <2>1, <2>2, <2>3, Zenon DEF Links, Rids
  <1> HIDE DEF m
  <1> QED BY <1>1, <1>2, <1>3, PutTypes

LEMMA CopyTypes ==
  ASSUME TypeOK, op.kind = "write", SendCopy
  PROVE  /\ t' \in Links /\ up' \in Seq(Requests)
         /\ \A i \in DOMAIN up' : up'[i].kind = "POKE" => up'[i].w \in Writes
  <1> DEFINE m == [kind |-> "POKE", rid |-> op.sent, conn |-> t.conn, w |-> op.w]
  <1>1. t \in Links /\ op \in Ops /\ op.w \in Writes /\ Put(m)
        /\ t' = [t EXCEPT !.want = op.sent, !.copied = TRUE]
    BY DEF SendCopy, TypeOK
  <1>2. m \in Requests /\ (m.kind = "POKE" => m.w \in Writes)
    BY <1>1 DEF Links, Ops, Requests
  <1>3. t' \in Links
    BY <1>1 DEF Links, Ops
  <1> HIDE DEF m
  <1> QED BY <1>1, <1>2, <1>3, PutTypes

LEMMA RetryTypes ==
  ASSUME TypeOK, Retry, op.kind # "none", op' \in Ops
  PROVE  /\ phase' \in {"await", "check"} /\ (phase' = "check" => op.kind = "write") /\ t' \in Links /\ up' \in Seq(Requests)
         /\ \A i \in DOMAIN up' : up'[i].kind = "POKE" => up'[i].w \in Writes
  <1>1. CASE op.kind = "write" /\ CheckHeader
    BY <1>1, FreshTypes DEF CheckHeader
  <1>2. CASE op.kind = "write" /\ CopyWrite
    BY <1>2, CopyTypes DEF CopyWrite
  <1>3. CASE op.kind = "write" /\ WaitOn
    BY <1>3 DEF WaitOn, TypeOK, Links, Ops
  <1>4. CASE op.kind # "write" /\ phase' = "await" /\ SendFresh(Wire(op.kind))
    BY <1>4, FreshTypes DEF Wire
  <1> QED BY <1>1, <1>2, <1>3, <1>4 DEF Retry

LEMMA NoOpType == NoOp \in Ops /\ NoOp.kind = "none"
  BY RetriesAssumption DEF NoOp, Ops, Kinds, Results, Rids, NoRid

\* Nothing outside Images is in what a finished ROM read was put together from.
LEMMA ReturnTypes ==
  ASSUME TypeOK, NEW o \in Ops, o.kind = "write" => o.w \in Writes,
         NEW pages \in [Pages -> Images \cup {None}], NEW r \in Results,
         o.kind = "rom" /\ r = "ok" => o.img \in Images,
         o.kind = "rom" /\ r = "ok" /\ ~o.moved =>
            \A p \in o.pages \ o.fetch : pages[p] # None,
         Return(o, pages, r)
  PROVE  /\ phase' = "idle" /\ op' \in Ops /\ op'.kind = "none"
         /\ done' \in [Writes -> Results \cup {"sent"}]
         /\ cache' \in [Pages -> Images \cup {None}] /\ got' \subseteq Images
  <1>1. phase' = "idle" /\ op' \in Ops /\ op'.kind = "none"
    BY NoOpType DEF Return
  <1>2. done' \in [Writes -> Results \cup {"sent"}]
    BY DEF Return, TypeOK
  <1>3. CASE o.kind = "rom" /\ r = "ok"
    <2>1. /\ cache' = [p \in Pages |-> IF p \in o.fetch THEN o.img ELSE pages[p]]
          /\ o.pages \subseteq Pages
          /\ got' = IF ~o.moved THEN {cache'[p] : p \in o.pages} ELSE {}
      BY <1>3 DEF Return, Ops
    <2>2. cache' \in [Pages -> Images \cup {None}]
      BY <1>3, <2>1
    <2>3. ASSUME ~o.moved, NEW p \in o.pages
          PROVE  cache'[p] \in Images
      BY <1>3, <2>1, <2>3
    <2> QED BY <1>1, <1>2, <2>1, <2>2, <2>3
  <1>4. CASE ~(o.kind = "rom" /\ r = "ok")
    BY <1>1, <1>2, <1>4 DEF Return
  <1> QED BY <1>3, <1>4

LEMMA OpFields ==
  ASSUME NEW o \in Ops
  PROVE  /\ o.kind \in Kinds /\ o.img \in Images \cup {None} /\ o.res \in Results
         /\ o.timeouts \in 0 .. SoftRetries /\ o.sent \in Nat /\ o.moved \in BOOLEAN
         /\ o.fetch \subseteq Pages /\ o.pages \subseteq Pages
  BY DEF Ops, Rids

LEMMA OpToldOf ==
  ASSUME NEW o \in Ops, NEW r \in Results, NEW m, m = [o EXCEPT !.res = r]
  PROVE  /\ m \in Ops
         /\ m.kind = o.kind /\ m.w = o.w /\ m.pages = o.pages
         /\ m.fetch = o.fetch /\ m.img = o.img /\ m.timeouts = o.timeouts
         /\ m.sent = o.sent /\ m.moved = o.moved /\ m.res = r
  BY DEF Ops

LEMMA OpImage ==
  ASSUME NEW o \in Ops, NEW i \in Images, NEW m, m = [o EXCEPT !.img = i]
  PROVE  /\ m \in Ops
         /\ m.kind = o.kind /\ m.w = o.w /\ m.pages = o.pages
         /\ m.fetch = o.fetch /\ m.img = i /\ m.timeouts = o.timeouts
         /\ m.sent = o.sent /\ m.moved = o.moved /\ m.res = o.res
  BY DEF Ops

LEMMA OpMoved ==
  ASSUME NEW o \in Ops, NEW m, m = [o EXCEPT !.moved = TRUE]
  PROVE  /\ m \in Ops
         /\ m.kind = o.kind /\ m.w = o.w /\ m.pages = o.pages
         /\ m.fetch = o.fetch /\ m.img = o.img /\ m.timeouts = o.timeouts
         /\ m.sent = o.sent /\ m.moved = TRUE /\ m.res = o.res
  BY DEF Ops

LEMMA OpTimedOut ==
  ASSUME NEW o \in Ops, NEW m, o.timeouts < SoftRetries, m = [o EXCEPT !.timeouts = @ + 1]
  PROVE  /\ m \in Ops
         /\ m.kind = o.kind /\ m.w = o.w /\ m.pages = o.pages
         /\ m.fetch = o.fetch /\ m.img = o.img /\ m.timeouts = o.timeouts + 1
         /\ m.sent = o.sent /\ m.moved = o.moved /\ m.res = o.res
  <1> DEFINE n == o.timeouts + 1
  <1>1. n \in 0 .. SoftRetries
    BY RetriesAssumption DEF Ops
  <1>2. m = [o EXCEPT !.timeouts = n]
    OBVIOUS
  <1> HIDE DEF n
  <1>3. /\ m \in Ops /\ m.timeouts = n
        /\ m.kind = o.kind /\ m.w = o.w /\ m.pages = o.pages
        /\ m.fetch = o.fetch /\ m.img = o.img
        /\ m.sent = o.sent /\ m.moved = o.moved /\ m.res = o.res
    BY <1>1, <1>2 DEF Ops
  <1> QED BY <1>3 DEF n

\* Each bound is counted up to itself.
LEMMA UseTypes ==
  ASSUME NEW u \in Uses
  PROVE  /\ u.reads < MaxReads => [u EXCEPT !.reads = @ + 1] \in Uses
         /\ u.dials < MaxDials => [u EXCEPT !.dials = @ + 1] \in Uses
         /\ u.resets < MaxResets => [u EXCEPT !.resets = @ + 1] \in Uses
         /\ u.busy < MaxBusy => [u EXCEPT !.busy = @ + 1] \in Uses
  <1> DEFINE r == u.reads + 1
             d == u.dials + 1
             e == u.resets + 1
             b == u.busy + 1
  <1>1. /\ u.reads < MaxReads => r \in 0 .. MaxReads
        /\ u.dials < MaxDials => d \in 0 .. MaxDials
        /\ u.resets < MaxResets => e \in 0 .. MaxResets
        /\ u.busy < MaxBusy => b \in 0 .. MaxBusy
    BY BoundsAssumption DEF Uses
  <1> HIDE DEF r, d, e, b
  <1>2. /\ u.reads < MaxReads => [u EXCEPT !.reads = r] \in Uses
        /\ u.dials < MaxDials => [u EXCEPT !.dials = d] \in Uses
        /\ u.resets < MaxResets => [u EXCEPT !.resets = e] \in Uses
        /\ u.busy < MaxBusy => [u EXCEPT !.busy = b] \in Uses
    BY <1>1 DEF Uses
  <1> QED BY <1>2 DEF r, d, e, b

LEMMA AnsweringTypes ==
  ASSUME TypeOK, NEW o \in Ops, o.kind = op.kind, o.kind = "write" => o.w \in Writes,
         NEW r \in Results,
         o.kind = "rom" /\ r = "ok" => o.img \in Images,
         o.kind = "rom" /\ ~o.moved => \A p \in o.pages \ o.fetch : cache[p] # None,
         op.kind # "none", Answering(o, r)
  PROVE  /\ phase' \in Phases /\ op' \in Ops /\ (op'.kind = "write" => op'.w \in Writes)
         /\ t' \in Links /\ up' \in Seq(Requests)
         /\ \A i \in DOMAIN up' : up'[i].kind = "POKE" => up'[i].w \in Writes
         /\ missed' \in BOOLEAN /\ cache' \in [Pages -> Images \cup {None}]
         /\ done' \in [Writes -> Results \cup {"sent"}] /\ got' \subseteq Images
         /\ ReadHolds' /\ PhaseFits'
  <1>1. CASE missed /\ HeaderKnown
    <2>1. /\ phase' = "recheck" /\ op' = [o EXCEPT !.res = r] /\ SendFresh("ROM")
          /\ UNCHANGED <<missed, cache, done, got>>
      BY <1>1 DEF Answering
    <2>2. /\ op' \in Ops /\ op'.kind = o.kind /\ op'.w = o.w /\ op'.img = o.img /\ op'.res = r
          /\ op'.fetch = o.fetch /\ op'.pages = o.pages /\ op'.moved = o.moved
      BY <2>1, OpToldOf
    <2>3. ReadHolds'
      BY <2>1, <2>2 DEF ReadHolds
    <2> QED BY <2>1, <2>2, <2>3, FreshTypes DEF TypeOK, Phases, PhaseFits
  <1>2. CASE ~(missed /\ HeaderKnown)
    <2>1. missed' = FALSE /\ Return(o, cache, r) /\ UNCHANGED <<t, up>>
      BY <1>2 DEF Answering
    <2>2. cache \in [Pages -> Images \cup {None}]
      BY DEF TypeOK
    <2>3. /\ phase' = "idle" /\ op' \in Ops /\ op'.kind = "none"
          /\ done' \in [Writes -> Results \cup {"sent"}]
          /\ cache' \in [Pages -> Images \cup {None}] /\ got' \subseteq Images
      BY <2>1, <2>2, ReturnTypes
    <2> QED BY <2>1, <2>3 DEF TypeOK, ReadHolds, PhaseFits, Phases
  <1> QED BY <1>1, <1>2

LEMMA RomChangedTypes ==
  ASSUME Types, NEW r \in Results, r = "ok" => op.res = "ok", op.kind # "none", RomChanged(r)
  PROVE  /\ phase' \in Phases /\ op' \in Ops /\ (op'.kind = "write" => op'.w \in Writes)
         /\ t' \in Links /\ up' \in Seq(Requests)
         /\ \A i \in DOMAIN up' : up'[i].kind = "POKE" => up'[i].w \in Writes
         /\ missed' \in BOOLEAN /\ cache' \in [Pages -> Images \cup {None}]
         /\ done' \in [Writes -> Results \cup {"sent"}] /\ got' \subseteq Images
         /\ spent' \in Uses
         /\ ReadHolds' /\ PhaseFits'
  <1> DEFINE m == [kind |-> "HELLO", rid |-> NoRid, w |-> NoWrite, conn |-> spent.dials + 2]
  <1>1. /\ phase' = "greet" /\ op' = [op EXCEPT !.res = r] /\ op \in Ops
        /\ UNCHANGED <<t, missed, cache, done, got>>
    BY DEF RomChanged, Types, TypeOK
  <1>2. /\ op' \in Ops /\ op'.kind = op.kind /\ op'.w = op.w /\ op'.img = op.img /\ op'.res = r
        /\ op'.fetch = op.fetch /\ op'.pages = op.pages /\ op'.moved = op.moved
    BY <1>1, OpToldOf
  <1>3. ReadHolds'
    BY <1>1, <1>2 DEF ReadHolds, Types
  <1>4. CASE spent.dials < MaxDials
    <2>1. Put(m) /\ spent' = [spent EXCEPT !.dials = @ + 1]
      BY <1>4 DEF RomChanged
    <2>2. m \in Requests /\ m.kind # "POKE"
      BY <1>4, BoundsAssumption DEF Types, TypeOK, Uses, Requests, Rids, NoRid, Conns
    <2>3. spent' \in Uses
      BY <1>4, <2>1, UseTypes DEF Types, TypeOK
    <2> HIDE DEF m
    <2> QED BY <1>1, <1>2, <1>3, <2>1, <2>2, <2>3, PutTypes DEF Types, TypeOK, Phases, PhaseFits
  <1>5. CASE ~(spent.dials < MaxDials)
    BY <1>1, <1>2, <1>3, <1>5 DEF RomChanged, Types, TypeOK, Phases, PhaseFits
  <1> QED BY <1>4, <1>5

-----------------------------------------------------------------------------
(* Types, action by action.                                                *)

LEMMA BeginTypes ==
  ASSUME TypeOK, NEW o \in Ops, o.kind # "none", o.kind = "write" => o.w \in Writes, Begin(o)
  PROVE  /\ phase' \in {"await", "down"} /\ op' = o /\ t' \in Links /\ up' \in Seq(Requests)
         /\ \A i \in DOMAIN up' : up'[i].kind = "POKE" => up'[i].w \in Writes
  <1>1. op' = o
    BY DEF Begin
  <1>2. CASE CannotSend(o.kind)
    BY <1>1, <1>2 DEF Begin, TypeOK
  <1>3. CASE ~CannotSend(o.kind)
    <2>1. Wire(o.kind) \in {"POKE", "ROM", "PEEK"} /\ (Wire(o.kind) = "POKE" => o.kind = "write")
      BY DEF Wire
    <2>2. phase' = "await" /\ SendFresh(Wire(o.kind))
      BY <1>3 DEF Begin
    <2> QED BY <1>1, <2>1, <2>2, FreshTypes
  <1> QED BY <1>2, <1>3

LEMMA CallerTypes == ASSUME Types, Caller PROVE Types'
  <1>1. ASSUME NEW w \in Writes, StartWrite(w)
        PROVE  Types'
    <2> DEFINE o == [NoOp EXCEPT !.kind = "write", !.w = w,
                                 !.sent = IF CannotSend("write") THEN NoRid ELSE t.rid]
    <2>1. o \in Ops /\ o.kind = "write" /\ o.w = w
      <3> DEFINE r == IF CannotSend("write") THEN NoRid ELSE t.rid
      <3>1. r \in Rids
        BY DEF Types, TypeOK, Links, Rids, NoRid
      <3> HIDE DEF r
      <3>2. LET x == [NoOp EXCEPT !.kind = "write", !.w = w, !.sent = r]
            IN  x \in Ops /\ x.kind = "write" /\ x.w = w
        BY <3>1, NoOpType DEF Ops, Kinds
      <3> QED BY <3>2 DEF r
    <2>2. Begin(o) /\ done' = [done EXCEPT ![w] = "sent"]
          /\ UNCHANGED <<missed, cache, down, cart, applied, landed, got, spent>>
      BY <1>1 DEF StartWrite
    <2>3. done' \in [Writes -> Results \cup {"sent"}]
      BY <2>2 DEF Types, TypeOK
    <2> HIDE DEF o
    <2>4. /\ phase' \in {"await", "down"} /\ op' = o /\ t' \in Links /\ up' \in Seq(Requests)
          /\ \A i \in DOMAIN up' : up'[i].kind = "POKE" => up'[i].w \in Writes
      BY <2>1, <2>2, BeginTypes DEF Types
    <2> QED BY <2>1, <2>2, <2>3, <2>4 DEF Types, TypeOK, ReadHolds, PhaseFits, Phases
  <1>2. ASSUME NEW kind \in {"read", "probe"}, StartRead(kind)
        PROVE  Types'
    <2> DEFINE o == [NoOp EXCEPT !.kind = kind]
    <2>1. o \in Ops /\ o.kind = kind
      BY NoOpType DEF Ops, Kinds
    <2>2. spent' \in Uses
      BY <1>2, UseTypes DEF StartRead, Types, TypeOK
    <2>3. UNCHANGED <<cache, down, cart, applied, landed, done, got>>
      BY <1>2 DEF StartRead
    <2>4. CASE missed' = TRUE /\ UNCHANGED <<phase, op, t, up>>
      BY <2>2, <2>3, <2>4 DEF Types, TypeOK, ReadHolds, PhaseFits, Phases
    <2>5. CASE Begin(o) /\ UNCHANGED missed
      <3> HIDE DEF o
      <3>1. /\ phase' \in {"await", "down"} /\ op' = o /\ t' \in Links /\ up' \in Seq(Requests)
            /\ \A i \in DOMAIN up' : up'[i].kind = "POKE" => up'[i].w \in Writes
        BY <2>1, <2>5, BeginTypes DEF Types
      <3> QED BY <2>1, <2>2, <2>3, <2>5, <3>1 DEF Types, TypeOK, ReadHolds, PhaseFits, Phases
    <2> QED BY <1>2, <2>4, <2>5 DEF StartRead
  <1>3. ASSUME NEW pages \in SUBSET Pages, StartRomRead(pages)
        PROVE  Types'
    <2> DEFINE fetch == {p \in pages : cache[p] = None}
               o == [NoOp EXCEPT !.kind = "rom", !.pages = pages, !.fetch = fetch]
    <2>0. fetch \subseteq Pages
      OBVIOUS
    <2>1. spent' \in Uses
      BY <1>3, UseTypes DEF StartRomRead, Types, TypeOK
    <2>2. UNCHANGED <<missed, cache, down, cart, applied, landed, done>>
      BY <1>3 DEF StartRomRead
    <2>3. CASE fetch # {} /\ Begin(o) /\ got' = {}
      <3>1. /\ o \in Ops /\ o.kind = "rom" /\ o.pages = pages /\ o.fetch = fetch /\ o.res = "none"
            /\ \A p \in o.pages \ o.fetch : cache[p] # None
        <4>1. \A p \in pages \ fetch : cache[p] # None
          OBVIOUS
        <4> HIDE DEF fetch
        <4>2. /\ o \in Ops /\ o.kind = "rom" /\ o.pages = pages /\ o.fetch = fetch
              /\ o.res = NoOp.res
          BY <2>0, NoOpType DEF Ops, Kinds
        <4>3. NoOp.res = "none"
          BY DEF NoOp
        <4> QED BY <4>1, <4>2, <4>3
      <3> HIDE DEF o
      <3>2. /\ phase' \in {"await", "down"} /\ op' = o /\ t' \in Links /\ up' \in Seq(Requests)
            /\ \A i \in DOMAIN up' : up'[i].kind = "POKE" => up'[i].w \in Writes
        BY <2>3, <3>1, BeginTypes DEF Types
      <3> QED BY <2>1, <2>2, <2>3, <3>1, <3>2 DEF Types, TypeOK, ReadHolds, PhaseFits, Phases
    <2>4. CASE fetch = {} /\ got' = {cache[p] : p \in pages} /\ UNCHANGED <<phase, op, t, up>>
      <3>1. got' \subseteq Images
        BY <2>4 DEF Types, TypeOK
      <3> QED BY <2>1, <2>2, <2>4, <3>1 DEF Types, TypeOK, ReadHolds, PhaseFits, Phases
    <2> QED BY <1>3, <2>3, <2>4 DEF StartRomRead
  <1> QED BY <1>1, <1>2, <1>3 DEF Caller, StartRead

LEMMA AnsweredTypes ==
  ASSUME Types, NEW kinds, Answered(kinds)
  PROVE  /\ down' \in Seq(Replies) /\ down # << >> /\ down' = Tail(down)
         /\ Head(down) \in Replies /\ Head(down).img \in Images
         /\ Waiting /\ Head(down).kind \in kinds /\ Head(down).rid = t.want
  <1>1. /\ Waiting /\ down # << >> /\ down' = Tail(down)
        /\ Head(down).rid = t.want /\ Head(down).kind \in kinds
    BY Zenon DEF Answered
  <1>2. Head(down) \in Replies /\ down' \in Seq(Replies)
    BY <1>1, TakeTypes DEF Types
  <1>3. Head(down).img \in Images
    BY <1>2 DEF Replies
  <1> QED BY <1>1, <1>2, <1>3

\* The caller is told of a request whose pages are as they were.
LEMMA ToldTypes ==
  ASSUME Types, NEW r \in Results, r = "ok" => op.res = "ok", Return(op, cache, r)
  PROVE  /\ phase' = "idle" /\ op' \in Ops /\ op'.kind = "none"
         /\ done' \in [Writes -> Results \cup {"sent"}]
         /\ cache' \in [Pages -> Images \cup {None}] /\ got' \subseteq Images
  <1>1. /\ op \in Ops /\ (op.kind = "write" => op.w \in Writes)
        /\ cache \in [Pages -> Images \cup {None}]
    BY DEF Types, TypeOK
  <1>2. /\ op.kind = "rom" /\ r = "ok" => op.img \in Images
        /\ op.kind = "rom" /\ r = "ok" /\ ~op.moved =>
              \A p \in op.pages \ op.fetch : cache[p] # None
    BY DEF Types, ReadHolds
  <1> QED BY <1>1, <1>2, ReturnTypes DEF Types

LEMMA AnswerTypes ==
  ASSUME Types, OpAnswered \/ OpRefused \/ OpBusy \/ CheckAnswered \/ RecheckAnswered
                \/ WrongAnswer \/ PassOver
  PROVE  Types'
  <1> USE DEF Types
  <1>00. OpAnswered \/ OpRefused \/ OpBusy \/ CheckAnswered \/ RecheckAnswered \/ WrongAnswer => Waiting
    BY Zenon DEF OpAnswered, OpRefused, OpBusy, CheckAnswered, RecheckAnswered, WrongAnswer, Answered
  <1>01. Waiting => op.kind # "none"
    BY DEF Waiting, PhaseFits
  <1>0. op \in Ops /\ (op.kind = "write" => op.w \in Writes) /\ op.res \in Results
    BY OpFields DEF TypeOK
  <1>1. CASE OpAnswered
    <2> DEFINE o == [op EXCEPT !.img = Head(down).img]
    <2>1. /\ down' \in Seq(Replies) /\ Head(down).img \in Images
          /\ Answering(o, "ok") /\ UNCHANGED <<cart, applied, landed, spent>>
      BY <1>1, AnsweredTypes DEF OpAnswered
    <2>2. /\ o \in Ops /\ o.kind = op.kind /\ o.w = op.w /\ o.img \in Images
          /\ o.fetch = op.fetch /\ o.pages = op.pages /\ o.moved = op.moved
      BY <1>0, <1>00, <1>01, <2>1, OpImage
    <2> HIDE DEF o
    <2>3. o.kind = "rom" /\ ~o.moved => \A p \in o.pages \ o.fetch : cache[p] # None
      BY <2>2 DEF ReadHolds, PhaseFits
    <2>4. /\ phase' \in Phases /\ op' \in Ops /\ (op'.kind = "write" => op'.w \in Writes)
          /\ t' \in Links /\ up' \in Seq(Requests)
          /\ \A i \in DOMAIN up' : up'[i].kind = "POKE" => up'[i].w \in Writes
          /\ missed' \in BOOLEAN /\ cache' \in [Pages -> Images \cup {None}]
          /\ done' \in [Writes -> Results \cup {"sent"}] /\ got' \subseteq Images
          /\ ReadHolds' /\ PhaseFits'
      BY <1>1, <1>0, <1>00, <1>01, <2>1, <2>2, <2>3, AnsweringTypes DEF Results
    <2> QED BY <2>1, <2>4 DEF TypeOK
  <1>2. CASE OpRefused
    <2>1. /\ down' \in Seq(Replies) /\ Answering(op, "refused")
          /\ UNCHANGED <<cart, applied, landed, spent>>
      BY <1>2, AnsweredTypes DEF OpRefused
    <2>3. op.kind = "rom" /\ ~op.moved => \A p \in op.pages \ op.fetch : cache[p] # None
      BY DEF ReadHolds, PhaseFits
    <2>4. /\ phase' \in Phases /\ op' \in Ops /\ (op'.kind = "write" => op'.w \in Writes)
          /\ t' \in Links /\ up' \in Seq(Requests)
          /\ \A i \in DOMAIN up' : up'[i].kind = "POKE" => up'[i].w \in Writes
          /\ missed' \in BOOLEAN /\ cache' \in [Pages -> Images \cup {None}]
          /\ done' \in [Writes -> Results \cup {"sent"}] /\ got' \subseteq Images
          /\ ReadHolds' /\ PhaseFits'
      BY <1>2, <1>0, <1>00, <1>01, <2>1, <2>3, AnsweringTypes DEF Results
    <2> QED BY <2>1, <2>4 DEF TypeOK
  <1>3. CASE OpBusy
    <2>1. /\ down' \in Seq(Replies)
          /\ UNCHANGED <<op, missed, cache, cart, applied, landed, done, got, spent>>
      BY <1>3, AnsweredTypes DEF OpBusy
    <2>2. CASE Retry
      BY <1>3, <1>0, <1>00, <1>01, <2>1, <2>2, RetryTypes DEF TypeOK, Phases, ReadHolds, PhaseFits
    <2>3. CASE phase' = "down" /\ UNCHANGED <<t, up>>
      BY <1>3, <1>00, <1>01, <2>1, <2>3 DEF TypeOK, Phases, ReadHolds, PhaseFits
    <2> QED BY <1>3, <2>2, <2>3 DEF OpBusy
  <1>4. CASE CheckAnswered
    <2>1. down' \in Seq(Replies) /\ UNCHANGED <<cart, applied, landed>>
      BY <1>4, AnsweredTypes DEF CheckAnswered
    <2>2. CASE phase' = "await" /\ SendCopy /\ UNCHANGED <<op, missed, cache, done, got, spent>>
      BY <1>4, <1>0, <1>00, <1>01, <2>1, <2>2, CopyTypes DEF CheckAnswered, TypeOK, Phases, ReadHolds, PhaseFits
    <2>3. CASE RomChanged("restarted")
      BY <1>4, <1>00, <1>01, <2>1, <2>3, RomChangedTypes DEF TypeOK, Results
    <2> QED BY <1>4, <2>2, <2>3, Zenon DEF CheckAnswered
  <1>5. CASE RecheckAnswered
    <2>1. down' \in Seq(Replies) /\ UNCHANGED <<cart, applied, landed>>
      BY <1>5, AnsweredTypes DEF RecheckAnswered
    <2>2. CASE missed' \in BOOLEAN /\ Return(op, cache, op.res) /\ UNCHANGED <<t, up, spent>>
      BY <1>0, <1>00, <1>01, <2>1, <2>2, ToldTypes DEF TypeOK, ReadHolds, PhaseFits, Phases
    <2>3. CASE RomChanged(op.res)
      BY <1>5, <1>0, <1>00, <1>01, <2>1, <2>3, RomChangedTypes DEF TypeOK
    <2>4. missed \in BOOLEAN
      BY DEF TypeOK
    <2>5. \/ missed' = FALSE /\ Return(op, cache, op.res) /\ UNCHANGED <<t, up, spent>>
          \/ RomChanged(op.res)
          \/ Return(op, cache, op.res) /\ UNCHANGED <<missed, t, up, spent>>
      BY <1>5, Zenon DEF RecheckAnswered
    <2> QED BY <2>2, <2>3, <2>4, <2>5
  <1>6. CASE WrongAnswer
    <2>1. down' \in Seq(Replies) /\ UNCHANGED <<t, up, cart, applied, landed, spent>>
      BY <1>6, AnsweredTypes DEF WrongAnswer
    <2>2. CASE Return(op, cache, "failed") /\ missed' = TRUE
      BY <2>1, <2>2, ToldTypes DEF TypeOK, ReadHolds, Results, PhaseFits, Phases
    <2>3. CASE phase' = "down" /\ UNCHANGED <<op, missed, cache, done, got>>
      BY <1>6, <1>00, <1>01, <2>1, <2>3 DEF TypeOK, ReadHolds, Phases, PhaseFits
    <2> QED BY <1>6, <2>2, <2>3 DEF WrongAnswer, Fails
  <1>7. CASE PassOver
    <2>1. down # << >> /\ down' = Tail(down)
          /\ UNCHANGED <<phase, op, t, missed, cache, up, cart, applied, landed, done, got, spent>>
      BY <1>7, Zenon DEF PassOver
    <2> QED BY <2>1, TakeTypes DEF TypeOK, ReadHolds, PhaseFits
  <1> QED BY <1>1, <1>2, <1>3, <1>4, <1>5, <1>6, <1>7

\* Where the console is in its boot does not matter to the types.
LEMMA SilenceConsole ==
  ASSUME TypeOK, TimePasses \/ Overdue
  PROVE  cart' \in Consoles
  BY DEF TypeOK, TimePasses, Overdue, Consoles, Boots

LEMMA SilenceTypes ==
  ASSUME Types, QuickCopy \/ SoftTimeout \/ LastTimeout \/ ProbeTimeout \/ RecheckTimeout
                \/ SocketDies
  PROVE  Types'
  <1> USE DEF Types
  <1>0. op \in Ops /\ (op.kind = "write" => op.w \in Writes) /\ op.res \in Results
    BY OpFields DEF TypeOK
  <1>1. CASE QuickCopy
    <2> DEFINE m == [kind |-> Expected, rid |-> t.want, conn |-> t.conn,
                     w |-> IF Expected = "POKE" THEN op.w ELSE NoWrite]
    <2>1. /\ Put(m) /\ t' = [t EXCEPT !.copied = TRUE]
          /\ UNCHANGED <<phase, op, missed, cache, down, cart, applied, landed, done, got, spent>>
      BY <1>1 DEF QuickCopy
    <2>2. Expected \in {"POKE", "ROM", "PEEK"} /\ (Expected = "POKE" => op.kind = "write")
      BY DEF Expected, Wire
    <2>3. m \in Requests /\ (m.kind = "POKE" => m.w \in Writes)
      BY <1>0, <2>2 DEF TypeOK, Links, Requests
    <2>4. t' \in Links
      BY <2>1 DEF TypeOK, Links
    <2> HIDE DEF m
    <2> QED BY <2>1, <2>3, <2>4, PutTypes DEF TypeOK, ReadHolds, PhaseFits
  <1>2. CASE SoftTimeout
    <2>1. /\ phase \in {"await", "check"} /\ op.timeouts < SoftRetries
          /\ op' = [op EXCEPT !.timeouts = @ + 1] /\ missed' = TRUE /\ Retry /\ Overdue
          /\ UNCHANGED <<cache, down, applied, landed, done, got, spent>>
      BY <1>2 DEF SoftTimeout
    <2>2. /\ op' \in Ops /\ op'.kind = op.kind /\ op'.w = op.w /\ op'.img = op.img
          /\ op'.fetch = op.fetch /\ op'.pages = op.pages /\ op'.moved = op.moved
          /\ op'.res = op.res
      BY <1>0, <2>1, OpTimedOut
    <2>3. op.kind # "none"
      BY <2>1 DEF PhaseFits
    <2>4. /\ phase' \in {"await", "check"} /\ (phase' = "check" => op.kind = "write")
          /\ t' \in Links /\ up' \in Seq(Requests)
          /\ \A i \in DOMAIN up' : up'[i].kind = "POKE" => up'[i].w \in Writes
      BY <2>1, <2>2, <2>3, RetryTypes
    <2>5. cart' \in Consoles
      BY <2>1, SilenceConsole
    <2> QED BY <1>0, <2>1, <2>2, <2>3, <2>4, <2>5 DEF TypeOK, ReadHolds, PhaseFits, Phases
  <1>3. CASE LastTimeout
    <2>1. /\ phase \in {"await", "check", "again"} /\ phase' = "down" /\ cart' \in Consoles
          /\ UNCHANGED <<op, t, missed, cache, up, down, applied, landed, done, got, spent>>
      BY <1>3, SilenceConsole DEF LastTimeout
    <2> QED BY <1>0, <2>1 DEF TypeOK, ReadHolds, PhaseFits, Phases
  <1>4. CASE ProbeTimeout
    <2>1. /\ missed' = TRUE /\ Return(op, cache, "failed") /\ cart' \in Consoles
          /\ UNCHANGED <<t, up, down, applied, landed, spent>>
      BY <1>4, SilenceConsole DEF ProbeTimeout
    <2> QED BY <2>1, ToldTypes DEF TypeOK, ReadHolds, PhaseFits, Phases, Results
  <1>5. CASE RecheckTimeout
    <2>1. /\ Return(op, cache, op.res) /\ cart' \in Consoles
          /\ UNCHANGED <<t, missed, up, down, applied, landed, spent>>
      BY <1>5, SilenceConsole DEF RecheckTimeout
    <2> QED BY <1>0, <2>1, ToldTypes DEF TypeOK, ReadHolds, PhaseFits, Phases, Results
  <1>6. CASE SocketDies
    <2>1. /\ t' = [t EXCEPT !.dead = TRUE] /\ Waiting
          /\ UNCHANGED <<up, down, cart, applied, landed, spent>>
      BY <1>6 DEF SocketDies
    <2>2. t' \in Links /\ op.kind # "none"
      BY <2>1 DEF TypeOK, Links, Waiting, PhaseFits
    <2>3. ASSUME NEW r \in {op.res, "failed"}, Return(op, cache, r), missed' \in BOOLEAN
          PROVE  Types'
      BY <1>0, <2>1, <2>2, <2>3, ToldTypes DEF TypeOK, ReadHolds, PhaseFits, Phases, Results
    <2>4. CASE phase = "recheck"
      BY <1>6, <2>3, <2>4 DEF SocketDies, TypeOK
    <2>5. CASE phase # "recheck" /\ op.kind = "probe"
      BY <1>6, <2>3, <2>5 DEF SocketDies, Fails
    <2>6. CASE phase # "recheck" /\ op.kind # "probe"
      <3>1. phase' = "down" /\ UNCHANGED <<op, missed, cache, done, got>>
        BY <1>6, <2>6 DEF SocketDies, Fails
      <3> QED BY <2>1, <2>2, <3>1 DEF TypeOK, ReadHolds, PhaseFits, Phases
    <2> QED BY <2>4, <2>5, <2>6
  <1> QED BY <1>1, <1>2, <1>3, <1>4, <1>5, <1>6

LEMMA EmptyCacheType ==
  /\ EmptyCache \in [Pages -> Images \cup {None}]
  /\ \A p \in Pages : EmptyCache[p] = None
  BY DEF EmptyCache

LEMMA LinkTypesNew ==
  ASSUME NEW c \in Conns, NEW i \in Images, NEW b \in BOOLEAN
  PROVE  /\ NewLink(c, i, b) \in Links
         /\ NewLink(c, i, b).conn = c /\ NewLink(c, i, b).rid = 1
         /\ NewLink(c, i, b).want = NoRid /\ NewLink(c, i, b).dead = FALSE
         /\ NewLink(c, i, b).whole = b
  <1> DEFINE o == b /\ i \in Recognizes
             s == i \notin Refuses
  <1>1. o \in BOOLEAN /\ s \in BOOLEAN
    OBVIOUS
  <1>2. NewLink(c, i, b) = [conn |-> c, rid |-> 1, want |-> NoRid, once |-> o, whole |-> b,
                            serves |-> s, copied |-> TRUE, dead |-> FALSE]
    BY DEF NewLink
  <1> HIDE DEF o, s
  <1> QED BY <1>1, <1>2 DEF Links, Rids, NoRid

LEMMA HelloArrivesTypes ==
  ASSUME TypeOK, HelloArrives
  PROVE  /\ down # << >> /\ down' = Tail(down) /\ down' \in Seq(Replies)
         /\ Head(down) \in Replies /\ Head(down).kind = "HELLO"
         /\ cart' \in Consoles
         /\ cart'.image = cart.image /\ cart'.boot = cart.boot /\ cart'.hold = cart.hold
         /\ spent.dials + 1 \in Conns /\ Greeting \in Links
         /\ Greeting.conn = spent.dials + 1 /\ Greeting.rid = 1 /\ Greeting.want = NoRid
         /\ Greeting.dead = FALSE /\ Greeting.whole = t.whole
  <1>1. /\ down # << >> /\ down' = Tail(down) /\ Head(down).kind = "HELLO"
        /\ cart' = [cart EXCEPT !.unseen = @ /\ Head(down).conn # spent.dials + 1]
    BY DEF HelloArrives
  <1>2. Head(down) \in Replies /\ down' \in Seq(Replies)
    BY <1>1, TakeTypes
  <1> DEFINE u == cart.unseen /\ Head(down).conn # spent.dials + 1
  <1>3. cart' = [cart EXCEPT !.unseen = u] /\ u \in BOOLEAN
    BY <1>1
  <1> HIDE DEF u
  <1>4. /\ cart' \in Consoles
        /\ cart'.image = cart.image /\ cart'.boot = cart.boot /\ cart'.hold = cart.hold
    BY <1>3 DEF TypeOK, Consoles
  <1>5. Head(down).img \in Images /\ t.whole \in BOOLEAN /\ spent.dials + 1 \in Conns
    BY <1>2, BoundsAssumption DEF Replies, TypeOK, Links, Uses, Conns
  <1> QED BY <1>1, <1>2, <1>4, <1>5, LinkTypesNew DEF Greeting

\* A link anew: no page is cached, and a read that was under way is marked.
LEMMA AnewTypes ==
  ASSUME TypeOK, NEW o \in Ops, o.kind = "write" => o.w \in Writes, NEW r \in Results,
         o.kind = "rom" /\ r = "ok" => o.img \in Images /\ o.moved,
         Return(o, EmptyCache, r)
  PROVE  /\ phase' = "idle" /\ op' \in Ops /\ op'.kind = "none"
         /\ done' \in [Writes -> Results \cup {"sent"}]
         /\ cache' \in [Pages -> Images \cup {None}] /\ got' \subseteq Images
  BY EmptyCacheType, ReturnTypes

LEMMA DialTypes ==
  ASSUME Types, Dial \/ DialAnsweredWrite \/ DialAnsweredRead \/ DialFails \/ GiveUp
  PROVE  Types'
  <1> USE DEF Types
  <1>0. op \in Ops /\ (op.kind = "write" => op.w \in Writes) /\ op.res \in Results
    BY OpFields DEF TypeOK
  <1>1. CASE Dial
    <2> DEFINE m == [kind |-> "HELLO", rid |-> NoRid, w |-> NoWrite, conn |-> spent.dials + 2]
    <2>1. /\ phase = "down" /\ phase' = "dial" /\ spent.dials < MaxDials
          /\ spent' = [spent EXCEPT !.dials = @ + 1] /\ Put(m)
          /\ UNCHANGED <<op, t, missed, cache, down, cart, applied, landed, done, got>>
      BY <1>1 DEF Dial
    <2>2. m \in Requests /\ m.kind # "POKE"
      BY <2>1, BoundsAssumption DEF TypeOK, Uses, Requests, Rids, NoRid, Conns
    <2>3. spent' \in Uses
      BY <2>1, UseTypes DEF TypeOK
    <2> HIDE DEF m
    <2> QED BY <2>1, <2>2, <2>3, PutTypes DEF TypeOK, ReadHolds, PhaseFits, Phases
  <1>2. CASE DialAnsweredWrite
    <2>1. /\ HelloArrives /\ t' = Greeting /\ missed' = FALSE
          /\ UNCHANGED <<up, applied, landed, spent>>
      BY <1>2 DEF DialAnsweredWrite
    <2>2. PICK r \in {"restarted", "failed"} : Return(op, EmptyCache, r)
      BY <1>2 DEF DialAnsweredWrite
    <2>3. r \in Results /\ r # "ok"
      BY DEF Results
    <2>4. /\ phase' = "idle" /\ op' \in Ops /\ op'.kind = "none"
          /\ done' \in [Writes -> Results \cup {"sent"}]
          /\ cache' \in [Pages -> Images \cup {None}] /\ got' \subseteq Images
      BY <1>0, <2>2, <2>3, AnewTypes
    <2>5. down' \in Seq(Replies) /\ cart' \in Consoles /\ t' \in Links
      BY <2>1, HelloArrivesTypes
    <2> QED BY <2>1, <2>4, <2>5 DEF TypeOK, ReadHolds, PhaseFits, Phases
  <1>3. CASE DialAnsweredRead
    <2>1. /\ HelloArrives /\ missed' = FALSE /\ phase = "dial" /\ op.kind # "write"
          /\ UNCHANGED <<applied, landed, spent>>
      BY <1>3 DEF DialAnsweredRead
    <2>2. /\ down' \in Seq(Replies) /\ cart' \in Consoles /\ Greeting \in Links
          /\ spent.dials + 1 \in Conns
      BY <2>1, HelloArrivesTypes
    <2>3. CASE Return(op, EmptyCache, "failed") /\ t' = Greeting /\ UNCHANGED up
      <3>1. /\ phase' = "idle" /\ op' \in Ops /\ op'.kind = "none"
            /\ done' \in [Writes -> Results \cup {"sent"}]
            /\ cache' \in [Pages -> Images \cup {None}] /\ got' \subseteq Images
        BY <1>0, <2>3, AnewTypes DEF Results
      <3> QED BY <2>1, <2>2, <2>3, <3>1 DEF TypeOK, ReadHolds, PhaseFits, Phases
    <2>4. ASSUME op' = [op EXCEPT !.moved = TRUE], cache' = EmptyCache, UNCHANGED <<done, got>>,
                 phase' \in {"down", "again"}, t' \in Links, up' \in Seq(Requests),
                 \A i \in DOMAIN up' : up'[i].kind = "POKE" => up'[i].w \in Writes
          PROVE  Types'
      <3>1. /\ op' \in Ops /\ op'.kind = op.kind /\ op'.img = op.img /\ op'.res = op.res
            /\ op'.moved = TRUE
        BY <1>0, <2>4, OpMoved
      <3>2. op.kind # "none"
        BY <2>1 DEF PhaseFits
      <3> QED BY <1>0, <2>1, <2>2, <2>4, <3>1, <3>2, EmptyCacheType
              DEF TypeOK, ReadHolds, PhaseFits, Phases
    <2>5. CASE /\ phase' = "down" /\ op' = [op EXCEPT !.moved = TRUE]
               /\ cache' = EmptyCache /\ t' = Greeting /\ UNCHANGED <<up, done, got>>
      BY <2>2, <2>4, <2>5 DEF TypeOK
    <2> DEFINE m == [kind |-> Wire(op.kind), rid |-> 1, w |-> NoWrite, conn |-> spent.dials + 1]
    <2>6. CASE /\ phase' = "again" /\ op' = [op EXCEPT !.moved = TRUE] /\ cache' = EmptyCache
               /\ t' = [Greeting EXCEPT !.rid = 2, !.want = 1, !.copied = TRUE]
               /\ Put(m) /\ UNCHANGED <<done, got>>
      <3>1. t' \in Links
        <4> DEFINE g == Greeting
        <4>1. g \in Links /\ t' = [g EXCEPT !.rid = 2, !.want = 1, !.copied = TRUE]
          BY <2>2, <2>6
        <4>2. 2 \in Nat \ {0} /\ 1 \in Nat
          OBVIOUS
        <4> HIDE DEF g
        <4> QED BY <4>1, <4>2, Zenon DEF Links, Rids
      <3>2. m \in Requests /\ m.kind # "POKE"
        BY <2>1, <2>2 DEF Requests, Rids, Wire
      <3> HIDE DEF m
      <3> QED BY <2>4, <2>6, <3>1, <3>2, PutTypes
    <2> QED BY <1>3, <2>3, <2>5, <2>6 DEF DialAnsweredRead
  <1>4. CASE DialFails
    <2>1. /\ phase = "dial" /\ phase' = "down" /\ HelloStays /\ cart' \in Consoles
          /\ UNCHANGED <<op, t, missed, cache, applied, landed, done, got, spent>>
      BY <1>4, SilenceConsole DEF DialFails
    <2>2. /\ up' \in Seq(Requests) /\ down' \in Seq(Replies)
          /\ \A i \in DOMAIN up' : up'[i].kind = "POKE" => up'[i].w \in Writes
      BY <2>1, Dropped DEF HelloStays, TypeOK
    <2> QED BY <2>1, <2>2 DEF TypeOK, ReadHolds, PhaseFits, Phases
  <1>5. CASE GiveUp
    <2>1. /\ Return(op, cache, "failed")
          /\ UNCHANGED <<t, missed, up, down, cart, applied, landed, spent>>
      BY <1>5 DEF GiveUp
    <2> QED BY <2>1, ToldTypes DEF TypeOK, ReadHolds, PhaseFits, Phases, Results
  <1> QED BY <1>1, <1>2, <1>3, <1>4, <1>5

LEMMA GreetTypes == ASSUME Types, GreetAnswered \/ GreetFails PROVE Types'
  <1> USE DEF Types
  <1>0. op \in Ops /\ (op.kind = "write" => op.w \in Writes) /\ op.res \in Results
    BY OpFields DEF TypeOK
  <1>1. ASSUME NEW link \in Links, Greeted(link), up' \in Seq(Requests), down' \in Seq(Replies),
               \A i \in DOMAIN up' : up'[i].kind = "POKE" => up'[i].w \in Writes,
               cart' \in Consoles, UNCHANGED <<applied, landed, spent>>
        PROVE  Types'
    <2> DEFINE o == [op EXCEPT !.moved = TRUE]
    <2>1. t' = link /\ missed' = FALSE /\ Return(o, EmptyCache, op.res)
      BY <1>1 DEF Greeted
    <2>2. o \in Ops /\ o.kind = op.kind /\ o.w = op.w /\ o.img = op.img /\ o.moved = TRUE
      BY <1>0, OpMoved
    <2>3. o.kind = "rom" /\ op.res = "ok" => o.img \in Images /\ o.moved
      BY <2>2 DEF ReadHolds
    <2> HIDE DEF o
    <2>4. /\ phase' = "idle" /\ op' \in Ops /\ op'.kind = "none"
          /\ done' \in [Writes -> Results \cup {"sent"}]
          /\ cache' \in [Pages -> Images \cup {None}] /\ got' \subseteq Images
      BY <1>0, <2>1, <2>2, <2>3, AnewTypes
    <2> QED BY <1>1, <2>1, <2>4 DEF TypeOK, ReadHolds, PhaseFits, Phases
  <1>2. CASE GreetAnswered
    BY <1>1, <1>2, HelloArrivesTypes DEF GreetAnswered, TypeOK
  <1>3. CASE GreetFails
    <2>1. /\ Greeted([t EXCEPT !.once = FALSE]) /\ HelloStays /\ cart' \in Consoles
          /\ UNCHANGED <<applied, landed, spent>>
      BY <1>3, SilenceConsole DEF GreetFails
    <2>2. /\ up' \in Seq(Requests) /\ down' \in Seq(Replies)
          /\ \A i \in DOMAIN up' : up'[i].kind = "POKE" => up'[i].w \in Writes
      BY <2>1, Dropped DEF HelloStays, TypeOK
    <2>3. [t EXCEPT !.once = FALSE] \in Links
      BY DEF TypeOK, Links
    <2> QED BY <1>1, <2>1, <2>2, <2>3
  <1> QED BY <1>2, <1>3

LEMMA ReplyTypes ==
  ASSUME TypeOK, up # << >>, NEW kind \in {"HELLO", "POKE", "ROM", "PEEK", "BUSY", "ERR"}, Reply(kind)
  PROVE  /\ up' \in Seq(Requests) /\ down' \in Seq(Replies)
         /\ \A i \in DOMAIN up' : up'[i].kind = "POKE" => up'[i].w \in Writes
  <1> DEFINE r == [kind |-> kind, rid |-> Head(up).rid, conn |-> Head(up).conn, img |-> cart.image]
  <1>1. up' = Tail(up) /\ down' = Append(down, r) /\ Head(up) \in Requests
    BY TakeTypes DEF Reply
  <1>2. r \in Replies /\ down \in Seq(Replies)
    BY <1>1 DEF TypeOK, Consoles, Requests, Replies
  <1> HIDE DEF r
  <1> QED BY <1>1, <1>2, TakeTypes, Appended

LEMMA ConsoleTypes == ASSUME Types, Console \/ Lose PROVE Types'
  <1> USE DEF Types
  <1>1. CASE ServeCopy
    <2>1. /\ up # << >> /\ Reply("POKE")
          /\ UNCHANGED <<phase, op, t, missed, cache, cart, applied, landed, done, got, spent>>
      BY <1>1 DEF ServeCopy, Serving
    <2> QED BY <2>1, ReplyTypes DEF TypeOK, ReadHolds, PhaseFits
  <1>2. CASE ServePoke
    <2>1. /\ up # << >> /\ Head(up).kind = "POKE"
          /\ UNCHANGED <<phase, op, t, missed, cache, done, got, spent>>
      BY <1>2 DEF ServePoke, Serving
    <2>2. Head(up) \in Requests /\ Head(up).w \in Writes /\ Head(up).rid \in Rids
      BY <2>1, TakeTypes DEF Requests
    <2>3. CASE /\ applied' = [applied EXCEPT ![Head(up).w] = @ + 1]
               /\ landed' = landed \cup {Head(up).w}
               /\ Hold(IF cart.image \in Recognizes THEN Head(up).rid ELSE NoRid)
               /\ Reply("POKE")
      <3>1. cart' \in Consoles
        BY <2>2, <2>3 DEF Hold, TypeOK, Consoles, Rids, NoRid
      <3>2. applied' \in [Writes -> Nat] /\ landed' \subseteq Writes
        BY <2>2, <2>3 DEF TypeOK
      <3> QED BY <2>1, <2>3, <3>1, <3>2, ReplyTypes DEF TypeOK, ReadHolds, PhaseFits
    <2>4. CASE Hold(NoRid) /\ Reply("ERR") /\ UNCHANGED <<applied, landed>>
      <3>1. cart' \in Consoles
        BY <2>4 DEF Hold, TypeOK, Consoles, Rids, NoRid
      <3> QED BY <2>1, <2>4, <3>1, ReplyTypes DEF TypeOK, ReadHolds, PhaseFits
    <2> QED BY <1>2, <2>3, <2>4 DEF ServePoke
  <1>3. CASE ServeOther
    <2>1. /\ up # << >> /\ Hold(NoRid) /\ Head(up).kind \in {"HELLO", "PEEK", "ROM"}
          /\ UNCHANGED <<phase, op, t, missed, cache, applied, landed, done, got>>
      BY <1>3 DEF ServeOther, Serving
    <2>2. cart' \in Consoles
      BY <2>1 DEF Hold, TypeOK, Consoles, Rids, NoRid
    <2>3. PICK kind \in {"HELLO", "POKE", "ROM", "PEEK", "BUSY", "ERR"} : Reply(kind)
      BY <1>3, <2>1 DEF ServeOther
    <2>4. spent' \in Uses
      BY <1>3, UseTypes DEF ServeOther, TypeOK
    <2> QED BY <2>1, <2>2, <2>3, <2>4, ReplyTypes DEF TypeOK, ReadHolds, PhaseFits
  <1>4. CASE Boot
    <2>1. /\ cart' = [cart EXCEPT !.boot = "up"]
          /\ UNCHANGED <<phase, op, t, missed, cache, up, down, applied, landed, done, got, spent>>
      BY <1>4 DEF Boot
    <2>2. cart' \in Consoles
      BY <2>1 DEF TypeOK, Consoles, Boots
    <2> QED BY <2>1, <2>2 DEF TypeOK, ReadHolds, PhaseFits
  <1>5. ASSUME NEW img \in Images, Reset(img)
        PROVE  Types'
    <2>1. /\ cart' = [image |-> img, boot |-> "quiet", unseen |-> TRUE, hold |-> NoRid]
          /\ applied' = [w \in Writes |-> 0] /\ spent' \in Uses
          /\ UNCHANGED <<phase, op, t, missed, cache, up, down, landed, done, got>>
      BY <1>5, UseTypes DEF Reset, TypeOK
    <2>2. cart' \in Consoles
      BY <2>1 DEF Consoles, Boots, Rids, NoRid
    <2> QED BY <2>1, <2>2 DEF TypeOK, ReadHolds, PhaseFits
  <1>6. CASE Lose
    <2>1. UNCHANGED <<phase, op, t, missed, cache, cart, applied, landed, done, got, spent>>
      BY <1>6 DEF Lose
    <2>2. /\ up' \in Seq(Requests) /\ down' \in Seq(Replies)
          /\ \A i \in DOMAIN up' : up'[i].kind = "POKE" => up'[i].w \in Writes
      BY <1>6, TakeTypes DEF Lose, TypeOK
    <2> QED BY <2>1, <2>2 DEF TypeOK, ReadHolds, PhaseFits
  <1> QED BY <1>1, <1>2, <1>3, <1>4, <1>5, <1>6 DEF Console

LEMMA InitTypes == Init => Types
  <1> SUFFICES ASSUME Init PROVE Types
    OBVIOUS
  <1>1. PICK whole \in BOOLEAN : t = NewLink(1, cart.image, whole)
    BY DEF Init
  <1>2. 1 \in Conns /\ cart \in Consoles
    <2>1. 1 \in Conns /\ NoRid \in Rids
      BY BoundsAssumption DEF Conns, Rids, NoRid
    <2>2. cart \in [image : Images \ Refuses, boot : {"up"}, unseen : {FALSE}, hold : {NoRid}]
      BY DEF Init
    <2> QED BY <2>1, <2>2 DEF Consoles, Boots
  <1>3. t \in Links
    BY <1>1, <1>2, LinkTypesNew DEF Consoles
  <1>4. op \in Ops /\ op.kind = "none"
    BY NoOpType DEF Init
  <1>5. /\ up = << >> /\ down = << >> /\ up \in Seq(Requests) /\ down \in Seq(Replies)
        /\ DOMAIN up = {}
    BY DEF Init
  <1>6. spent \in Uses
    BY BoundsAssumption DEF Init, Uses
  <1>7. cache \in [Pages -> Images \cup {None}]
    BY EmptyCacheType DEF Init
  <1> QED BY <1>2, <1>3, <1>4, <1>5, <1>6, <1>7
          DEF Init, Types, TypeOK, ReadHolds, PhaseFits, Phases, Results

LEMMA StepTypes == Types /\ [Next]_vars => Types'
  <1> SUFFICES ASSUME Types, [Next]_vars PROVE Types'
    OBVIOUS
  <1>1. CASE UNCHANGED vars
    BY <1>1 DEF vars, Types, TypeOK, ReadHolds, PhaseFits
  <1>2. CASE Next
    BY <1>2, CallerTypes, AnswerTypes, SilenceTypes, DialTypes, GreetTypes, ConsoleTypes
       DEF Next, Host
  <1> QED BY <1>1, <1>2

\* Every variable is what the code's types make it: no request carries rid 0, a write on its way
\* is one of the caller's, and a finished ROM read holds pages of images only.
THEOREM CartTypes == Spec => []TypeOK
  <1>1. Types => TypeOK
    BY DEF Types
  <1> QED BY <1>1, InitTypes, StepTypes, PTL DEF Spec

-----------------------------------------------------------------------------
(* One link at a time, and what it says of a write.                        *)

Hello(m) == m.kind = "HELLO"
Greets   == phase \in {"greet", "dial"}

\* A HELLO is the last thing on its way, and while its answer is, it is the only one: the
\* agent has served what was before it, and holds no write.
HelloLast ==
  /\ \A i \in DOMAIN up   : Hello(up[i]) => Greets /\ i = Len(up) /\ up[i].conn = spent.dials + 1
  /\ \A i \in DOMAIN down : Hello(down[i]) =>
        /\ Greets /\ i = Len(down) /\ down[i].conn = spent.dials + 1
        /\ up = << >> /\ cart.hold = NoRid

\* Anything else on its way, and the agent's hold, is of the transport in use.
OneLink ==
  /\ \A i \in DOMAIN up   : ~Hello(up[i])   => up[i].conn = t.conn /\ up[i].rid < t.rid
  /\ \A i \in DOMAIN down : ~Hello(down[i]) => down[i].conn = t.conn /\ down[i].rid < t.rid
  /\ cart.hold < t.rid /\ t.want < t.rid /\ op.sent < t.rid

\* Under the rid of the write being sent goes that write only, and who acknowledges it or
\* holds it has applied it.
WriteUnderway == op.kind = "write" /\ phase \in {"await", "check", "recheck"}
RidIsWrites ==
  /\ op.sent # NoRid
  /\ \A i \in DOMAIN up : up[i].kind = "POKE" /\ up[i].rid = op.sent => up[i].w = op.w
  /\ \A i \in DOMAIN down : down[i].kind = "POKE" /\ down[i].rid = op.sent => op.w \in landed
  /\ cart.hold = op.sent => op.w \in landed

WriteTold ==
  /\ WriteUnderway => RidIsWrites
  /\ op.kind = "write" /\ phase = "await" => t.want = op.sent
  /\ op.kind = "write" /\ op.res = "ok" => op.w \in landed
  /\ AckTruthful

LinkHolds == HelloLast /\ OneLink /\ WriteTold

\* A step of the host between connects: it sends on the link in use, or takes an answer.
Moves ==
  /\ ~Greets /\ ~Greets'
  /\ t'.conn = t.conn /\ t'.rid >= t.rid /\ t'.want < t'.rid /\ op'.sent < t'.rid
  /\ \/ up' = up
     \/ \E m \in Requests :
           /\ up' = Append(up, m) /\ ~Hello(m) /\ m.conn = t.conn /\ m.rid < t'.rid
           /\ m.kind = "POKE" => op'.kind = "write" /\ m.w = op'.w /\ m.rid = op'.sent
  /\ down' = down \/ (down # << >> /\ down' = Tail(down))
  /\ cart'.hold = cart.hold /\ spent'.dials = spent.dials /\ landed' = landed
  /\ WriteUnderway' =>
        \/ WriteUnderway /\ op'.w = op.w /\ op'.sent = op.sent
        \/ op'.sent = t.rid
  /\ op'.kind = "write" /\ phase' = "await" => t'.want = op'.sent

LEMMA NumbersOf ==
  ASSUME TypeOK
  PROVE  /\ t.rid \in Nat \ {0} /\ t.want \in Nat /\ op.sent \in Nat /\ cart.hold \in Nat
         /\ spent.dials \in Nat /\ op.timeouts \in Nat
         /\ up \in Seq(Requests) /\ down \in Seq(Replies)
         /\ \A i \in DOMAIN up : up[i] \in Requests /\ up[i].rid \in Nat /\ up[i].conn \in Nat
         /\ \A i \in DOMAIN down : down[i] \in Replies /\ down[i].rid \in Nat /\ down[i].conn \in Nat
  <1>1. /\ t.rid \in Nat \ {0} /\ t.want \in Nat /\ op.sent \in Nat /\ cart.hold \in Nat
        /\ up \in Seq(Requests) /\ down \in Seq(Replies)
    BY DEF TypeOK, Links, Ops, Consoles, Rids
  <1>2. spent.dials \in Nat /\ op.timeouts \in Nat
    BY BoundsAssumption, RetriesAssumption DEF TypeOK, Uses, Ops
  <1>3. (\A i \in DOMAIN up : up[i] \in Requests) /\ (\A i \in DOMAIN down : down[i] \in Replies)
    BY <1>1, ElementOfSeq, LenProperties
  <1>4. \A m \in Requests \cup Replies : m.rid \in Nat /\ m.conn \in Nat
    BY BoundsAssumption DEF Requests, Replies, Rids, Conns
  <1> QED BY <1>1, <1>2, <1>3, <1>4

\* What is on its way after a step of the host is what was, or what it sent.
LEMMA MovesPath ==
  ASSUME TypeOK, Moves
  PROVE  /\ \A i \in DOMAIN up' :
               \/ i \in DOMAIN up /\ up'[i] = up[i]
               \/ /\ ~Hello(up'[i]) /\ up'[i].conn = t.conn /\ up'[i].rid < t'.rid
                  /\ up'[i].kind = "POKE" =>
                        op'.kind = "write" /\ up'[i].w = op'.w /\ up'[i].rid = op'.sent
         /\ \A i \in DOMAIN down' : \E j \in DOMAIN down : down'[i] = down[j]
  <1>1. up \in Seq(Requests) /\ down \in Seq(Replies)
    BY NumbersOf
  <1>2. \A i \in DOMAIN down' : \E j \in DOMAIN down : down'[i] = down[j]
    BY <1>1, Taken DEF Moves
  <1>3. CASE up' = up
    BY <1>2, <1>3
  <1>4. ASSUME NEW m \in Requests, up' = Append(up, m), ~Hello(m), m.conn = t.conn, m.rid < t'.rid,
               m.kind = "POKE" => op'.kind = "write" /\ m.w = op'.w /\ m.rid = op'.sent
        PROVE  \A i \in DOMAIN up' :
                  \/ i \in DOMAIN up /\ up'[i] = up[i]
                  \/ up'[i] = m
    BY <1>1, <1>4, Appended
  <1>5. PICK m \in Requests :
           \/ up' = up
           \/ /\ up' = Append(up, m) /\ ~Hello(m) /\ m.conn = t.conn /\ m.rid < t'.rid
              /\ m.kind = "POKE" => op'.kind = "write" /\ m.w = op'.w /\ m.rid = op'.sent
    <2>1. CASE up' # up
      BY <2>1 DEF Moves
    <2>2. CASE up' = up
      <3>1. \E m : m \in Requests
        <4>1. [kind |-> "HELLO", rid |-> 0, conn |-> 1, w |-> NoWrite] \in Requests
          BY BoundsAssumption DEF Requests, Rids, Conns
        <4> QED BY <4>1
      <3> QED BY <2>2, <3>1
    <2> QED BY <2>1, <2>2
  <1>6. CASE up' # up
    <2>1. /\ up' = Append(up, m) /\ ~Hello(m) /\ m.conn = t.conn /\ m.rid < t'.rid
          /\ m.kind = "POKE" => op'.kind = "write" /\ m.w = op'.w /\ m.rid = op'.sent
      BY <1>5, <1>6
    <2>2. \A i \in DOMAIN up' : (i \in DOMAIN up /\ up'[i] = up[i]) \/ up'[i] = m
      BY <1>4, <2>1
    <2> QED BY <1>2, <2>1, <2>2
  <1> QED BY <1>3, <1>6

LEMMA MovesKeep ==
  ASSUME Types, LinkHolds, Moves, TypeOK'
  PROVE  HelloLast' /\ OneLink' /\ (WriteUnderway' => RidIsWrites')
         /\ (op'.kind = "write" /\ phase' = "await" => t'.want = op'.sent)
  <1> USE DEF Types, LinkHolds
  <1>0. /\ t.rid \in Nat /\ t'.rid \in Nat /\ t'.rid >= t.rid /\ cart.hold \in Nat
        /\ \A i \in DOMAIN up : up[i].rid \in Nat
        /\ \A i \in DOMAIN down : down[i].rid \in Nat
    BY NumbersOf DEF Moves, TypeOK, Links, Rids
  <1>1. /\ \A i \in DOMAIN up : ~Hello(up[i]) /\ up[i].conn = t.conn /\ up[i].rid < t.rid
        /\ \A i \in DOMAIN down : ~Hello(down[i]) /\ down[i].conn = t.conn /\ down[i].rid < t.rid
    BY DEF Moves, HelloLast, OneLink
  <1>2. /\ \A i \in DOMAIN up' : ~Hello(up'[i]) /\ up'[i].conn = t.conn /\ up'[i].rid < t'.rid
        /\ \A i \in DOMAIN down' : ~Hello(down'[i]) /\ down'[i].conn = t.conn /\ down'[i].rid < t'.rid
    BY <1>0, <1>1, MovesPath
  <1>3. HelloLast'
    BY <1>2 DEF HelloLast, Hello
  <1>4. OneLink'
    BY <1>0, <1>2 DEF OneLink, Moves, Hello
  <1>5. ASSUME WriteUnderway'
        PROVE  RidIsWrites'
    <2>1. CASE WriteUnderway /\ op'.w = op.w /\ op'.sent = op.sent
      BY <2>1, MovesPath DEF Moves, WriteTold, RidIsWrites
    <2>2. CASE op'.sent = t.rid
      <3>1. op'.sent # NoRid /\ cart'.hold # op'.sent
        BY <1>0, <2>2, NumbersOf DEF Moves, OneLink, NoRid
      <3>2. \A i \in DOMAIN up : up[i].rid # op'.sent
        BY <1>0, <1>1, <2>2
      <3>3. \A i \in DOMAIN down' : down'[i].rid # op'.sent
        BY <1>0, <1>1, <2>2, MovesPath
      <3>4. \A i \in DOMAIN up' : up'[i].kind = "POKE" /\ up'[i].rid = op'.sent => up'[i].w = op'.w
        BY <3>2, MovesPath
      <3> QED BY <3>1, <3>3, <3>4 DEF RidIsWrites
    <2> QED BY <1>5, <2>1, <2>2 DEF Moves
  <1> QED BY <1>3, <1>4, <1>5 DEF Moves

\* What a step of the host puts on its way, if it moves.
Sends ==
  \/ up' = up
  \/ \E m \in Requests :
        /\ up' = Append(up, m) /\ ~Hello(m) /\ m.conn = t.conn /\ m.rid < t'.rid
        /\ m.kind = "POKE" => op'.kind = "write" /\ m.w = op'.w /\ m.rid = op'.sent

LEMMA FreshSends ==
  ASSUME Types, NEW kind \in {"POKE", "ROM", "PEEK"}, op' \in Ops, SendFresh(kind),
         kind = "POKE" => op'.kind = "write" /\ op'.w \in Writes /\ op'.sent = t.rid
  PROVE  Sends /\ t'.conn = t.conn /\ t'.rid = t.rid + 1 /\ t'.want = t.rid
  <1> DEFINE m == [kind |-> kind, rid |-> t.rid, conn |-> t.conn,
                   w |-> IF kind = "POKE" THEN op'.w ELSE NoWrite]
             c == ~t.whole \/ (kind = "POKE" /\ ~t.once)
  <1>1. t \in Links /\ up' = Append(up, m)
        /\ t' = [t EXCEPT !.rid = @ + 1, !.want = t.rid, !.copied = c]
    BY DEF SendFresh, Put, Types, TypeOK
  <1>2. /\ m \in Requests /\ m.kind = kind /\ m.conn = t.conn /\ m.rid = t.rid
        /\ m.kind = "POKE" => m.w = op'.w
    BY <1>1 DEF Links, Requests, Rids
  <1> HIDE DEF c
  <1>3. t'.conn = t.conn /\ t'.rid = t.rid + 1 /\ t'.want = t.rid /\ t.rid \in Nat
    BY <1>1 DEF Links, Rids
  <1> HIDE DEF m
  <1>4. ~Hello(m) /\ m.rid < t'.rid
    BY <1>2, <1>3 DEF Hello
  <1> QED BY <1>1, <1>2, <1>3, <1>4 DEF Sends

LEMMA CopySends ==
  ASSUME Types, LinkHolds, op.kind = "write", SendCopy,
         op'.kind = "write" /\ op'.w = op.w /\ op'.sent = op.sent
  PROVE  Sends /\ t'.conn = t.conn /\ t'.rid = t.rid /\ t'.want = op.sent
  <1> DEFINE m == [kind |-> "POKE", rid |-> op.sent, conn |-> t.conn, w |-> op.w]
  <1>1. /\ t \in Links /\ op \in Ops /\ op.w \in Writes /\ up' = Append(up, m)
        /\ t' = [t EXCEPT !.want = op.sent, !.copied = TRUE]
    BY DEF SendCopy, Put, Types, TypeOK
  <1>2. /\ m \in Requests /\ m.kind = "POKE" /\ m.conn = t.conn /\ m.rid = op.sent /\ m.w = op.w
    BY <1>1 DEF Links, Ops, Requests
  <1>3. t'.conn = t.conn /\ t'.rid = t.rid /\ t'.want = op.sent
    BY <1>1 DEF Links
  <1> HIDE DEF m
  <1>4. ~Hello(m) /\ m.rid < t'.rid
    BY <1>2, <1>3 DEF Hello, LinkHolds, OneLink
  <1> QED BY <1>1, <1>2, <1>3, <1>4 DEF Sends

LEMMA RetryMoves ==
  ASSUME Types, LinkHolds, Retry, phase \in {"await", "check"}, op' \in Ops,
         op'.kind = op.kind /\ op'.w = op.w /\ op'.sent = op.sent,
         down' = down \/ (down # << >> /\ down' = Tail(down)),
         cart'.hold = cart.hold /\ spent'.dials = spent.dials /\ landed' = landed
  PROVE  Moves
  <1> USE DEF Types
  <1>0. t.rid \in Nat /\ t.want < t.rid /\ op.sent < t.rid /\ op.sent \in Nat /\ op.kind # "none"
    BY NumbersOf DEF LinkHolds, OneLink, PhaseFits
  <1>1. ~Greets
    BY DEF Greets
  <1>2. CASE op.kind = "write" /\ CheckHeader
    <2>1. phase' = "check" /\ Sends /\ t'.conn = t.conn /\ t'.rid = t.rid + 1 /\ t'.want = t.rid
      BY <1>2, FreshSends DEF CheckHeader
    <2> QED BY <1>0, <1>1, <1>2, <2>1 DEF Moves, Sends, Greets, WriteUnderway
  <1>3. CASE op.kind = "write" /\ CopyWrite
    <2>1. phase' = "await" /\ Sends /\ t'.conn = t.conn /\ t'.rid = t.rid /\ t'.want = op.sent
      BY <1>3, CopySends DEF CopyWrite
    <2> QED BY <1>0, <1>1, <1>3, <2>1 DEF Moves, Sends, Greets, WriteUnderway
  <1>4. CASE op.kind = "write" /\ WaitOn
    <2>1. /\ phase' = "await" /\ up' = up
          /\ t'.conn = t.conn /\ t'.rid = t.rid /\ t'.want = op.sent
      BY <1>4 DEF WaitOn, TypeOK, Links
    <2> QED BY <1>0, <1>1, <1>4, <2>1 DEF Moves, Greets, WriteUnderway
  <1>5. CASE op.kind # "write" /\ phase' = "await" /\ SendFresh(Wire(op.kind))
    <2>1. Sends /\ t'.conn = t.conn /\ t'.rid = t.rid + 1 /\ t'.want = t.rid
      BY <1>5, FreshSends DEF Wire
    <2> QED BY <1>0, <1>1, <1>5, <2>1 DEF Moves, Sends, Greets, WriteUnderway
  <1> QED BY <1>2, <1>3, <1>4, <1>5 DEF Retry

\* A caller told that its write was written is told what holds.
LEMMA ReturnTold ==
  ASSUME Types, AckTruthful, NEW o, NEW pages, NEW r, Return(o, pages, r),
         o.kind = "write" => o.w \in Writes,
         o.kind = "write" /\ r = "ok" => o.w \in landed, landed' = landed
  PROVE  /\ phase' = "idle" /\ op' = NoOp /\ op'.kind = "none" /\ op'.sent = NoRid
         /\ AckTruthful'
  <1>1. phase' = "idle" /\ op' = NoOp /\ op'.kind = "none" /\ op'.sent = NoRid
    BY DEF Return, NoOp
  <1>2. ASSUME NEW w \in Writes, done'[w] = "ok"
        PROVE  w \in landed'
    <2>1. CASE o.kind = "write" /\ w = o.w
      BY <1>2, <2>1 DEF Return, Types, TypeOK
    <2>2. CASE ~(o.kind = "write" /\ w = o.w)
      BY <1>2, <2>2 DEF Return, Types, TypeOK, AckTruthful
    <2> QED BY <2>1, <2>2
  <1> QED BY <1>1, <1>2 DEF AckTruthful

\* A step after which no call is under way, that leaves the path to its sender's side alone.
LEMMA IdleMoves ==
  ASSUME Types, LinkHolds, ~Greets, phase' = "idle", op'.kind = "none", op'.sent = NoRid,
         t'.conn = t.conn, t'.rid = t.rid, t'.want = t.want, up' = up,
         down' = down \/ (down # << >> /\ down' = Tail(down)),
         cart'.hold = cart.hold /\ spent'.dials = spent.dials /\ landed' = landed
  PROVE  Moves
  <1>1. t.rid \in Nat \ {0} /\ t.want < t.rid
    BY NumbersOf DEF Types, LinkHolds, OneLink
  <1> QED BY <1>1 DEF Moves, Greets, WriteUnderway, NoRid

LEMMA MovesHold ==
  ASSUME Types, LinkHolds, Moves, Types', AckTruthful',
         op'.kind = "write" /\ op'.res = "ok" => op'.w \in landed'
  PROVE  LinkHolds'
  BY MovesKeep DEF Types, LinkHolds, WriteTold

LEMMA AnsweringMoves ==
  ASSUME Types, LinkHolds, phase \in {"await", "again"}, NEW o \in Ops,
         o.kind = op.kind /\ o.w = op.w /\ o.sent = op.sent,
         NEW r \in Results, o.kind = "write" /\ r = "ok" => o.w \in landed,
         Answering(o, r), down # << >> /\ down' = Tail(down),
         UNCHANGED <<cart, spent, landed>>
  PROVE  Moves /\ AckTruthful' /\ (op'.kind = "write" /\ op'.res = "ok" => op'.w \in landed')
  <1> USE DEF Types
  <1>0. /\ t.rid \in Nat /\ t.want < t.rid /\ op.sent < t.rid /\ op.sent \in Nat /\ ~Greets
        /\ AckTruthful /\ (o.kind = "write" => o.w \in Writes)
        /\ op.kind = "write" => phase = "await"
    BY NumbersOf DEF LinkHolds, OneLink, Greets, WriteTold, TypeOK, PhaseFits
  <1>1. CASE missed /\ HeaderKnown
    <2>1. /\ phase' = "recheck" /\ op' = [o EXCEPT !.res = r] /\ SendFresh("ROM")
          /\ UNCHANGED <<missed, cache, done, got>>
      BY <1>1 DEF Answering
    <2>2. /\ op' \in Ops /\ op'.kind = o.kind /\ op'.w = o.w /\ op'.res = r /\ op'.sent = o.sent
      BY <2>1, OpToldOf
    <2>3. Sends /\ t'.conn = t.conn /\ t'.rid = t.rid + 1 /\ t'.want = t.rid
      BY <2>1, <2>2, FreshSends
    <2>4. AckTruthful'
      BY <1>0, <2>1 DEF AckTruthful
    <2> QED BY <1>0, <2>1, <2>2, <2>3, <2>4 DEF Moves, Sends, Greets, WriteUnderway
  <1>2. CASE ~(missed /\ HeaderKnown)
    <2>1. Return(o, cache, r) /\ UNCHANGED <<t, up>>
      BY <1>2 DEF Answering
    <2>2. /\ phase' = "idle" /\ op'.kind = "none" /\ op'.sent = NoRid /\ AckTruthful'
      BY <1>0, <2>1, ReturnTold
    <2> QED BY <1>0, <2>1, <2>2, IdleMoves
  <1> QED BY <1>1, <1>2

LEMMA RomChangedHolds ==
  ASSUME Types, LinkHolds, Waiting, Types', NEW r \in Results,
         op.kind = "write" /\ r = "ok" => op.res = "ok",
         RomChanged(r), down # << >> /\ down' = Tail(down), UNCHANGED <<cart, landed>>
  PROVE  LinkHolds'
  <1> USE DEF Types, LinkHolds
  <1> DEFINE m == [kind |-> "HELLO", rid |-> NoRid, w |-> NoWrite, conn |-> spent.dials + 2]
  <1>1. /\ phase' = "greet" /\ op' = [op EXCEPT !.res = r] /\ op \in Ops
        /\ UNCHANGED <<t, missed, cache, done, got>>
        /\ \/ up' = Append(up, m) /\ spent' = [spent EXCEPT !.dials = @ + 1]
           \/ UNCHANGED <<up, spent>>
    BY DEF RomChanged, TypeOK, Put
  <1>2. /\ op'.kind = op.kind /\ op'.w = op.w /\ op'.res = r /\ op'.sent = op.sent
    BY <1>1, OpToldOf
  <1>3. /\ \A i \in DOMAIN up : ~Hello(up[i]) /\ up[i].conn = t.conn /\ up[i].rid < t.rid
        /\ \A i \in DOMAIN down : ~Hello(down[i]) /\ down[i].conn = t.conn /\ down[i].rid < t.rid
    BY DEF HelloLast, OneLink, Waiting, Greets
  <1>4. \A i \in DOMAIN down' : \E j \in DOMAIN down : down'[i] = down[j]
    BY NumbersOf, Taken
  <1>5. /\ \A i \in DOMAIN up' : \/ i \in DOMAIN up /\ up'[i] = up[i]
                               \/ /\ i = Len(up') /\ Hello(up'[i])
                                  /\ up'[i].conn = spent'.dials + 1
    <2>1. CASE up' = Append(up, m) /\ spent' = [spent EXCEPT !.dials = @ + 1]
      <3>1. m \in Requests /\ m.kind = "HELLO" /\ m.conn = spent.dials + 2 /\ up \in Seq(Requests)
        <4>1. spent' \in Uses /\ spent.dials \in Nat /\ spent'.dials = spent.dials + 1
          BY <2>1, NumbersOf DEF TypeOK, Uses
        <4>2. spent'.dials <= MaxDials
          BY <4>1, BoundsAssumption DEF Uses
        <4> QED BY <4>1, <4>2, NumbersOf, BoundsAssumption DEF Requests, Rids, NoRid, Conns
      <3>2. spent'.dials + 1 = spent.dials + 2
        BY <2>1, NumbersOf DEF TypeOK, Uses
      <3> HIDE DEF m
      <3> QED BY <2>1, <3>1, <3>2, Appended DEF Hello
    <2>2. CASE up' = up
      BY <2>2
    <2> QED BY <1>1, <2>1, <2>2
  <1>6. HelloLast'
    BY <1>1, <1>3, <1>4, <1>5 DEF HelloLast, Greets, Hello
  <1>7. OneLink'
    BY <1>1, <1>2, <1>3, <1>4, <1>5 DEF OneLink, Hello
  <1>8. WriteTold'
    BY <1>1, <1>2 DEF WriteTold, WriteUnderway, AckTruthful
  <1> QED BY <1>6, <1>7, <1>8

LEMMA AnswerHolds ==
  ASSUME Types, LinkHolds, Types',
         OpAnswered \/ OpRefused \/ OpBusy \/ CheckAnswered \/ RecheckAnswered \/ WrongAnswer
  PROVE  LinkHolds'
  <1> USE DEF Types
  <1>0. /\ op \in Ops /\ (op.kind = "write" => op.w \in Writes) /\ op.res \in Results
        /\ op.kind = "write" /\ op.res = "ok" => op.w \in landed
        /\ AckTruthful
    BY OpFields DEF TypeOK, LinkHolds, WriteTold
  <1>1. /\ down # << >> /\ down' = Tail(down) /\ Head(down) = down[1] /\ 1 \in DOMAIN down
        /\ Waiting /\ ~Greets /\ op.kind # "none" /\ Head(down).rid = t.want
    <2>1. PICK kinds : Answered(kinds)
      BY Zenon DEF OpAnswered, OpRefused, OpBusy, CheckAnswered, RecheckAnswered, WrongAnswer
    <2> QED BY <2>1, AnsweredTypes, NumbersOf, Taken DEF Waiting, Greets, PhaseFits
  <1>2. CASE OpAnswered
    <2> DEFINE o == [op EXCEPT !.img = Head(down).img]
    <2>1. /\ Answering(o, "ok") /\ UNCHANGED <<cart, applied, landed, spent>>
          /\ phase \in {"await", "again"} /\ Head(down).kind = Expected /\ Head(down).img \in Images
      BY <1>2, AnsweredTypes DEF OpAnswered
    <2>2. o \in Ops /\ o.kind = op.kind /\ o.w = op.w /\ o.sent = op.sent
      BY <1>0, <2>1, OpImage
    <2> HIDE DEF o
    <2>3. ASSUME op.kind = "write"
          PROVE  op.w \in landed
      <3>1. phase = "await" /\ t.want = op.sent /\ WriteUnderway
        BY <2>1, <2>3 DEF PhaseFits, LinkHolds, WriteTold, WriteUnderway
      <3>2. Head(down).kind = "POKE"
        BY <2>1, <2>3, <3>1 DEF Expected, Wire
      <3> QED BY <1>1, <3>1, <3>2 DEF LinkHolds, WriteTold, RidIsWrites
    <2>4. Moves /\ AckTruthful' /\ (op'.kind = "write" /\ op'.res = "ok" => op'.w \in landed')
      BY <1>1, <2>1, <2>2, <2>3, AnsweringMoves DEF Results
    <2> QED BY <2>4, MovesHold
  <1>3. CASE OpRefused
    <2>1. /\ Answering(op, "refused") /\ UNCHANGED <<cart, applied, landed, spent>>
          /\ phase \in {"await", "again"}
      BY <1>3 DEF OpRefused
    <2>2. Moves /\ AckTruthful' /\ (op'.kind = "write" /\ op'.res = "ok" => op'.w \in landed')
      BY <1>0, <1>1, <2>1, AnsweringMoves DEF Results
    <2> QED BY <2>2, MovesHold
  <1>4. CASE OpBusy
    <2>1. /\ phase \in {"await", "check"}
          /\ UNCHANGED <<op, missed, cache, cart, applied, landed, done, got, spent>>
      BY <1>4 DEF OpBusy
    <2>2. CASE Retry
      <3>1. Moves
        BY <1>0, <1>1, <2>1, <2>2, RetryMoves
      <3> QED BY <1>0, <2>1, <3>1, MovesHold DEF AckTruthful
    <2>3. CASE phase' = "down" /\ UNCHANGED <<t, up>>
      <3>1. Moves
        BY <1>1, <2>1, <2>3, NumbersOf DEF Moves, Greets, WriteUnderway, LinkHolds, OneLink
      <3> QED BY <1>0, <2>1, <3>1, MovesHold DEF AckTruthful
    <2> QED BY <1>4, <2>2, <2>3 DEF OpBusy
  <1>5. CASE CheckAnswered
    <2>1. phase = "check" /\ UNCHANGED <<cart, applied, landed>> /\ op.kind = "write"
      BY <1>5 DEF CheckAnswered, PhaseFits
    <2>2. CASE phase' = "await" /\ SendCopy /\ UNCHANGED <<op, missed, cache, done, got, spent>>
      <3>1. Sends /\ t'.conn = t.conn /\ t'.rid = t.rid /\ t'.want = op.sent
        BY <2>1, <2>2, CopySends
      <3>2. Moves
        BY <1>1, <2>1, <2>2, <3>1, NumbersOf
           DEF Moves, Sends, Greets, WriteUnderway, LinkHolds, OneLink
      <3> QED BY <1>0, <2>1, <2>2, <3>2, MovesHold DEF AckTruthful
    <2>3. CASE RomChanged("restarted")
      BY <1>0, <1>1, <2>1, <2>3, RomChangedHolds DEF Results
    <2> QED BY <1>5, <2>2, <2>3, Zenon DEF CheckAnswered
  <1>6. CASE RecheckAnswered
    <2>1. UNCHANGED <<cart, applied, landed>>
      BY <1>6 DEF RecheckAnswered
    <2>2. CASE Return(op, cache, op.res) /\ UNCHANGED <<t, up, spent>>
      <3>1. phase' = "idle" /\ op'.kind = "none" /\ op'.sent = NoRid /\ AckTruthful'
        BY <1>0, <2>1, <2>2, ReturnTold
      <3>2. Moves
        BY <1>1, <2>1, <2>2, <3>1, IdleMoves
      <3> QED BY <3>1, <3>2, MovesHold
    <2>3. CASE RomChanged(op.res)
      BY <1>0, <1>1, <2>1, <2>3, RomChangedHolds
    <2>5. \/ missed' = FALSE /\ Return(op, cache, op.res) /\ UNCHANGED <<t, up, spent>>
          \/ RomChanged(op.res)
          \/ Return(op, cache, op.res) /\ UNCHANGED <<missed, t, up, spent>>
      BY <1>6, Zenon DEF RecheckAnswered
    <2> QED BY <2>2, <2>3, <2>5
  <1>7. CASE WrongAnswer
    <2>1. UNCHANGED <<t, up, cart, applied, landed, spent>>
      BY <1>7 DEF WrongAnswer
    <2>2. CASE Return(op, cache, "failed")
      <3>1. phase' = "idle" /\ op'.kind = "none" /\ op'.sent = NoRid /\ AckTruthful'
        BY <1>0, <2>1, <2>2, ReturnTold
      <3>2. Moves
        BY <1>1, <2>1, <2>2, <3>1, IdleMoves
      <3> QED BY <3>1, <3>2, MovesHold
    <2>3. CASE phase' = "down" /\ UNCHANGED <<op, missed, cache, done, got>>
      <3>1. Moves
        BY <1>1, <2>1, <2>3, NumbersOf DEF Moves, Greets, WriteUnderway, LinkHolds, OneLink
      <3> QED BY <1>0, <2>1, <2>3, <3>1, MovesHold DEF AckTruthful
    <2> QED BY <1>7, <2>2, <2>3 DEF WrongAnswer, Fails
  <1> QED BY <1>2, <1>3, <1>4, <1>5, <1>6, <1>7

LEMMA SilentConsole ==
  ASSUME TypeOK, TimePasses \/ Overdue
  PROVE  cart'.hold = cart.hold /\ cart'.image = cart.image
  BY DEF TypeOK, TimePasses, Overdue, Consoles

LEMMA SilenceHolds ==
  ASSUME Types, LinkHolds, Types',
         QuickCopy \/ SoftTimeout \/ LastTimeout \/ ProbeTimeout \/ RecheckTimeout
         \/ SocketDies \/ GiveUp
  PROVE  LinkHolds'
  <1> USE DEF Types
  <1>0. /\ op \in Ops /\ (op.kind = "write" => op.w \in Writes) /\ op.res \in Results
        /\ op.kind = "write" /\ op.res = "ok" => op.w \in landed
        /\ AckTruthful
        /\ t.rid \in Nat \ {0} /\ t.want < t.rid /\ op.sent < t.rid
    BY OpFields, NumbersOf DEF TypeOK, LinkHolds, WriteTold, OneLink
  <1>1. CASE QuickCopy
    <2> DEFINE m == [kind |-> Expected, rid |-> t.want, conn |-> t.conn,
                     w |-> IF Expected = "POKE" THEN op.w ELSE NoWrite]
    <2>1. /\ Waiting /\ up' = Append(up, m) /\ t' = [t EXCEPT !.copied = TRUE] /\ t \in Links
          /\ UNCHANGED <<phase, op, missed, cache, down, cart, applied, landed, done, got, spent>>
      BY <1>1 DEF QuickCopy, Put, TypeOK
    <2>2. Expected \in {"POKE", "ROM", "PEEK"}
          /\ (Expected = "POKE" => op.kind = "write" /\ phase = "await")
      BY <2>1 DEF Expected, Wire, Waiting, PhaseFits
    <2>3. /\ m \in Requests /\ ~Hello(m) /\ m.conn = t.conn /\ m.rid = t.want
          /\ (m.kind = "POKE" => op.kind = "write" /\ m.w = op.w /\ phase = "await")
      BY <1>0, <2>1, <2>2 DEF TypeOK, Links, Requests, Hello
    <2>4. t'.conn = t.conn /\ t'.rid = t.rid /\ t'.want = t.want
      BY <2>1 DEF Links
    <2>5. m.kind = "POKE" => m.rid = op.sent
      BY <2>3 DEF LinkHolds, WriteTold
    <2> HIDE DEF m
    <2>6. Moves
      BY <1>0, <2>1, <2>3, <2>4, <2>5, NumbersOf
         DEF Moves, Greets, Waiting, WriteUnderway, LinkHolds, WriteTold
    <2> QED BY <1>0, <2>1, <2>6, MovesHold DEF AckTruthful
  <1>2. CASE SoftTimeout
    <2>1. /\ phase \in {"await", "check"} /\ op.timeouts < SoftRetries
          /\ op' = [op EXCEPT !.timeouts = @ + 1] /\ Retry /\ Overdue
          /\ UNCHANGED <<cache, down, applied, landed, done, got, spent>>
      BY <1>2 DEF SoftTimeout
    <2>2. /\ op' \in Ops /\ op'.kind = op.kind /\ op'.w = op.w /\ op'.sent = op.sent
          /\ op'.res = op.res /\ cart'.hold = cart.hold
      BY <1>0, <2>1, OpTimedOut, SilentConsole
    <2>3. Moves
      BY <2>1, <2>2, RetryMoves
    <2> QED BY <1>0, <2>1, <2>2, <2>3, MovesHold DEF AckTruthful
  <1>3. CASE LastTimeout
    <2>1. /\ phase \in {"await", "check", "again"} /\ phase' = "down" /\ cart'.hold = cart.hold
          /\ UNCHANGED <<op, t, missed, cache, up, down, applied, landed, done, got, spent>>
      BY <1>3, SilentConsole DEF LastTimeout
    <2>2. Moves
      BY <1>0, <2>1 DEF Moves, Greets, WriteUnderway
    <2> QED BY <1>0, <2>1, <2>2, MovesHold DEF AckTruthful
  <1>4. ASSUME NEW r \in Results, ~Greets, Return(op, cache, r), r = "ok" => op.res = "ok",
               t'.conn = t.conn, t'.rid = t.rid, t'.want = t.want, cart'.hold = cart.hold,
               UNCHANGED <<up, down, landed, spent>>
        PROVE  LinkHolds'
    <2>1. phase' = "idle" /\ op'.kind = "none" /\ op'.sent = NoRid /\ AckTruthful'
      BY <1>0, <1>4, ReturnTold
    <2>2. Moves
      BY <1>4, <2>1, IdleMoves
    <2> QED BY <2>1, <2>2, MovesHold
  <1>5. CASE ProbeTimeout
    BY <1>4, <1>5, SilentConsole DEF ProbeTimeout, Greets, Results
  <1>6. CASE RecheckTimeout
    BY <1>0, <1>4, <1>6, SilentConsole DEF RecheckTimeout, Greets
  <1>7. CASE GiveUp
    BY <1>4, <1>7 DEF GiveUp, Greets, Results
  <1>8. CASE SocketDies
    <2>1. /\ t' = [t EXCEPT !.dead = TRUE] /\ Waiting /\ t \in Links
          /\ UNCHANGED <<up, down, cart, applied, landed, spent>>
      BY <1>8 DEF SocketDies, TypeOK
    <2>2. t'.conn = t.conn /\ t'.rid = t.rid /\ t'.want = t.want /\ ~Greets
      BY <2>1 DEF Links, Waiting, Greets
    <2>4. CASE phase = "recheck"
      BY <1>0, <1>4, <1>8, <2>1, <2>2, <2>4 DEF SocketDies
    <2>5. CASE phase # "recheck" /\ op.kind = "probe"
      BY <1>4, <1>8, <2>1, <2>2, <2>5 DEF SocketDies, Fails, Results
    <2>6. CASE phase # "recheck" /\ op.kind # "probe"
      <3>1. phase' = "down" /\ UNCHANGED <<op, missed, cache, done, got>>
        BY <1>8, <2>6 DEF SocketDies, Fails
      <3>2. Moves
        BY <1>0, <2>1, <2>2, <3>1 DEF Moves, Greets, WriteUnderway
      <3> QED BY <1>0, <2>1, <3>1, <3>2, MovesHold DEF AckTruthful
    <2> QED BY <2>4, <2>5, <2>6
  <1> QED BY <1>1, <1>2, <1>3, <1>5, <1>6, <1>7, <1>8

LEMMA CallerHolds == ASSUME Types, LinkHolds, Types', Caller PROVE LinkHolds'
  <1> USE DEF Types
  <1>0. /\ AckTruthful /\ t.rid \in Nat \ {0} /\ t.want < t.rid /\ op.sent < t.rid
    BY NumbersOf DEF LinkHolds, WriteTold, OneLink
  <1>1. ASSUME NEW o \in Ops, Begin(o), phase = "idle", o.kind # "none",
               o.kind = "write" => o.w \in Writes,
               o.sent = (IF o.kind = "write" /\ ~CannotSend("write") THEN t.rid ELSE NoRid),
               o.res = "none", AckTruthful', UNCHANGED <<down, cart, landed>>,
               spent'.dials = spent.dials
        PROVE  LinkHolds'
    <2>1. op' = o /\ ~Greets
      BY <1>1 DEF Begin, Greets
    <2>2. CASE CannotSend(o.kind)
      <3>1. phase' = "down" /\ UNCHANGED <<t, up>>
        BY <1>1, <2>2 DEF Begin
      <3>2. o.sent = NoRid
        BY <1>1, <2>2
      <3>3. Moves
        BY <1>0, <1>1, <2>1, <3>1, <3>2 DEF Moves, Greets, WriteUnderway, NoRid
      <3> QED BY <1>1, <2>1, <3>3, MovesHold
    <2>3. CASE ~CannotSend(o.kind)
      <3>1. phase' = "await" /\ SendFresh(Wire(o.kind))
        BY <1>1, <2>3 DEF Begin
      <3>2. Wire(o.kind) \in {"POKE", "ROM", "PEEK"} /\ (Wire(o.kind) = "POKE" => o.kind = "write")
        BY DEF Wire
      <3>3. o.kind = "write" => o.sent = t.rid
        BY <1>1, <2>3
      <3>4. Sends /\ t'.conn = t.conn /\ t'.rid = t.rid + 1 /\ t'.want = t.rid
        BY <1>1, <2>1, <3>1, <3>2, <3>3, FreshSends
      <3>5. o.sent = t.rid \/ o.sent = NoRid
        BY <1>1
      <3>6. Moves
        BY <1>0, <1>1, <2>1, <3>1, <3>3, <3>4, <3>5 DEF Moves, Sends, Greets, WriteUnderway, NoRid
      <3> QED BY <1>1, <2>1, <3>6, MovesHold
    <2> QED BY <2>2, <2>3
  <1>2. ASSUME NEW w \in Writes, StartWrite(w)
        PROVE  LinkHolds'
    <2> DEFINE o == [NoOp EXCEPT !.kind = "write", !.w = w,
                                 !.sent = IF CannotSend("write") THEN NoRid ELSE t.rid]
    <2>1. Begin(o) /\ done' = [done EXCEPT ![w] = "sent"] /\ phase = "idle"
          /\ UNCHANGED <<missed, cache, down, cart, applied, landed, got, spent>>
      BY <1>2 DEF StartWrite
    <2>2. o \in Ops
      <3>1. op' = o
        BY <2>1 DEF Begin
      <3> QED BY <3>1 DEF TypeOK
    <2>3. /\ o.kind = "write" /\ o.w = w /\ o.res = "none"
          /\ o.sent = (IF ~CannotSend("write") THEN t.rid ELSE NoRid)
      BY DEF NoOp
    <2>4. AckTruthful'
      BY <1>0, <2>1 DEF AckTruthful, TypeOK
    <2> HIDE DEF o
    <2> QED BY <1>1, <2>1, <2>2, <2>3, <2>4
  <1>3. ASSUME NEW kind \in {"read", "probe"}, StartRead(kind)
        PROVE  LinkHolds'
    <2> DEFINE o == [NoOp EXCEPT !.kind = kind]
    <2>1. /\ phase = "idle" /\ UNCHANGED <<cache, down, cart, applied, landed, done, got>>
          /\ spent'.dials = spent.dials
      BY <1>3 DEF StartRead, TypeOK, Uses
    <2>2. AckTruthful'
      BY <1>0, <2>1 DEF AckTruthful
    <2>3. CASE UNCHANGED <<phase, op, t, up>>
      <3>1. Moves
        BY <1>0, <2>1, <2>3 DEF Moves, Greets, WriteUnderway
      <3> QED BY <2>1, <2>2, <2>3, <3>1, MovesHold DEF PhaseFits
    <2>4. CASE Begin(o)
      <3>1. o \in Ops /\ o.kind = kind /\ o.res = "none" /\ o.sent = NoRid
        BY NoOpType DEF Ops, Kinds, NoOp
      <3> HIDE DEF o
      <3> QED BY <1>1, <2>1, <2>2, <2>4, <3>1
    <2> QED BY <1>3, <2>3, <2>4 DEF StartRead
  <1>4. ASSUME NEW pages \in SUBSET Pages, StartRomRead(pages)
        PROVE  LinkHolds'
    <2> DEFINE fetch == {p \in pages : cache[p] = None}
               o == [NoOp EXCEPT !.kind = "rom", !.pages = pages, !.fetch = fetch]
    <2>1. /\ phase = "idle" /\ UNCHANGED <<missed, cache, down, cart, applied, landed, done>>
          /\ spent'.dials = spent.dials
      BY <1>4 DEF StartRomRead, TypeOK, Uses
    <2>2. AckTruthful'
      BY <1>0, <2>1 DEF AckTruthful
    <2>3. CASE UNCHANGED <<phase, op, t, up>>
      <3>1. Moves
        BY <1>0, <2>1, <2>3 DEF Moves, Greets, WriteUnderway
      <3> QED BY <2>1, <2>2, <2>3, <3>1, MovesHold DEF PhaseFits
    <2>4. CASE Begin(o)
      <3>1. o \in Ops
        <4>1. op' = o
          BY <2>4 DEF Begin
        <4> QED BY <4>1 DEF TypeOK
      <3>2. o.kind = "rom" /\ o.res = "none" /\ o.sent = NoRid
        BY DEF NoOp
      <3> HIDE DEF o
      <3> QED BY <1>1, <2>1, <2>2, <2>4, <3>1, <3>2
    <2> QED BY <1>4, <2>3, <2>4 DEF StartRomRead
  <1> QED BY <1>2, <1>3, <1>4 DEF Caller, StartRead

\* Only a write remembers the rid it went under.
SentFits == op.kind # "write" => op.sent = NoRid

LEMMA StepSent == ASSUME Types, SentFits, [Next]_vars PROVE SentFits'
  <1> USE DEF Types
  <1>0. op \in Ops /\ op.res \in Results
    BY OpFields DEF TypeOK
  <1>1. NoOp.kind = "none" /\ NoOp.sent = NoRid
    BY DEF NoOp
  <1>2. ASSUME op' = op \/ op' = NoOp \/ (\E r \in Results : op' = [op EXCEPT !.res = r])
               \/ op' = [op EXCEPT !.moved = TRUE] \/ op' = [op EXCEPT !.timeouts = @ + 1]
        PROVE  SentFits'
    BY <1>0, <1>1, <1>2 DEF SentFits, Ops
  <1>3. ASSUME NEW o, NEW pages, NEW r, Return(o, pages, r)
        PROVE  SentFits'
    BY <1>2, <1>3 DEF Return
  <1>4. ASSUME NEW r \in Results, RomChanged(r)
        PROVE  SentFits'
    BY <1>2, <1>4 DEF RomChanged
  <1>5. ASSUME NEW o \in Ops, o.kind = op.kind, o.sent = op.sent, NEW r \in Results, Answering(o, r)
        PROVE  SentFits'
    <2>1. CASE op' = [o EXCEPT !.res = r]
      BY <1>5, <2>1, OpToldOf DEF SentFits
    <2>2. CASE Return(o, cache, r)
      BY <1>3, <2>2
    <2> QED BY <1>5, <2>1, <2>2 DEF Answering
  <1>6. ASSUME NEW o, Begin(o), o.kind # "write" => o.sent = NoRid
        PROVE  SentFits'
    BY <1>6 DEF Begin, SentFits
  <1>7. CASE Caller
    <2>1. ASSUME NEW w \in Writes, StartWrite(w)
          PROVE  SentFits'
      <3> DEFINE o == [NoOp EXCEPT !.kind = "write", !.w = w,
                                   !.sent = IF CannotSend("write") THEN NoRid ELSE t.rid]
      <3>1. Begin(o)
        BY <2>1 DEF StartWrite
      <3>2. o.kind = "write"
        BY DEF NoOp
      <3> HIDE DEF o
      <3> QED BY <1>6, <3>1, <3>2
    <2>2. ASSUME NEW kind \in {"read", "probe"}, StartRead(kind)
          PROVE  SentFits'
      <3>1. [NoOp EXCEPT !.kind = kind].sent = NoRid
        BY DEF NoOp
      <3> QED BY <1>2, <1>6, <2>2, <3>1 DEF StartRead
    <2>3. ASSUME NEW pages \in SUBSET Pages, StartRomRead(pages)
          PROVE  SentFits'
      <3> DEFINE o == [NoOp EXCEPT !.kind = "rom", !.pages = pages,
                                   !.fetch = {p \in pages : cache[p] = None}]
      <3>1. o.sent = NoRid
        BY DEF NoOp
      <3>2. Begin(o) \/ op' = op
        BY <2>3 DEF StartRomRead
      <3> HIDE DEF o
      <3> QED BY <1>2, <1>6, <3>1, <3>2
    <2> QED BY <1>7, <2>1, <2>2, <2>3 DEF Caller, StartRead
  <1>8. CASE OpAnswered \/ OpRefused
    <2>1. CASE OpAnswered
      <3>1. Answering([op EXCEPT !.img = Head(down).img], "ok") /\ Head(down).img \in Images
        BY <2>1, AnsweredTypes DEF OpAnswered
      <3>2. LET o == [op EXCEPT !.img = Head(down).img]
            IN  o \in Ops /\ o.kind = op.kind /\ o.sent = op.sent
        BY <1>0, <3>1, OpImage
      <3> QED BY <1>5, <3>1, <3>2 DEF Results
    <2>2. CASE OpRefused
      BY <1>0, <1>5, <2>2 DEF OpRefused, Results
    <2> QED BY <1>8, <2>1, <2>2
  <1>9. CASE OpBusy \/ CheckAnswered \/ RecheckAnswered \/ WrongAnswer \/ PassOver
    <2>1. CASE OpBusy
      BY <1>2, <2>1 DEF OpBusy
    <2>2. CASE CheckAnswered
      <3>1. op' = op \/ RomChanged("restarted")
        BY <2>2, Zenon DEF CheckAnswered
      <3> QED BY <1>2, <1>4, <3>1 DEF Results
    <2>3. CASE RecheckAnswered
      <3>1. Return(op, cache, op.res) \/ RomChanged(op.res)
        BY <2>3, Zenon DEF RecheckAnswered
      <3> QED BY <1>0, <1>3, <1>4, <3>1
    <2>4. CASE WrongAnswer
      BY <1>2, <1>3, <2>4 DEF WrongAnswer, Fails
    <2>5. CASE PassOver
      <3>1. op' = op
        BY <2>5, Zenon DEF PassOver
      <3> QED BY <1>2, <3>1
    <2> QED BY <1>9, <2>1, <2>2, <2>3, <2>4, <2>5
  <1>10. CASE QuickCopy \/ SoftTimeout \/ LastTimeout \/ ProbeTimeout \/ RecheckTimeout \/ SocketDies
    BY <1>2, <1>3, <1>10
       DEF QuickCopy, SoftTimeout, LastTimeout, ProbeTimeout, RecheckTimeout, SocketDies, Fails
  <1>11. CASE Dial \/ DialAnsweredWrite \/ DialAnsweredRead \/ DialFails \/ GiveUp
    BY <1>2, <1>3, <1>11 DEF Dial, DialAnsweredWrite, DialAnsweredRead, DialFails, GiveUp
  <1>12. CASE GreetAnswered \/ GreetFails
    BY <1>3, <1>12 DEF GreetAnswered, GreetFails, Greeted
  <1>13. CASE Lose \/ Console
    BY <1>2, <1>13 DEF Lose, Console, ServeCopy, ServePoke, ServeOther, Boot, Reset
  <1>14. CASE UNCHANGED vars
    BY <1>2, <1>14 DEF vars
  <1> QED BY <1>7, <1>8, <1>9, <1>10, <1>11, <1>12, <1>13, <1>14 DEF Next, Host

-----------------------------------------------------------------------------
(* Connects: with no late greeting, the path is empty when one ends.       *)

LEMMA Heard ==
  ASSUME Types, HelloLast, HelloArrives
  PROVE  /\ up = << >> /\ down' = << >> /\ cart.hold = NoRid /\ cart'.hold = NoRid
         /\ Head(down).conn = spent.dials + 1 /\ Greets
         /\ cart'.unseen = FALSE /\ cart'.image = cart.image
  <1>1. /\ down # << >> /\ down' = Tail(down) /\ Head(down) = down[1] /\ 1 \in DOMAIN down
        /\ Head(down).kind = "HELLO" /\ down \in Seq(Replies)
        /\ cart'.hold = cart.hold /\ cart'.image = cart.image
    BY HelloArrivesTypes, NumbersOf, Taken DEF Types
  <1>2. /\ up = << >> /\ cart.hold = NoRid /\ Len(down) = 1 /\ Greets
        /\ Head(down).conn = spent.dials + 1
    BY <1>1 DEF HelloLast, Hello
  <1>3. Len(Tail(down)) = 0 /\ Tail(down) \in Seq(Replies)
    BY <1>1, <1>2, Taken
  <1>4. down' = << >>
    BY <1>1, <1>3, EmptySeq
  <1>5. cart'.unseen = FALSE
    BY <1>2 DEF HelloArrives, Types, TypeOK, Consoles
  <1> QED BY <1>1, <1>2, <1>4, <1>5

\* Without the HELLO, nothing on the path is one.
LEMMA HelloDropped ==
  ASSUME Types, LinkHolds, Greets, ~SlowHello, HelloStays
  PROVE  /\ \A i \in DOMAIN up' : ~Hello(up'[i]) /\ i \in DOMAIN up /\ up'[i] = up[i]
         /\ \A i \in DOMAIN down' : ~Hello(down'[i]) /\ i \in DOMAIN down /\ down'[i] = down[i]
  <1>1. up' = HelloGone(up) /\ down' = HelloGone(down) /\ up \in Seq(Requests) /\ down \in Seq(Replies)
    BY NumbersOf DEF HelloStays, Types
  <1>2. ASSUME NEW S, NEW q \in Seq(S), \A i \in DOMAIN q : Hello(q[i]) => i = Len(q)
        PROVE  \A i \in DOMAIN HelloGone(q) :
                  ~Hello(HelloGone(q)[i]) /\ i \in DOMAIN q /\ HelloGone(q)[i] = q[i]
    <2>1. CASE HelloGone(q) = q /\ (q = << >> \/ q[Len(q)].kind # "HELLO")
      <3>1. Len(q) \in Nat /\ DOMAIN q = 1 .. Len(q)
        BY LenProperties
      <3> QED BY <1>2, <2>1, <3>1 DEF Hello
    <2>2. CASE q # << >> /\ Len(HelloGone(q)) = Len(q) - 1
      <3>1. /\ Len(q) \in Nat /\ DOMAIN HelloGone(q) = 1 .. Len(q) - 1
            /\ \A i \in DOMAIN HelloGone(q) : i \in DOMAIN q /\ HelloGone(q)[i] = q[i]
        BY <2>2, Dropped
      <3>2. \A i \in DOMAIN HelloGone(q) : i # Len(q)
        BY <3>1
      <3> QED BY <1>2, <3>1, <3>2
    <2> QED BY <2>1, <2>2, Dropped
  <1>3. /\ \A i \in DOMAIN up : Hello(up[i]) => i = Len(up)
        /\ \A i \in DOMAIN down : Hello(down[i]) => i = Len(down)
    BY DEF LinkHolds, HelloLast
  <1> QED BY <1>1, <1>2, <1>3

LEMMA ConnectHolds ==
  ASSUME Types, LinkHolds, SentFits, Types', ~SlowHello,
         Dial \/ DialAnsweredWrite \/ DialAnsweredRead \/ DialFails \/ GreetAnswered \/ GreetFails
  PROVE  LinkHolds'
  <1> USE DEF Types
  <1>0. /\ op \in Ops /\ (op.kind = "write" => op.w \in Writes) /\ op.res \in Results
        /\ op.kind = "write" /\ op.res = "ok" => op.w \in landed
        /\ AckTruthful /\ t \in Links
        /\ t.rid \in Nat \ {0} /\ t.want < t.rid /\ op.sent < t.rid /\ t.rid \in Nat
    BY OpFields, NumbersOf DEF TypeOK, LinkHolds, WriteTold, OneLink
  <1>1. CASE Dial
    <2> DEFINE m == [kind |-> "HELLO", rid |-> NoRid, w |-> NoWrite, conn |-> spent.dials + 2]
    <2>1. /\ phase = "down" /\ phase' = "dial" /\ spent.dials < MaxDials
          /\ spent' = [spent EXCEPT !.dials = @ + 1] /\ up' = Append(up, m)
          /\ UNCHANGED <<op, t, missed, cache, down, cart, applied, landed, done, got>>
      BY <1>1 DEF Dial, Put
    <2>2. /\ \A i \in DOMAIN up : ~Hello(up[i]) /\ up[i].conn = t.conn /\ up[i].rid < t.rid
          /\ \A i \in DOMAIN down : ~Hello(down[i]) /\ down[i].conn = t.conn /\ down[i].rid < t.rid
      BY <2>1 DEF LinkHolds, HelloLast, OneLink, Greets
    <2>3. m \in Requests /\ m.kind = "HELLO" /\ m.conn = spent.dials + 2 /\ up \in Seq(Requests)
      BY <2>1, NumbersOf, BoundsAssumption DEF TypeOK, Uses, Requests, Rids, NoRid, Conns
    <2>4. spent'.dials + 1 = spent.dials + 2
      BY <2>1, NumbersOf DEF TypeOK, Uses
    <2> HIDE DEF m
    <2>5. \A i \in DOMAIN up' :
             \/ i \in DOMAIN up /\ up'[i] = up[i]
             \/ i = Len(up') /\ Hello(up'[i]) /\ up'[i].conn = spent'.dials + 1
      BY <2>1, <2>3, <2>4, Appended DEF Hello
    <2>6. HelloLast'
      BY <2>1, <2>2, <2>5 DEF HelloLast, Greets, Hello
    <2>7. OneLink'
      BY <2>1, <2>2, <2>5 DEF OneLink, LinkHolds, Hello
    <2>8. WriteTold'
      BY <1>0, <2>1 DEF WriteTold, WriteUnderway, AckTruthful
    <2> QED BY <2>6, <2>7, <2>8 DEF LinkHolds
  <1>2. ASSUME HelloArrives, t' = Greeting, up' = up, landed' = landed, phase' \in {"idle", "down"},
               op'.sent = NoRid, op'.kind # "write", AckTruthful'
        PROVE  LinkHolds'
    <2>1. up' = << >> /\ down' = << >> /\ cart'.hold = NoRid
      BY <1>2, Heard DEF LinkHolds
    <2>2. t'.rid = 1 /\ t'.want = NoRid
      BY <1>2, HelloArrivesTypes
    <2>3. HelloLast' /\ OneLink'
      BY <1>2, <2>1, <2>2 DEF HelloLast, OneLink, NoRid
    <2> QED BY <1>2, <2>3 DEF LinkHolds, WriteTold, WriteUnderway
  <1>3. CASE DialAnsweredWrite
    <2>1. /\ HelloArrives /\ t' = Greeting /\ UNCHANGED <<up, applied, landed, spent>>
      BY <1>3 DEF DialAnsweredWrite
    <2>2. PICK r \in {"restarted", "failed"} : Return(op, EmptyCache, r)
      BY <1>3 DEF DialAnsweredWrite
    <2>3. phase' = "idle" /\ op'.kind = "none" /\ op'.sent = NoRid /\ AckTruthful'
      BY <1>0, <2>1, <2>2, ReturnTold
    <2> QED BY <1>2, <2>1, <2>3
  <1>4. CASE DialAnsweredRead
    <2>1. /\ HelloArrives /\ phase = "dial" /\ op.kind # "write"
          /\ UNCHANGED <<applied, landed, spent>>
      BY <1>4 DEF DialAnsweredRead
    <2>2. CASE Return(op, EmptyCache, "failed") /\ t' = Greeting /\ UNCHANGED up
      <3>1. phase' = "idle" /\ op'.kind = "none" /\ op'.sent = NoRid /\ AckTruthful'
        BY <1>0, <2>1, <2>2, ReturnTold
      <3> QED BY <1>2, <2>1, <2>2, <3>1
    <2>3. op' = [op EXCEPT !.moved = TRUE] => op'.kind = op.kind /\ op'.sent = NoRid
      BY <1>0, <2>1, OpMoved DEF SentFits
    <2>4. CASE /\ phase' = "down" /\ op' = [op EXCEPT !.moved = TRUE]
               /\ t' = Greeting /\ UNCHANGED <<up, done, got>>
      <3>1. AckTruthful'
        BY <1>0, <2>1, <2>4 DEF AckTruthful
      <3> QED BY <1>2, <2>1, <2>3, <2>4, <3>1
    <2> DEFINE m == [kind |-> Wire(op.kind), rid |-> 1, w |-> NoWrite, conn |-> spent.dials + 1]
    <2>5. CASE /\ phase' = "again" /\ op' = [op EXCEPT !.moved = TRUE]
               /\ t' = [Greeting EXCEPT !.rid = 2, !.want = 1, !.copied = TRUE]
               /\ Put(m) /\ UNCHANGED <<done, got>>
      <3>1. /\ up = << >> /\ down' = << >> /\ cart'.hold = NoRid
        BY <2>1, Heard DEF LinkHolds
      <3>2. Greeting \in Links /\ Greeting.conn = spent.dials + 1
        BY <2>1, HelloArrivesTypes
      <3>3. t'.rid = 2 /\ t'.want = 1 /\ t'.conn = spent.dials + 1
        <4> DEFINE g == Greeting
        <4>1. g \in Links /\ t' = [g EXCEPT !.rid = 2, !.want = 1, !.copied = TRUE]
              /\ g.conn = spent.dials + 1
          BY <2>5, <3>2
        <4> HIDE DEF g
        <4> QED BY <4>1 DEF Links
      <3>4. m.kind # "HELLO" /\ m.rid = 1 /\ m.conn = spent.dials + 1 /\ up' = Append(up, m)
        BY <2>5 DEF Wire, Put
      <3> HIDE DEF m
      <3>5. \A i \in DOMAIN up' : up'[i] = m
        BY <3>1, <3>4
      <3>6. HelloLast' /\ OneLink'
        BY <2>3, <2>5, <3>1, <3>3, <3>4, <3>5 DEF HelloLast, OneLink, Hello, NoRid
      <3>7. WriteTold'
        BY <1>0, <2>1, <2>3, <2>5 DEF WriteTold, WriteUnderway, AckTruthful
      <3> QED BY <3>6, <3>7 DEF LinkHolds
    <2> QED BY <1>4, <2>2, <2>4, <2>5 DEF DialAnsweredRead
  <1>5. CASE DialFails
    <2>1. /\ phase = "dial" /\ phase' = "down" /\ HelloStays /\ cart'.hold = cart.hold
          /\ UNCHANGED <<op, t, missed, cache, applied, landed, done, got, spent>>
      BY <1>5, SilentConsole DEF DialFails
    <2>2. HelloLast' /\ OneLink'
      BY <2>1, HelloDropped DEF HelloLast, OneLink, LinkHolds, Greets
    <2> QED BY <1>0, <2>1, <2>2 DEF LinkHolds, WriteTold, WriteUnderway, AckTruthful
  <1>6. ASSUME NEW link, Greeted(link), landed' = landed
        PROVE  t' = link /\ phase' = "idle" /\ op'.kind = "none" /\ op'.sent = NoRid /\ AckTruthful'
    <2> DEFINE o == [op EXCEPT !.moved = TRUE]
    <2>1. t' = link /\ Return(o, EmptyCache, op.res)
      BY <1>6 DEF Greeted
    <2>2. o.kind = op.kind /\ o.w = op.w
      BY <1>0, OpMoved
    <2> HIDE DEF o
    <2> QED BY <1>0, <1>6, <2>1, <2>2, ReturnTold
  <1>7. CASE GreetAnswered
    BY <1>2, <1>6, <1>7 DEF GreetAnswered
  <1>8. CASE GreetFails
    <2>1. /\ phase = "greet" /\ Greeted([t EXCEPT !.once = FALSE]) /\ HelloStays
          /\ cart'.hold = cart.hold /\ UNCHANGED <<applied, landed, spent>>
      BY <1>8, SilentConsole DEF GreetFails
    <2>2. t' = [t EXCEPT !.once = FALSE] /\ phase' = "idle" /\ op'.kind = "none" /\ op'.sent = NoRid
          /\ AckTruthful'
      BY <1>6, <2>1
    <2>3. t'.conn = t.conn /\ t'.rid = t.rid /\ t'.want = t.want
      BY <1>0, <2>2 DEF Links
    <2>4. HelloLast' /\ OneLink'
      BY <1>0, <2>1, <2>2, <2>3, HelloDropped DEF HelloLast, OneLink, LinkHolds, Greets, NoRid
    <2> QED BY <2>2, <2>4 DEF LinkHolds, WriteTold, WriteUnderway
  <1> QED BY <1>1, <1>3, <1>4, <1>5, <1>7, <1>8

-----------------------------------------------------------------------------
(* The path and the console.                                               *)

\* What the console and the path leave alone.
HostStill == UNCHANGED <<phase, op, t, done>> /\ spent'.dials = spent.dials

\* The path may only lose what is at its front.
LEMMA Forgotten ==
  ASSUME Types, LinkHolds, HostStill, landed' = landed, cart'.hold \in {cart.hold, NoRid},
         \/ up' = up
         \/ up # << >> /\ up' = Tail(up),
         \/ down' = down
         \/ down # << >> /\ down' = Tail(down)
  PROVE  LinkHolds'
  <1> USE DEF Types, LinkHolds
  <1>0. up \in Seq(Requests) /\ down \in Seq(Replies) /\ t.rid \in Nat \ {0} /\ cart.hold \in Nat
    BY NumbersOf
  <1>1. /\ \A i \in DOMAIN up' : \E j \in DOMAIN up : up'[i] = up[j] /\ (j = Len(up) => i = Len(up'))
        /\ up = << >> => up' = << >>
    <2>1. CASE up # << >> /\ up' = Tail(up)
      <3>1. /\ Len(up') = Len(up) - 1 /\ Len(up) \in Nat /\ DOMAIN up' = 1 .. Len(up) - 1
            /\ \A i \in DOMAIN up' : up'[i] = up[i + 1] /\ i + 1 \in DOMAIN up
        BY <1>0, <2>1, Taken
      <3>2. \A i \in DOMAIN up' : i + 1 = Len(up) => i = Len(up')
        BY <3>1
      <3> QED BY <2>1, <3>1, <3>2
    <2>2. CASE up' = up
      BY <2>2
    <2> QED BY <2>1, <2>2
  <1>2. \A i \in DOMAIN down' : \E j \in DOMAIN down : down'[i] = down[j] /\ (j = Len(down) => i = Len(down'))
    <2>1. CASE down # << >> /\ down' = Tail(down)
      <3>1. /\ Len(down') = Len(down) - 1 /\ Len(down) \in Nat /\ DOMAIN down' = 1 .. Len(down) - 1
            /\ \A i \in DOMAIN down' : down'[i] = down[i + 1] /\ i + 1 \in DOMAIN down
        BY <1>0, <2>1, Taken
      <3>2. \A i \in DOMAIN down' : i + 1 = Len(down) => i = Len(down')
        BY <3>1
      <3> QED BY <3>1, <3>2
    <2>2. CASE down' = down
      BY <2>2
    <2> QED BY <2>1, <2>2
  <1>3. HelloLast'
    BY <1>1, <1>2 DEF HelloLast, HostStill, Greets
  <1>4. OneLink'
    BY <1>0, <1>1, <1>2 DEF OneLink, HostStill, NoRid
  <1>5. WriteTold'
    <2>1. ASSUME WriteUnderway PROVE RidIsWrites'
      BY <1>1, <1>2, <2>1 DEF WriteTold, RidIsWrites, HostStill
    <2> QED BY <2>1 DEF WriteTold, WriteUnderway, HostStill, AckTruthful
  <1> QED BY <1>3, <1>4, <1>5

\* The agent answers what it serves, under its rid and on its link.
LEMMA Served ==
  ASSUME Types, LinkHolds, HostStill, up # << >>, NEW kind \in {"HELLO", "POKE", "ROM", "PEEK", "BUSY", "ERR"},
         Reply(kind), kind = "HELLO" <=> Hello(Head(up)),
         landed \subseteq landed',
         kind = "POKE" => /\ Head(up).kind = "POKE"
                          /\ Head(up).w \in landed' \/ (Head(up).rid = cart.hold /\ cart'.hold = cart.hold),
         \/ cart'.hold = NoRid
         \/ /\ kind = "POKE" /\ cart'.hold = Head(up).rid
  PROVE  LinkHolds'
  <1> DEFINE r == [kind |-> kind, rid |-> Head(up).rid, conn |-> Head(up).conn, img |-> cart.image]
  <1> USE DEF Types, LinkHolds
  <1>0. up \in Seq(Requests) /\ down \in Seq(Replies) /\ t.rid \in Nat \ {0} /\ cart.hold \in Nat
        /\ Head(up) = up[1] /\ 1 \in DOMAIN up /\ Head(up) \in Requests
    BY NumbersOf, Taken
  <1>1. /\ Len(up') = Len(up) - 1 /\ Len(up) \in Nat /\ DOMAIN up' = 1 .. Len(up) - 1
        /\ \A i \in DOMAIN up' : up'[i] = up[i + 1] /\ i + 1 \in DOMAIN up
        /\ \A i \in DOMAIN up' : i + 1 = Len(up) => i = Len(up')
        /\ Len(up) = 1 => up' = << >>
        /\ up' \in Seq(Requests)
    <2>1. up' = Tail(up)
      BY DEF Reply
    <2>2. /\ Len(up') = Len(up) - 1 /\ Len(up) \in Nat /\ DOMAIN up' = 1 .. Len(up) - 1
          /\ \A i \in DOMAIN up' : up'[i] = up[i + 1] /\ i + 1 \in DOMAIN up
          /\ up' \in Seq(Requests)
      BY <1>0, <2>1, Taken
    <2>3. Len(up) = 1 => up' = << >>
      BY <2>2, EmptySeq
    <2> QED BY <2>2, <2>3
  <1>2. \A i \in DOMAIN down' : (i \in DOMAIN down /\ down'[i] = down[i]) \/ (down'[i] = r /\ i = Len(down'))
    <2>1. r \in Replies /\ down' = Append(down, r)
      BY <1>0 DEF Reply, TypeOK, Consoles, Requests, Replies
    <2> HIDE DEF r
    <2> QED BY <1>0, <2>1, Appended
  <1>3. /\ \A i \in DOMAIN up   : Hello(up[i]) => Greets /\ i = Len(up) /\ up[i].conn = spent.dials + 1
        /\ \A i \in DOMAIN up   : ~Hello(up[i])   => up[i].conn = t.conn /\ up[i].rid < t.rid
        /\ \A i \in DOMAIN down : ~Hello(down[i]) /\ down[i].conn = t.conn /\ down[i].rid < t.rid
    BY DEF HelloLast, OneLink
  <1>4. Hello(r) <=> Hello(Head(up))
    BY DEF Hello
  <1>5. Hello(Head(up)) => Greets /\ up' = << >> /\ cart'.hold = NoRid /\ r.conn = spent.dials + 1
    BY <1>0, <1>1, <1>3 DEF Hello
  <1>6. ~Hello(Head(up)) => r.conn = t.conn /\ r.rid < t.rid
    BY <1>0, <1>3
  <1>7. r.kind = kind /\ r.rid = Head(up).rid
    OBVIOUS
  <1> HIDE DEF r
  <1>8. HelloLast'
    BY <1>1, <1>2, <1>3, <1>4, <1>5 DEF HelloLast, HostStill, Greets
  <1>9. OneLink'
    <2>1. cart'.hold < t.rid
      BY <1>0, <1>3, <1>4, <1>6, <1>7 DEF NoRid, Hello
    <2> QED BY <1>1, <1>2, <1>3, <1>4, <1>6, <2>1 DEF HostStill, OneLink
  <1>10. WriteTold'
    <2>1. ASSUME WriteUnderway PROVE RidIsWrites'
      <3>1. RidIsWrites
        BY <2>1 DEF WriteTold
      <3>2. kind = "POKE" /\ Head(up).rid = op.sent => op.w \in landed'
        BY <1>0, <3>1 DEF RidIsWrites
      <3>3. \A i \in DOMAIN down' : down'[i].kind = "POKE" /\ down'[i].rid = op.sent => op.w \in landed'
        BY <1>2, <1>7, <3>1, <3>2 DEF RidIsWrites
      <3>4. cart'.hold = op.sent => op.w \in landed'
        BY <3>1, <3>2 DEF RidIsWrites
      <3> QED BY <1>1, <3>1, <3>3, <3>4 DEF RidIsWrites, HostStill
    <2> QED BY <2>1 DEF WriteTold, WriteUnderway, HostStill, AckTruthful
  <1> QED BY <1>8, <1>9, <1>10

LEMMA ConsoleHolds == ASSUME Types, LinkHolds, PassOver \/ Lose \/ Console PROVE LinkHolds'
  <1>1. CASE PassOver
    BY <1>1, Forgotten, Zenon DEF PassOver, HostStill
  <1>2. CASE Lose
    BY <1>2, Forgotten DEF Lose, HostStill
  <1>3. CASE ServeCopy
    <2>1. /\ up # << >> /\ Head(up).kind = "POKE" /\ Head(up).rid = cart.hold /\ Reply("POKE")
          /\ HostStill /\ UNCHANGED <<cart, landed>>
      BY <1>3 DEF ServeCopy, Serving, Held, HostStill
    <2> QED BY <2>1, Served DEF Hello
  <1>4. CASE ServePoke
    <2>1. up # << >> /\ Head(up).kind = "POKE" /\ HostStill /\ Head(up) \in Requests /\ cart \in Consoles
      BY <1>4, TakeTypes DEF ServePoke, Serving, HostStill, Types, TypeOK
    <2>2. CASE /\ landed' = landed \cup {Head(up).w}
               /\ Hold(IF cart.image \in Recognizes THEN Head(up).rid ELSE NoRid)
               /\ Reply("POKE")
      <3>1. cart'.hold \in {NoRid, Head(up).rid}
        BY <2>1, <2>2 DEF Hold, Consoles
      <3> QED BY <2>1, <2>2, <3>1, Served DEF Hello
    <2>3. CASE Hold(NoRid) /\ Reply("ERR") /\ UNCHANGED <<applied, landed>>
      <3>1. cart'.hold = NoRid
        BY <2>1, <2>3 DEF Hold, Consoles
      <3> QED BY <2>1, <2>3, <3>1, Served DEF Hello
    <2> QED BY <1>4, <2>2, <2>3 DEF ServePoke
  <1>5. CASE ServeOther
    <2>1. /\ up # << >> /\ Hold(NoRid) /\ Head(up).kind \in {"HELLO", "PEEK", "ROM"}
          /\ UNCHANGED <<phase, op, t, done, landed>> /\ cart \in Consoles /\ spent \in Uses
      BY <1>5 DEF ServeOther, Serving, Types, TypeOK
    <2>2. cart'.hold = NoRid
      BY <2>1 DEF Hold, Consoles
    <2>3. spent'.dials = spent.dials
      BY <1>5, <2>1 DEF ServeOther, Uses
    <2>4. PICK kind \in {"HELLO", "PEEK", "ROM", "BUSY", "ERR"} :
             Reply(kind) /\ (kind = "HELLO" <=> Hello(Head(up)))
      BY <1>5, <2>1 DEF ServeOther, Hello
    <2> QED BY <2>1, <2>2, <2>3, <2>4, Served DEF HostStill
  <1>6. CASE Boot
    BY <1>6, Forgotten DEF Boot, HostStill, Types, TypeOK, Consoles
  <1>7. ASSUME NEW img \in Images, Reset(img)
        PROVE  LinkHolds'
    <2>1. /\ cart'.hold = NoRid /\ UNCHANGED <<phase, op, t, up, down, landed, done>>
          /\ spent' = [spent EXCEPT !.resets = @ + 1] /\ spent \in Uses
      BY <1>7 DEF Reset, Types, TypeOK
    <2>2. spent'.dials = spent.dials
      BY <2>1 DEF Uses
    <2> QED BY <2>1, <2>2, Forgotten DEF HostStill
  <1> QED BY <1>1, <1>2, <1>3, <1>4, <1>5, <1>6, <1>7 DEF Console

LEMMA InitLink == Init => LinkHolds /\ SentFits
  <1> SUFFICES ASSUME Init PROVE LinkHolds /\ SentFits
    OBVIOUS
  <1>1. /\ up = << >> /\ down = << >> /\ DOMAIN up = {} /\ DOMAIN down = {}
        /\ op = NoOp /\ phase = "idle" /\ cart.hold = NoRid
        /\ \A w \in Writes : done[w] = "none"
    BY DEF Init
  <1>2. op.kind = "none" /\ op.sent = NoRid
    BY <1>1 DEF NoOp
  <1>3. t.rid = 1 /\ t.want = NoRid
    BY DEF Init, NewLink
  <1> QED BY <1>1, <1>2, <1>3
          DEF LinkHolds, SentFits, HelloLast, OneLink, WriteTold, WriteUnderway, AckTruthful, NoRid

LEMMA StepLink ==
  ASSUME Types, LinkHolds, SentFits, Types', ~SlowHello, [Next]_vars
  PROVE  LinkHolds'
  <1>1. CASE UNCHANGED vars
    BY <1>1, Forgotten DEF vars, HostStill
  <1>2. CASE Next
    BY <1>2, CallerHolds, AnswerHolds, SilenceHolds, ConnectHolds, ConsoleHolds DEF Next, Host
  <1> QED BY <1>1, <1>2

LEMMA LinkDrains == Types /\ LinkHolds => HelloDrains
  BY DEF LinkHolds, HelloLast, OneLink, HelloDrains, Waiting, Greets, Hello

\* When a HELLO is answered within its connect, a link once greeted hears nothing of the links
\* before it: what they sent was served, and their late replies dropped, before its HELLO was
\* (transport.rs `connect`, Want::Hello).
THEOREM LinkHearsItsOwn == ~SlowHello /\ Spec => []HelloDrains
  <1> SUFFICES ASSUME ~SlowHello PROVE Spec => []HelloDrains
    OBVIOUS
  <1> DEFINE IInv == Types /\ LinkHolds /\ SentFits
  <1>1. Init => IInv
    BY InitTypes, InitLink
  <1>2. IInv /\ [Next]_vars => IInv'
    BY StepTypes, StepLink, StepSent
  <1>3. IInv => HelloDrains
    BY LinkDrains
  <1> QED BY <1>1, <1>2, <1>3, PTL DEF Spec

\* When a HELLO is answered within its connect, a write reported written was applied: what
\* write_many takes for its acknowledgment is the agent's answer to it or to a copy of it.
THEOREM WrittenWasApplied == ~SlowHello /\ Spec => []AckTruthful
  <1> SUFFICES ASSUME ~SlowHello PROVE Spec => []AckTruthful
    OBVIOUS
  <1> DEFINE IInv == Types /\ LinkHolds /\ SentFits
  <1>1. Init => IInv
    BY InitTypes, InitLink
  <1>2. IInv /\ [Next]_vars => IInv'
    BY StepTypes, StepLink, StepSent
  <1>3. IInv => AckTruthful
    BY DEF LinkHolds, WriteTold
  <1> QED BY <1>1, <1>2, <1>3, PTL DEF Spec


-----------------------------------------------------------------------------
(* A write is applied once: without the ROM header cached, a POKEV and its *)
(* copies are next to each other on their way, so that nothing the agent   *)
(* serves between them ends its hold.                                      *)

Copy(i, w) == i \in DOMAIN up /\ up[i].kind = "POKE" /\ up[i].w = w

Unsent == \A w \in Writes : done[w] = "none" => applied[w] = 0 /\ \A i \in DOMAIN up : ~Copy(i, w)

OneRun ==
  \A w \in Writes : \A i, k \in DOMAIN up : Copy(i, w) /\ Copy(k, w) =>
    up[i].rid = up[k].rid /\ \A j \in i .. k : Copy(j, w)

\* Once a write is applied, a copy of it on its way is next, and is one the agent recognizes.
Recognized ==
  \A w \in Writes : applied[w] # 0 => \A i \in DOMAIN up : Copy(i, w) =>
    Copy(1, w) /\ cart.hold = up[i].rid /\ cart.image \in Recognizes

\* The write that waits may be copied: the copy goes behind one of its own, or to an agent that
\* holds it, or after a write that was never applied.
NextCopy ==
  op.kind = "write" /\ phase = "await" =>
    /\ t.want = op.sent /\ done[op.w] # "none"
    /\ ~t.once => t.copied
    /\ t.once =>
       /\ up = << >> /\ applied[op.w] # 0 => cart.hold = op.sent /\ cart.image \in Recognizes
       /\ up # << >> => Copy(Len(up), op.w) /\ up[Len(up)].rid = op.sent

NoHeader == phase \notin {"check", "recheck", "greet"}

Copies == Unsent /\ OneRun /\ Recognized /\ AtMostOnce

AppliesOnce == Copies /\ NextCopy /\ NoHeader


\* What a step leaves of the console and of what the caller was told.
SameCart == applied' = applied /\ cart'.hold = cart.hold /\ cart'.image = cart.image
Told     == \A w \in Writes : done'[w] = "none" => done[w] = "none"

LEMMA CopiesStay ==
  ASSUME Copies, SameCart, Told, up' = up
  PROVE  Copies'
  BY DEF Copies, SameCart, Told, Unsent, OneRun, Recognized, AtMostOnce, Copy

LEMMA CopiesBehind ==
  ASSUME Types, Copies, SameCart, Told, NEW m \in Requests, up' = Append(up, m), m.kind # "POKE"
  PROVE  Copies'
  <1>1. /\ DOMAIN up' = 1 .. Len(up) + 1 /\ Len(up) \in Nat /\ DOMAIN up = 1 .. Len(up)
        /\ \A i \in DOMAIN up : up'[i] = up[i] /\ i # Len(up) + 1
        /\ up'[Len(up) + 1] = m
        /\ \A i \in DOMAIN up' : i \in DOMAIN up \/ i = Len(up) + 1
    BY NumbersOf, Appended DEF Types
  <1>2. \A i, w : Copy(i, w)' <=> Copy(i, w)
    BY <1>1 DEF Copy
  <1>3. /\ \A i, w : Copy(i, w) => i \in DOMAIN up' /\ i \in DOMAIN up /\ up'[i].rid = up[i].rid
        /\ \A i, w : Copy(i, w)' => i \in DOMAIN up
    BY <1>1, <1>2 DEF Copy
  <1>4. Unsent'
    BY <1>2, <1>3 DEF Copies, Unsent, SameCart, Told
  <1>5. OneRun'
    BY <1>2, <1>3 DEF Copies, OneRun
  <1>6. Recognized'
    BY <1>2, <1>3 DEF Copies, Recognized, SameCart
  <1> QED BY <1>4, <1>5, <1>6 DEF Copies, AtMostOnce, SameCart

\* Where a write, or one more copy of it, may go.
Fits(m) ==
  \/ applied[m.w] = 0 /\ \A i \in DOMAIN up : ~Copy(i, m.w)
  \/ /\ up = << >> /\ applied[m.w] # 0 => cart.hold = m.rid /\ cart.image \in Recognizes
     /\ up # << >> => Copy(Len(up), m.w) /\ up[Len(up)].rid = m.rid

LEMMA CopiesAgain ==
  ASSUME Types, Copies, SameCart, Told, NEW m \in Requests, up' = Append(up, m),
         m.kind = "POKE", m.w \in Writes, done'[m.w] # "none", Fits(m)
  PROVE  Copies'
  <1> DEFINE n == Len(up) + 1
  <1>1. /\ DOMAIN up' = 1 .. n /\ Len(up) \in Nat /\ DOMAIN up = 1 .. Len(up)
        /\ \A i \in DOMAIN up : up'[i] = up[i] /\ i # n
        /\ up'[n] = m
        /\ \A i \in DOMAIN up' : i \in DOMAIN up \/ i = n
        /\ up = << >> => Len(up) = 0
    BY NumbersOf, Appended, EmptySeq DEF Types
  <1>2. \A i, w : Copy(i, w)' <=> Copy(i, w) \/ (i = n /\ w = m.w)
    BY <1>1 DEF Copy
  <1>3. \A i, w : Copy(i, w) => /\ i \in DOMAIN up' /\ i \in DOMAIN up /\ i # n
                               /\ i \in 1 .. Len(up) /\ up'[i].rid = up[i].rid
    BY <1>1 DEF Copy
  <1>4. /\ up # << >> => Len(up) \in DOMAIN up /\ Len(up) # 0
        /\ n \in DOMAIN up' /\ up'[n].rid = m.rid
    BY <1>1, NumbersOf, EmptySeq DEF Types
  <1> HIDE DEF n
  <1>5. Unsent'
    BY <1>2, <1>3 DEF Copies, Unsent, SameCart, Told
  <1>6. \A i \in DOMAIN up : Copy(i, m.w) => up # << >> /\ Copy(Len(up), m.w) /\ up[Len(up)].rid = m.rid
    BY <1>1, <1>3 DEF Fits
  <1>7. OneRun'
    <2> SUFFICES ASSUME NEW w \in Writes, NEW i \in DOMAIN up', NEW k \in DOMAIN up',
                        Copy(i, w)', Copy(k, w)'
                 PROVE  up'[i].rid = up'[k].rid /\ \A j \in i .. k : Copy(j, w)'
      BY DEF OneRun
    <2>1. CASE Copy(i, w) /\ Copy(k, w)
      BY <1>2, <1>3, <2>1 DEF Copies, OneRun
    <2>2. CASE i = n /\ w = m.w /\ k = n
      BY <1>1, <1>2, <2>2 DEF n
    <2>3. CASE Copy(i, w) /\ k = n /\ w = m.w
      <3>1. Copy(Len(up), w) /\ up[Len(up)].rid = m.rid /\ i \in DOMAIN up /\ Len(up) \in DOMAIN up
        BY <1>3, <1>4, <1>6, <2>3
      <3>2. up[i].rid = m.rid /\ \A j \in i .. Len(up) : Copy(j, w)
        BY <2>3, <3>1 DEF Copies, OneRun
      <3>3. \A j \in i .. n : j \in i .. Len(up) \/ j = n
        BY <1>1, <3>1 DEF n
      <3> QED BY <1>2, <1>3, <1>4, <2>3, <3>2, <3>3
    <2>4. CASE i = n /\ w = m.w /\ Copy(k, w)
      <3>1. Copy(Len(up), w) /\ up[Len(up)].rid = m.rid /\ k \in DOMAIN up /\ Len(up) \in DOMAIN up
        BY <1>3, <1>4, <1>6, <2>4
      <3>2. up[k].rid = m.rid
        BY <2>4, <3>1 DEF Copies, OneRun
      <3>3. i .. k = {}
        BY <1>1, <2>4, <3>1 DEF n
      <3> QED BY <1>3, <1>4, <2>4, <3>2, <3>3
    <2> QED BY <1>2, <2>1, <2>2, <2>3, <2>4
  <1>8. Recognized'
    <2> SUFFICES ASSUME NEW w \in Writes, applied[w] # 0, NEW i \in DOMAIN up', Copy(i, w)'
                 PROVE  Copy(1, w)' /\ cart.hold = up'[i].rid /\ cart.image \in Recognizes
      BY DEF Recognized, SameCart
    <2>1. CASE Copy(i, w)
      BY <1>2, <1>3, <2>1 DEF Copies, Recognized
    <2>2. CASE i = n /\ w = m.w
      <3>1. CASE up = << >>
        <4>1. applied[m.w] # 0 /\ ~(\E j \in DOMAIN up : Copy(j, m.w))
          BY <1>1, <2>2, <3>1
        <4>2. cart.hold = m.rid /\ cart.image \in Recognizes /\ n = 1
          BY <1>1, <2>2, <3>1 DEF Fits, n
        <4> QED BY <1>2, <1>4, <2>2, <4>2
      <3>2. CASE up # << >>
        <4>1. Copy(Len(up), m.w) /\ up[Len(up)].rid = m.rid /\ Len(up) \in DOMAIN up
          BY <1>4, <2>2, <3>2 DEF Fits
        <4>2. Copy(1, w) /\ cart.hold = m.rid /\ cart.image \in Recognizes
          BY <2>2, <4>1 DEF Copies, Recognized
        <4> QED BY <1>2, <1>4, <2>2, <4>2
      <3> QED BY <3>1, <3>2
    <2> QED BY <1>2, <2>1, <2>2
  <1> QED BY <1>5, <1>7, <1>8 DEF Copies, AtMostOnce, SameCart

\* A HELLO taken from the end of the path is no write.
LEMMA CopiesHelloGone ==
  ASSUME Types, Copies, SameCart, Told, up' = HelloGone(up)
  PROVE  Copies'
  <1>1. CASE up' = up
    BY <1>1, CopiesStay
  <1>2. CASE up' # up
    <2>1. /\ Len(up) \in Nat /\ DOMAIN up = 1 .. Len(up) /\ up # << >> /\ Len(up') = Len(up) - 1
          /\ DOMAIN up' = 1 .. Len(up')
          /\ \A i \in DOMAIN up' : i \in DOMAIN up /\ up'[i] = up[i]
      BY <1>2, NumbersOf, Dropped DEF Types
    <2>2. up[Len(up)].kind = "HELLO"
      BY <1>2 DEF HelloGone
    <2>3. \A i, w : Copy(i, w)' <=> Copy(i, w)
      <3>1. \A i \in DOMAIN up : i \in DOMAIN up' \/ i = Len(up)
        BY <2>1
      <3> QED BY <2>1, <2>2, <3>1 DEF Copy
    <2>4. \A i \in DOMAIN up' : i \in DOMAIN up /\ up'[i].rid = up[i].rid
      BY <2>1
    <2>5. Unsent'
      BY <2>3, <2>4 DEF Copies, Unsent, SameCart, Told
    <2>6. OneRun'
      BY <2>3, <2>4 DEF Copies, OneRun
    <2>7. Recognized'
      BY <2>3, <2>4 DEF Copies, Recognized, SameCart
    <2> QED BY <2>5, <2>6, <2>7 DEF Copies, AtMostOnce, SameCart
  <1> QED BY <1>1, <1>2


\* What is behind the copy at the front is another of it, or none is left.
LEMMA NextInRun ==
  ASSUME Types, OneRun, up # << >>, up' = Tail(up)
  PROVE  /\ OneRun' /\ 1 \in DOMAIN up /\ Head(up) = up[1]
         /\ \A i \in DOMAIN up', w \in Writes : Copy(i, w)' =>
               \E k \in DOMAIN up : Copy(k, w) /\ up'[i].rid = up[k].rid
         /\ \A i \in DOMAIN up', w \in Writes : Copy(i, w)' /\ Copy(1, w) => Copy(1, w)'
  <1>1. /\ Head(up) = up[1] /\ 1 \in DOMAIN up
        /\ Len(up) \in Nat /\ DOMAIN up = 1 .. Len(up) /\ DOMAIN up' = 1 .. Len(up) - 1
        /\ \A i \in DOMAIN up' : up'[i] = up[i + 1] /\ i + 1 \in DOMAIN up
    BY NumbersOf, Taken DEF Types
  <1>2. \A i, w : Copy(i, w)' => i \in DOMAIN up' /\ Copy(i + 1, w) /\ i + 1 \in DOMAIN up /\ up'[i].rid = up[i + 1].rid
    BY <1>1 DEF Copy
  <1>3. \A i \in DOMAIN up', w \in Writes : Copy(i, w)' =>
           \E k \in DOMAIN up : Copy(k, w) /\ up'[i].rid = up[k].rid
    BY <1>2
  <1>4. \A w : \A i \in DOMAIN up' : Copy(i + 1, w) => Copy(i, w)'
    BY <1>1 DEF Copy
  <1>5. OneRun'
    <2> SUFFICES ASSUME NEW w \in Writes, NEW i \in DOMAIN up', NEW k \in DOMAIN up',
                        Copy(i, w)', Copy(k, w)'
                 PROVE  up'[i].rid = up'[k].rid /\ \A j \in i .. k : Copy(j, w)'
      BY DEF OneRun
    <2>1. up[i + 1].rid = up[k + 1].rid /\ \A j \in i + 1 .. k + 1 : Copy(j, w)
      BY <1>2 DEF OneRun
    <2>2. \A j \in i .. k : j \in DOMAIN up' /\ j + 1 \in i + 1 .. k + 1
      BY <1>1
    <2> QED BY <1>2, <1>4, <2>1, <2>2
  <1>6. ASSUME NEW i \in DOMAIN up', NEW w \in Writes, Copy(i, w)', Copy(1, w)
        PROVE  Copy(1, w)'
    <2>1. \A j \in 1 .. i + 1 : Copy(j, w)
      BY <1>1, <1>2, <1>6 DEF OneRun
    <2>2. 2 \in 1 .. i + 1 /\ 1 \in DOMAIN up' /\ 1 + 1 = 2
      BY <1>1
    <2> QED BY <1>4, <2>1, <2>2
  <1> QED BY <1>1, <1>3, <1>5, <1>6

\* The front of the path is lost, or is a copy the agent knows.
LEMMA CopiesPass ==
  ASSUME Types, Copies, SameCart, Told, up # << >>, up' = Tail(up)
  PROVE  Copies'
  <1>1. Unsent'
    BY NextInRun DEF Copies, Unsent, SameCart, Told
  <1>2. Recognized'
    <2> SUFFICES ASSUME NEW w \in Writes, applied[w] # 0, NEW i \in DOMAIN up', Copy(i, w)'
                 PROVE  Copy(1, w)' /\ cart.hold = up'[i].rid /\ cart.image \in Recognizes
      BY DEF Recognized, SameCart
    <2>1. PICK k \in DOMAIN up : Copy(k, w) /\ up'[i].rid = up[k].rid
      BY NextInRun DEF Copies
    <2>2. Copy(1, w) /\ cart.hold = up[k].rid /\ cart.image \in Recognizes
      BY <2>1 DEF Copies, Recognized
    <2> QED BY <2>1, <2>2, NextInRun DEF Copies
  <1> QED BY <1>1, <1>2, NextInRun DEF Copies, AtMostOnce, SameCart

\* A served request which is no copy ends the hold: no write applied has a copy behind it.
LEMMA CopiesServed ==
  ASSUME Types, Copies, Told, up # << >>, up' = Tail(up), applied' = applied,
         \A w \in Writes : Copy(1, w) => applied[w] = 0
  PROVE  Copies'
  <1>1. Unsent'
    BY NextInRun DEF Copies, Unsent, Told
  <1>2. Recognized'
    <2> SUFFICES ASSUME NEW w \in Writes, applied[w] # 0, NEW i \in DOMAIN up', Copy(i, w)'
                 PROVE  FALSE
      BY DEF Recognized
    <2>1. PICK k \in DOMAIN up : Copy(k, w) /\ up'[i].rid = up[k].rid
      BY NextInRun DEF Copies
    <2>2. Copy(1, w)
      BY <2>1 DEF Copies, Recognized
    <2> QED BY <2>2
  <1> QED BY <1>1, <1>2, NextInRun DEF Copies, AtMostOnce

\* The first of a write's copies is applied, and held.
LEMMA CopiesApplied ==
  ASSUME Types, Copies, UNCHANGED done, up # << >>, up' = Tail(up), NEW w \in Writes, Copy(1, w),
         applied[w] = 0, applied' = [applied EXCEPT ![w] = @ + 1],
         cart'.hold = Head(up).rid, cart'.image = cart.image, cart.image \in Recognizes
  PROVE  Copies'
  <1>1. \A v \in Writes : applied'[v] = IF v = w THEN 1 ELSE applied[v]
    BY DEF Types, TypeOK
  <1>2. Unsent'
    <2>1. 1 \in DOMAIN up /\ done[w] # "none"
      BY NextInRun DEF Copies, Unsent
    <2> QED BY <1>1, <2>1, NextInRun DEF Copies, Unsent
  <1>3. Recognized'
    <2> SUFFICES ASSUME NEW v \in Writes, applied'[v] # 0, NEW i \in DOMAIN up', Copy(i, v)'
                 PROVE  Copy(1, v)' /\ cart'.hold = up'[i].rid /\ cart'.image \in Recognizes
      BY DEF Recognized
    <2>1. PICK k \in DOMAIN up : Copy(k, v) /\ up'[i].rid = up[k].rid
      BY NextInRun DEF Copies
    <2>2. v = w
      BY <1>1, <2>1 DEF Copies, Recognized, Copy
    <2>3. 1 \in DOMAIN up /\ Head(up) = up[1] /\ up[1].rid = up[k].rid /\ Copy(1, w)'
      BY <2>1, <2>2, NextInRun DEF Copies, OneRun
    <2> QED BY <2>1, <2>2, <2>3
  <1>4. AtMostOnce'
    BY <1>1 DEF Copies, AtMostOnce
  <1> QED BY <1>2, <1>3, <1>4, NextInRun DEF Copies

LEMMA CopiesReset ==
  ASSUME Copies, applied' = [w \in Writes |-> 0], UNCHANGED <<up, done>>
  PROVE  Copies'
  BY DEF Copies, Unsent, OneRun, Recognized, AtMostOnce, Copy

-----------------------------------------------------------------------------
(* Applied once, action by action.                                         *)

LEMMA ConsoleOnce ==
  ASSUME Types, Types', AppliesOnce, Images \subseteq Recognizes \cup Refuses, Lose \/ Console
  PROVE  AppliesOnce'
  <1> USE DEF AppliesOnce
  <1>0. up \in Seq(Requests) /\ (up # << >> => 1 \in DOMAIN up /\ Head(up) = up[1] /\ Head(up) \in Requests)
        /\ cart \in Consoles
    BY NumbersOf, Taken DEF Types, TypeOK
  <1>1. ASSUME UNCHANGED <<phase, op, t, done, up>>, cart'.hold = cart.hold /\ cart'.image = cart.image,
               applied' = applied
        PROVE  NextCopy' /\ NoHeader'
    BY <1>1 DEF NextCopy, NoHeader, Copy
  <1>2. ASSUME UNCHANGED <<phase, op, t, done>>, up # << >>, up' = Tail(up),
               up' = << >> /\ op.kind = "write" /\ phase = "await" /\ t.once /\ Copy(1, op.w)
                   /\ up[1].rid = op.sent =>
                  (applied'[op.w] # 0 => cart'.hold = op.sent /\ cart'.image \in Recognizes)
        PROVE  NextCopy' /\ NoHeader'
    <2>1. /\ Len(up) \in Nat \ {0} /\ DOMAIN up = 1 .. Len(up) /\ DOMAIN up' = 1 .. Len(up) - 1
          /\ \A i \in DOMAIN up' : up'[i] = up[i + 1] /\ i + 1 \in DOMAIN up
          /\ Len(up') = Len(up) - 1
          /\ up' = << >> => Len(up) = 1
          /\ up' # << >> => Len(up') # 0
      <3>1. /\ Len(up) \in Nat \ {0} /\ DOMAIN up = 1 .. Len(up) /\ DOMAIN up' = 1 .. Len(up) - 1
            /\ \A i \in DOMAIN up' : up'[i] = up[i + 1] /\ i + 1 \in DOMAIN up
            /\ Len(up') = Len(up) - 1 /\ up' \in Seq(Requests)
        BY <1>0, <1>2, Taken
      <3>2. up' = << >> <=> Len(up') = 0
        BY <3>1, EmptySeq
      <3> QED BY <3>1, <3>2
    <2>2. up' # << >> => Len(up') \in DOMAIN up' /\ up'[Len(up')] = up[Len(up)]
      BY <2>1
    <2>3. NextCopy'
      BY <1>2, <2>1, <2>2 DEF NextCopy, Copy
    <2> QED BY <1>2, <2>3 DEF NoHeader
  <1>3. CASE Lose
    <2>1. UNCHANGED <<phase, op, t, cart, applied, done>>
      BY <1>3 DEF Lose
    <2>2. CASE up' = up
      BY <1>1, <2>1, <2>2, CopiesStay DEF SameCart, Told
    <2>3. CASE up # << >> /\ up' = Tail(up)
      <3>1. Copies'
        BY <2>1, <2>3, CopiesPass DEF SameCart, Told
      <3>2. \A w \in Writes : Copy(1, w) /\ applied[w] # 0 => cart.hold = up[1].rid /\ cart.image \in Recognizes
        BY <1>0, <2>3 DEF Copies, Recognized
      <3>3. op.kind = "write" => op.w \in Writes
        BY DEF Types, TypeOK
      <3> QED BY <1>2, <2>1, <2>3, <3>1, <3>2, <3>3
    <2> QED BY <1>3, <2>2, <2>3 DEF Lose
  <1>4. CASE ServeCopy
    <2>1. /\ up # << >> /\ up' = Tail(up) /\ Head(up).rid = cart.hold /\ cart.image \in Recognizes
          /\ UNCHANGED <<phase, op, t, cart, applied, done>>
      BY <1>4 DEF ServeCopy, Serving, Held, Reply
    <2>2. Copies'
      BY <2>1, CopiesPass DEF SameCart, Told
    <2> QED BY <1>0, <1>2, <2>1, <2>2
  <1>5. CASE ServePoke
    <2>1. /\ up # << >> /\ up' = Tail(up) /\ Head(up).kind = "POKE" /\ Head(up).w \in Writes
          /\ ~(cart.image \in Recognizes /\ Head(up).rid = cart.hold)
          /\ UNCHANGED <<phase, op, t, done>>
      BY <1>5, TakeTypes DEF ServePoke, Serving, Held, Reply, Types
    <2>2. Copy(1, Head(up).w) /\ \A w \in Writes : Copy(1, w) => w = Head(up).w
      BY <1>0, <2>1 DEF Copy
    <2>3. applied[Head(up).w] = 0
      BY <1>0, <2>1, <2>2 DEF Copies, Recognized
    <2>4. CASE /\ cart.image \notin Refuses
               /\ applied' = [applied EXCEPT ![Head(up).w] = @ + 1]
               /\ Hold(IF cart.image \in Recognizes THEN Head(up).rid ELSE NoRid)
      <3>1. cart.image \in Recognizes
        BY <1>0, <2>4 DEF Consoles
      <3>2. cart'.hold = Head(up).rid /\ cart'.image = cart.image
        BY <1>0, <2>4, <3>1 DEF Hold, Consoles
      <3>3. Copies'
        BY <2>1, <2>2, <2>3, <2>4, <3>1, <3>2, CopiesApplied
      <3> QED BY <1>0, <1>2, <2>1, <3>1, <3>2, <3>3
    <2>5. CASE Hold(NoRid) /\ UNCHANGED applied
      <3>1. Copies'
        BY <2>1, <2>2, <2>3, <2>5, CopiesServed DEF Told
      <3>2. op.kind = "write" => op.w \in Writes
        BY DEF Types, TypeOK
      <3> QED BY <1>2, <2>1, <2>2, <2>3, <2>5, <3>1, <3>2
    <2> QED BY <1>5, <2>4, <2>5 DEF ServePoke
  <1>6. CASE ServeOther
    <2>1. /\ up # << >> /\ up' = Tail(up) /\ Head(up).kind # "POKE"
          /\ UNCHANGED <<phase, op, t, done, applied>>
      BY <1>6 DEF ServeOther, Serving, Reply
    <2>2. \A w : ~Copy(1, w)
      BY <1>0, <2>1 DEF Copy
    <2>3. Copies'
      BY <2>1, <2>2, CopiesServed DEF Told
    <2> QED BY <1>2, <2>1, <2>2, <2>3
  <1>7. CASE Boot
    <2>1. /\ UNCHANGED <<phase, op, t, up, applied, done>>
          /\ cart'.hold = cart.hold /\ cart'.image = cart.image
      BY <1>0, <1>7 DEF Boot, Consoles
    <2> QED BY <1>1, <2>1, CopiesStay DEF SameCart, Told
  <1>8. ASSUME NEW img \in Images, Reset(img)
        PROVE  AppliesOnce'
    <2>1. applied' = [w \in Writes |-> 0] /\ UNCHANGED <<phase, op, t, up, done>>
      BY <1>8 DEF Reset
    <2>2. op.kind = "write" => op.w \in Writes
      BY DEF Types, TypeOK
    <2>3. NextCopy' /\ NoHeader'
      BY <2>1, <2>2 DEF NextCopy, NoHeader, Copy
    <2> QED BY <2>1, <2>3, CopiesReset
  <1> QED BY <1>3, <1>4, <1>5, <1>6, <1>7, <1>8 DEF Console


\* The caller is told: no write is left to be sent.
LEMMA ReturnOnce ==
  ASSUME Types, AppliesOnce, SameCart, NEW o, NEW pages, NEW r, r # "none", Return(o, pages, r),
         o.kind = "write" => o.w \in Writes, up' = up
  PROVE  AppliesOnce'
  <1>1. phase' = "idle" /\ op'.kind = "none"
    BY DEF Return, NoOp
  <1>2. Told
    BY DEF Told, Return, Types, TypeOK
  <1>3. Copies'
    BY <1>2, CopiesStay DEF AppliesOnce
  <1> QED BY <1>1, <1>3 DEF AppliesOnce, NextCopy, NoHeader

\* A step on no behalf of a write, after which none waits.
LEMMA AsideOnce ==
  ASSUME Types, AppliesOnce, SameCart, Told, phase' \notin {"check", "recheck", "greet"},
         op'.kind = "write" => phase' # "await",
         \/ up' = up
         \/ \E m \in Requests : up' = Append(up, m) /\ m.kind # "POKE"
         \/ up' = HelloGone(up)
  PROVE  AppliesOnce'
  <1>1. Copies'
    BY CopiesStay, CopiesBehind, CopiesHelloGone DEF AppliesOnce
  <1> QED BY <1>1 DEF AppliesOnce, NextCopy, NoHeader

\* One more copy of the write that waits.
LEMMA AgainOnce ==
  ASSUME Types, AppliesOnce, SameCart, Told, op.kind = "write", phase = "await", t.once,
         phase' = "await", op'.kind = op.kind, op'.w = op.w, op'.sent = op.sent,
         t'.want = op.sent, t'.copied,
         NEW m \in Requests, up' = Append(up, m), m.kind = "POKE", m.w = op.w, m.rid = op.sent
  PROVE  AppliesOnce'
  <1>1. Fits(m) /\ op.w \in Writes /\ done'[op.w] # "none"
    BY DEF AppliesOnce, NextCopy, Fits, Types, TypeOK, Told
  <1>2. Copies'
    BY <1>1, CopiesAgain DEF AppliesOnce
  <1>3. /\ Len(up') = Len(up) + 1 /\ Len(up') \in DOMAIN up' /\ up'[Len(up')] = m /\ up' # << >>
    BY NumbersOf, Appended DEF Types
  <1>4. NextCopy'
    BY <1>1, <1>3 DEF NextCopy, Copy
  <1> QED BY <1>2, <1>4 DEF AppliesOnce, NoHeader


LEMMA FreshOnce ==
  ASSUME Types, NEW kind \in {"ROM", "PEEK"}, SendFresh(kind)
  PROVE  \E m \in Requests : up' = Append(up, m) /\ m.kind # "POKE"
  <1> DEFINE m == [kind |-> kind, rid |-> t.rid, conn |-> t.conn, w |-> NoWrite]
  <1>1. m \in Requests /\ m.kind # "POKE" /\ up' = Append(up, m)
    BY DEF SendFresh, Put, Types, TypeOK, Links, Requests, Rids
  <1> QED BY <1>1

LEMMA RetryOnce ==
  ASSUME Types, AppliesOnce, 0 \notin Pages, SameCart, UNCHANGED done, phase = "await", Retry,
         op'.kind = op.kind, op'.w = op.w, op'.sent = op.sent
  PROVE  AppliesOnce'
  <1>0. ~HeaderKnown /\ Told /\ t \in Links /\ op.kind # "none" /\ (op.kind = "write" => op.w \in Writes)
    BY DEF HeaderKnown, Told, Types, TypeOK, PhaseFits
  <1>1. CASE op.kind = "write" /\ CopyWrite
    <2> DEFINE m == [kind |-> "POKE", rid |-> op.sent, conn |-> t.conn, w |-> op.w]
    <2>1. m \in Requests /\ m.kind = "POKE" /\ m.w = op.w /\ m.rid = op.sent
      BY <1>0, <1>1 DEF Types, TypeOK, Links, Ops, Requests
    <2>2. /\ up' = Append(up, m) /\ t.once /\ phase' = "await"
          /\ t' = [t EXCEPT !.want = op.sent, !.copied = TRUE]
      BY <1>1 DEF CopyWrite, SendCopy, Put
    <2> HIDE DEF m
    <2>3. t'.want = op.sent /\ t'.copied
      BY <1>0, <2>2 DEF Links
    <2> QED BY <1>0, <1>1, <2>1, <2>2, <2>3, AgainOnce
  <1>2. CASE op.kind = "write" /\ WaitOn
    <2>1. /\ ~t.once /\ phase' = "await" /\ t'.want = op.sent /\ t'.once = t.once /\ t'.copied = t.copied
          /\ up' = up
      BY <1>0, <1>2 DEF WaitOn, Links
    <2>2. Copies'
      BY <1>0, <2>1, CopiesStay DEF AppliesOnce
    <2> QED BY <1>2, <2>1, <2>2 DEF AppliesOnce, NextCopy, NoHeader
  <1>3. CASE op.kind # "write" /\ phase' = "await" /\ SendFresh(Wire(op.kind))
    <2>1. Wire(op.kind) \in {"ROM", "PEEK"}
      BY <1>3 DEF Wire
    <2> QED BY <1>0, <1>3, <2>1, FreshOnce, AsideOnce
  <1> QED BY <1>0, <1>1, <1>2, <1>3 DEF Retry, CheckHeader

LEMMA CallerOnce == ASSUME Types, Types', AppliesOnce, Caller PROVE AppliesOnce'
  <1>1. ASSUME NEW w \in Writes, StartWrite(w)
        PROVE  AppliesOnce'
    <2> DEFINE o == [NoOp EXCEPT !.kind = "write", !.w = w,
                                 !.sent = IF CannotSend("write") THEN NoRid ELSE t.rid]
    <2>1. /\ done[w] = "none" /\ done' = [done EXCEPT ![w] = "sent"] /\ Begin(o)
          /\ UNCHANGED <<cart, applied>>
      BY <1>1 DEF StartWrite
    <2>2. Told /\ SameCart /\ done'[w] = "sent"
      BY <2>1 DEF Told, SameCart, Types, TypeOK
    <2>3. o.kind = "write" /\ o.w = w /\ (~CannotSend("write") => o.sent = t.rid)
      BY DEF NoOp
    <2> HIDE DEF o
    <2>4. CASE CannotSend("write")
      <3>1. phase' = "down" /\ up' = up
        BY <2>1, <2>3, <2>4 DEF Begin
      <3> QED BY <2>2, <3>1, AsideOnce
    <2>5. CASE ~CannotSend("write")
      <3>1. phase' = "await" /\ op' = o /\ SendFresh("POKE")
        BY <2>1, <2>3, <2>5 DEF Begin, Wire
      <3> DEFINE m == [kind |-> "POKE", rid |-> t.rid, conn |-> t.conn, w |-> w]
                 c == ~t.whole \/ ~t.once
      <3>2. /\ up' = Append(up, m) /\ t \in Links
            /\ t' = [t EXCEPT !.rid = @ + 1, !.want = t.rid, !.copied = c]
        BY <2>3, <3>1 DEF SendFresh, Put, Types, TypeOK
      <3>3. m \in Requests /\ m.kind = "POKE" /\ m.w = w /\ m.rid = t.rid
        BY <3>2 DEF Links, Requests, Rids
      <3> HIDE DEF m, c
      <3>4. t'.want = t.rid /\ t'.once = t.once /\ t'.copied = c
        BY <3>2 DEF Links
      <3>5. Fits(m)
        BY <2>1, <3>3 DEF Fits, AppliesOnce, Copies, Unsent
      <3>6. Copies'
        BY <2>2, <3>2, <3>3, <3>5, CopiesAgain DEF AppliesOnce
      <3>7. /\ Len(up') \in DOMAIN up' /\ up'[Len(up')] = m /\ up' # << >>
        BY <3>2, <3>3, NumbersOf, Appended DEF Types
      <3>8. ~t'.once => t'.copied
        BY <3>4 DEF c
      <3>9. Copy(Len(up), w)' /\ up'[Len(up')].rid = op'.sent
        BY <2>3, <2>5, <3>1, <3>3, <3>7 DEF Copy
      <3>10. NextCopy'
        BY <2>2, <2>3, <2>5, <3>1, <3>4, <3>7, <3>8, <3>9 DEF NextCopy
      <3> QED BY <3>1, <3>6, <3>10 DEF AppliesOnce, NoHeader
    <2> QED BY <2>4, <2>5
  <1>2. ASSUME NEW o, Begin(o), o.kind \in {"read", "rom", "probe"}, UNCHANGED <<cart, applied, done>>
        PROVE  AppliesOnce'
    <2>1. Told /\ SameCart /\ op'.kind # "write" /\ Wire(o.kind) \in {"ROM", "PEEK"}
      BY <1>2 DEF Told, SameCart, Begin, Wire
    <2>2. \/ phase' = "down" /\ up' = up
          \/ phase' = "await" /\ SendFresh(Wire(o.kind))
      BY <1>2 DEF Begin
    <2> QED BY <2>1, <2>2, FreshOnce, AsideOnce
  <1>3. ASSUME UNCHANGED <<phase, op, t, up, cart, applied, done>>
        PROVE  AppliesOnce'
    <2>1. Copies'
      BY <1>3, CopiesStay DEF AppliesOnce, SameCart, Told
    <2> QED BY <1>3, <2>1 DEF AppliesOnce, NextCopy, NoHeader, Copy
  <1>4. ASSUME NEW kind \in {"read", "probe"}, StartRead(kind)
        PROVE  AppliesOnce'
    <2>1. [NoOp EXCEPT !.kind = kind].kind = kind
      BY DEF NoOp
    <2> QED BY <1>2, <1>3, <1>4, <2>1 DEF StartRead
  <1>5. ASSUME NEW pages \in SUBSET Pages, StartRomRead(pages)
        PROVE  AppliesOnce'
    <2> DEFINE o == [NoOp EXCEPT !.kind = "rom", !.pages = pages,
                                 !.fetch = {p \in pages : cache[p] = None}]
    <2>1. o.kind = "rom"
      BY DEF NoOp
    <2>2. (Begin(o) \/ UNCHANGED <<phase, op, t, up>>) /\ UNCHANGED <<cart, applied, done>>
      BY <1>5 DEF StartRomRead
    <2> HIDE DEF o
    <2> QED BY <1>2, <1>3, <2>1, <2>2
  <1> QED BY <1>1, <1>4, <1>5 DEF Caller


LEMMA HostOnce ==
  ASSUME Types, Types', AppliesOnce, 0 \notin Pages, Host
  PROVE  AppliesOnce'
  <1>0. /\ ~HeaderKnown /\ phase \notin {"check", "recheck", "greet"} /\ op.res \in Results
        /\ op.kind = "write" => op.w \in Writes
    BY OpFields DEF HeaderKnown, AppliesOnce, NoHeader, Types, TypeOK
  <1>1. CASE OpAnswered \/ OpRefused
    <2>1. UNCHANGED <<cart, applied>>
      BY <1>1 DEF OpAnswered, OpRefused
    <2>2. ASSUME NEW o, NEW r \in {"ok", "refused"}, Answering(o, r), o.kind = op.kind, o.w = op.w
          PROVE  AppliesOnce'
      <3>1. Return(o, cache, r) /\ up' = up
        BY <1>0, <2>2 DEF Answering
      <3> QED BY <1>0, <2>1, <2>2, <3>1, ReturnOnce DEF SameCart
    <2>3. CASE OpAnswered
      <3>1. op \in Ops /\ Head(down).img \in Images /\ Answering([op EXCEPT !.img = Head(down).img], "ok")
        BY <2>3, AnsweredTypes DEF OpAnswered, Types, TypeOK
      <3>2. LET o == [op EXCEPT !.img = Head(down).img] IN o.kind = op.kind /\ o.w = op.w
        BY <3>1, OpImage
      <3> QED BY <2>2, <3>1, <3>2
    <2>4. CASE OpRefused
      <3>1. Answering(op, "refused")
        BY <2>4 DEF OpRefused
      <3> QED BY <2>2, <3>1
    <2> QED BY <1>1, <2>3, <2>4
  <1>2. CASE OpBusy
    <2>1. /\ SameCart /\ UNCHANGED <<op, done>> /\ phase = "await"
          /\ Retry \/ (phase' = "down" /\ UNCHANGED <<t, up>>)
      BY <1>0, <1>2 DEF OpBusy, SameCart
    <2>2. CASE Retry
      BY <2>1, <2>2, RetryOnce
    <2>3. CASE phase' = "down" /\ UNCHANGED <<t, up>>
      BY <2>1, <2>3, AsideOnce DEF Told
    <2> QED BY <2>1, <2>2, <2>3
  <1>3. CASE CheckAnswered \/ RecheckAnswered \/ GreetAnswered \/ GreetFails \/ RecheckTimeout
    <2>1. phase \in {"check", "recheck", "greet"}
      BY <1>3, Zenon DEF CheckAnswered, RecheckAnswered, GreetAnswered, GreetFails, RecheckTimeout
    <2> QED BY <1>0, <2>1
  <1>4. ASSUME Fails, SameCart, up' = up
        PROVE  AppliesOnce'
    <2>1. CASE Return(op, cache, "failed")
      BY <1>0, <1>4, <2>1, ReturnOnce
    <2>2. CASE phase' = "down" /\ UNCHANGED done
      BY <1>4, <2>2, AsideOnce DEF Told
    <2> QED BY <1>4, <2>1, <2>2 DEF Fails
  <1>5. CASE WrongAnswer \/ SocketDies
    BY <1>0, <1>4, <1>5 DEF WrongAnswer, SocketDies, SameCart
  <1>6. CASE PassOver
    <2>1. UNCHANGED <<phase, op, t, up, cart, applied, done>>
      BY <1>6, Zenon DEF PassOver
    <2>2. Copies'
      BY <2>1, CopiesStay DEF AppliesOnce, SameCart, Told
    <2> QED BY <2>1, <2>2 DEF AppliesOnce, NextCopy, NoHeader, Copy
  <1>7. CASE QuickCopy
    <2> DEFINE m == [kind |-> Expected, rid |-> t.want, conn |-> t.conn,
                     w |-> IF Expected = "POKE" THEN op.w ELSE NoWrite]
    <2>1. /\ Waiting /\ ~t.copied /\ up' = Append(up, m) /\ t' = [t EXCEPT !.copied = TRUE]
          /\ UNCHANGED <<phase, op, done>> /\ SameCart /\ Told /\ t \in Links
      BY <1>7 DEF QuickCopy, Put, SameCart, Told, Types, TypeOK
    <2>2. Expected = Wire(op.kind) /\ Expected \in {"POKE", "ROM", "PEEK"}
          /\ (Expected = "POKE" <=> op.kind = "write")
      BY <1>0 DEF Expected, Wire
    <2>3. m \in Requests /\ m.kind = Expected /\ m.rid = t.want /\ (op.kind = "write" => m.w = op.w)
      BY <1>0, <2>1, <2>2 DEF Links, Requests, Rids
    <2> HIDE DEF m
    <2>4. t'.want = t.want /\ t'.copied
      BY <2>1 DEF Links
    <2>5. CASE op.kind = "write"
      <3>1. phase = "await" /\ t.once /\ t.want = op.sent
        BY <1>0, <2>1, <2>5 DEF Waiting, Types, PhaseFits, AppliesOnce, NextCopy
      <3> QED BY <2>1, <2>2, <2>3, <2>4, <2>5, <3>1, AgainOnce
    <2>6. CASE op.kind # "write"
      BY <1>0, <2>1, <2>2, <2>3, <2>6, AsideOnce
    <2> QED BY <2>5, <2>6
  <1>8. CASE SoftTimeout
    <2>1. /\ phase = "await" /\ Retry /\ Overdue /\ UNCHANGED <<applied, done>>
          /\ op.timeouts < SoftRetries /\ op' = [op EXCEPT !.timeouts = @ + 1] /\ op \in Ops
      BY <1>0, <1>8 DEF SoftTimeout, Types, TypeOK
    <2>2. SameCart
      BY <2>1, SilentConsole DEF SameCart, Types
    <2>3. op'.kind = op.kind /\ op'.w = op.w /\ op'.sent = op.sent
      BY <2>1, OpTimedOut
    <2> QED BY <2>1, <2>2, <2>3, RetryOnce
  <1>9. CASE LastTimeout \/ ProbeTimeout
    <2>1. SameCart
      BY <1>9, SilentConsole DEF LastTimeout, ProbeTimeout, SameCart, Types
    <2>2. CASE LastTimeout
      BY <2>1, <2>2, AsideOnce DEF LastTimeout, Told
    <2>3. CASE ProbeTimeout
      BY <1>0, <2>1, <2>3, ReturnOnce DEF ProbeTimeout
    <2> QED BY <1>9, <2>2, <2>3
  <1>10. CASE Dial
    <2> DEFINE m == [kind |-> "HELLO", rid |-> NoRid, w |-> NoWrite, conn |-> spent.dials + 2]
    <2>1. m \in Requests /\ m.kind # "POKE"
      BY <1>10, BoundsAssumption DEF Dial, Types, TypeOK, Uses, Requests, Rids, NoRid, Conns
    <2>2. up' = Append(up, m) /\ phase' = "dial" /\ UNCHANGED <<op, cart, applied, done>>
      BY <1>10 DEF Dial, Put
    <2> HIDE DEF m
    <2> QED BY <2>1, <2>2, AsideOnce DEF SameCart, Told
  <1>11. CASE DialAnsweredWrite \/ DialAnsweredRead
    <2>1. HelloArrives /\ SameCart
      BY <1>11, HelloArrivesTypes DEF DialAnsweredWrite, DialAnsweredRead, SameCart, Types
    <2>2. CASE \E r \in {"restarted", "failed"} : Return(op, EmptyCache, r) /\ up' = up
      BY <1>0, <2>1, <2>2, ReturnOnce
    <2>3. CASE phase' = "down" /\ UNCHANGED <<up, done>>
      BY <2>1, <2>3, AsideOnce DEF Told
    <2> DEFINE m == [kind |-> Wire(op.kind), rid |-> 1, w |-> NoWrite, conn |-> spent.dials + 1]
    <2>4. CASE op.kind # "write" /\ phase' = "again" /\ Put(m) /\ UNCHANGED done
      <3>1. m \in Requests /\ m.kind # "POKE" /\ up' = Append(up, m)
        BY <2>1, <2>4, HelloArrivesTypes DEF Types, Requests, Rids, Wire, Put
      <3> HIDE DEF m
      <3> QED BY <2>1, <2>4, <3>1, AsideOnce DEF Told
    <2> QED BY <1>11, <2>2, <2>3, <2>4 DEF DialAnsweredWrite, DialAnsweredRead
  <1>12. CASE DialFails
    <2>1. SameCart /\ Told /\ phase' = "down" /\ (up' = up \/ up' = HelloGone(up))
      BY <1>12, SilentConsole DEF DialFails, SameCart, Told, Types, HelloStays
    <2> QED BY <2>1, AsideOnce
  <1>13. CASE GiveUp
    BY <1>0, <1>13, ReturnOnce DEF GiveUp, SameCart
  <1> QED BY <1>1, <1>2, <1>3, <1>5, <1>6, <1>7, <1>8, <1>9, <1>10, <1>11, <1>12, <1>13 DEF Host

\* poke_once: a write lands at most once on a running console, whatever is lost, late or sent
\* again, if the ROM header is not cached (a read of it between a POKEV and its copy ends the
\* agent's hold: CartLinkCopies) and every image's agent either recognizes a copy or takes no
\* writes (a reset between the two into one that takes any applies both).
THEOREM WritesLandOnce ==
  0 \notin Pages /\ Images \subseteq Recognizes \cup Refuses /\ Spec => []AtMostOnce
  <1> SUFFICES ASSUME 0 \notin Pages, Images \subseteq Recognizes \cup Refuses
               PROVE  Spec => []AtMostOnce
    OBVIOUS
  <1> DEFINE IInv == Types /\ AppliesOnce
  <1>1. Init => IInv
    <2> SUFFICES ASSUME Init PROVE AppliesOnce
      BY InitTypes
    <2>1. up = << >> /\ phase = "idle" /\ applied = [w \in Writes |-> 0] /\ DOMAIN up = {}
      BY DEF Init
    <2> QED BY <2>1
            DEF AppliesOnce, Copies, Unsent, OneRun, Recognized, AtMostOnce, NextCopy, NoHeader
  <1>2. IInv /\ [Next]_vars => IInv'
    <2> SUFFICES ASSUME IInv, [Next]_vars PROVE IInv'
      OBVIOUS
    <2>1. Types'
      BY StepTypes
    <2>2. CASE UNCHANGED vars
      <3>1. Copies'
        BY <2>2, CopiesStay DEF AppliesOnce, SameCart, Told, vars
      <3> QED BY <2>1, <2>2, <3>1 DEF AppliesOnce, NextCopy, NoHeader, Copy, vars
    <2> QED BY <2>1, <2>2, CallerOnce, HostOnce, ConsoleOnce DEF Next
  <1>3. IInv => AtMostOnce
    BY DEF AppliesOnce, Copies
  <1> QED BY <1>1, <1>2, <1>3, PTL DEF Spec


-----------------------------------------------------------------------------
(* What is cached of the ROM, where page 0, the header, is all that is     *)
(* read of it.                                                             *)

AsksRom == phase \in {"check", "recheck"} \/ (phase \in {"await", "again"} /\ op.kind = "rom")
Current == \A p \in Pages : cache[p] \in {None, cart.image}

\* The page that answers the request that waits is of the ROM on the cart.
PageIsCarts ==
  AsksRom /\ ~cart.unseen =>
    \A i \in DOMAIN down : down[i].kind = "ROM" /\ down[i].rid = t.want => down[i].img = cart.image

\* A reset is not forgotten before the cache is.
ResetKnown == Current \/ missed \/ t.dead \/ cart.unseen

CallHolds ==
  /\ phase \in {"await", "check"} /\ op.timeouts > 0 => missed
  /\ phase = "again" => cache = EmptyCache
  /\ phase \in {"check", "recheck", "greet"} => HeaderKnown
  /\ phase = "recheck" => missed
  /\ \A p \in op.fetch : cache[p] = None

RomHolds == PageIsCarts /\ ResetKnown /\ CallHolds


LEMMA NothingFetched ==
  ASSUME Types, CallHolds, Pages \subseteq {0}, HeaderKnown
  PROVE  op.fetch = {}
  <1>1. op.fetch \subseteq Pages
    BY OpFields DEF Types, TypeOK
  <1> QED BY <1>1 DEF CallHolds, HeaderKnown

LEMMA FreshLink ==
  ASSUME Types, NEW kind, SendFresh(kind)
  PROVE  t'.want = t.rid /\ t'.dead = t.dead
  <1> DEFINE c == ~t.whole \/ (kind = "POKE" /\ ~t.once)
  <1>1. t' = [t EXCEPT !.rid = @ + 1, !.want = t.rid, !.copied = c] /\ t \in Links
    BY DEF SendFresh, Types, TypeOK
  <1> HIDE DEF c
  <1> QED BY <1>1 DEF Links

LEMMA DownFrom ==
  ASSUME Types, down' = down \/ (down # << >> /\ down' = Tail(down))
  PROVE  \A i \in DOMAIN down' : \E j \in DOMAIN down : down'[i] = down[j]
  <1>1. CASE down # << >> /\ down' = Tail(down)
    <2>1. down \in Seq(Replies)
      BY NumbersOf DEF Types
    <2> QED BY <1>1, <2>1, Taken
  <1>2. CASE down' = down
    BY <1>2
  <1> QED BY <1>1, <1>2

\* Nothing on its way answers a rid just taken.
LEMMA FreshPage ==
  ASSUME Types, LinkHolds, t'.want = t.rid,
         down' = down \/ (down # << >> /\ down' = Tail(down))
  PROVE  PageIsCarts'
  <1>1. \A i \in DOMAIN down' : \E j \in DOMAIN down : down'[i] = down[j]
    BY DownFrom
  <1>2. \A j \in DOMAIN down : down[j].kind = "ROM" => down[j].rid < t.rid /\ down[j].rid \in Nat
    BY NumbersOf DEF LinkHolds, OneLink, Hello, Types
  <1>3. t.rid \in Nat
    BY NumbersOf DEF Types
  <1> QED BY <1>1, <1>2, <1>3 DEF PageIsCarts

\* A page on its way stays what it is.
LEMMA SamePage ==
  ASSUME Types, PageIsCarts, AsksRom' => AsksRom /\ t'.want = t.want,
         cart'.image = cart.image, cart.unseen => cart'.unseen,
         down' = down \/ (down # << >> /\ down' = Tail(down))
  PROVE  PageIsCarts'
  <1>1. \A i \in DOMAIN down' : \E j \in DOMAIN down : down'[i] = down[j]
    BY DownFrom
  <1> QED BY <1>1 DEF PageIsCarts

LEMMA SameReset ==
  ASSUME ResetKnown, cache' = cache, cart'.image = cart.image,
         missed => missed', t.dead => t'.dead, cart.unseen => cart'.unseen \/ missed'
  PROVE  ResetKnown'
  BY DEF ResetKnown, Current

\* Back with the caller.
LEMMA IdleRom ==
  ASSUME NEW o, NEW pages, NEW r, Return(o, pages, r), ResetKnown'
  PROVE  RomHolds'
  BY DEF Return, NoOp, RomHolds, PageIsCarts, AsksRom, CallHolds

LEMMA ReturnKeeps ==
  ASSUME NEW o, NEW pages \in [Pages -> Images \cup {None}], NEW r, Return(o, pages, r),
         o.kind = "rom" /\ r = "ok" => o.fetch = {}
  PROVE  cache' = pages
  BY DEF Return

LEMMA EmptyIsCurrent == ASSUME cache' = EmptyCache PROVE ResetKnown'
  BY DEF ResetKnown, Current, EmptyCache

\* A call begun or asked again on the link in use, under a rid just taken or as a write.
LEMMA AskedRom ==
  ASSUME Types, LinkHolds, RomHolds, cache' = cache, cart'.image = cart.image,
         missed => missed', t'.dead = t.dead, cart.unseen => cart'.unseen \/ missed',
         down' = down \/ (down # << >> /\ down' = Tail(down)),
         phase' \in {"await", "check"}, phase' = "check" => HeaderKnown,
         op'.timeouts > 0 => missed', \A p \in op'.fetch : cache[p] = None,
         t'.want = t.rid \/ (phase' = "await" /\ op'.kind = "write")
  PROVE  RomHolds'
  <1>1. PageIsCarts'
    BY FreshPage DEF PageIsCarts, AsksRom
  <1>2. ResetKnown'
    BY SameReset DEF RomHolds
  <1>3. CallHolds'
    BY DEF CallHolds, HeaderKnown
  <1> QED BY <1>1, <1>2, <1>3 DEF RomHolds

\* A phase in which nothing is asked.
LEMMA QuietRom ==
  ASSUME RomHolds, cache' = cache, cart'.image = cart.image,
         missed => missed', t.dead => t'.dead, cart.unseen => cart'.unseen \/ missed',
         phase' \in {"down", "dial", "idle"}, op'.fetch = op.fetch
  PROVE  RomHolds'
  <1>1. ResetKnown'
    BY SameReset DEF RomHolds
  <1> QED BY <1>1 DEF RomHolds, PageIsCarts, AsksRom, CallHolds

LEMMA RetryRom ==
  ASSUME Types, LinkHolds, RomHolds, Retry, phase \in {"await", "check"}, cache' = cache,
         cart'.image = cart.image, missed => missed', cart.unseen => cart'.unseen \/ missed',
         down' = down \/ (down # << >> /\ down' = Tail(down)),
         op'.kind = op.kind, op'.fetch = op.fetch, op'.timeouts > 0 => missed'
  PROVE  RomHolds'
  <1>0. \A p \in op'.fetch : cache[p] = None
    BY DEF RomHolds, CallHolds
  <1>1. CASE op.kind = "write" /\ CheckHeader
    BY <1>0, <1>1, FreshLink, AskedRom DEF CheckHeader
  <1>2. CASE op.kind = "write" /\ (CopyWrite \/ WaitOn)
    <2>1. t'.dead = t.dead /\ phase' = "await"
      BY <1>2 DEF CopyWrite, WaitOn, SendCopy, Types, TypeOK, Links
    <2> QED BY <1>0, <1>2, <2>1, AskedRom
  <1>3. CASE op.kind # "write" /\ phase' = "await" /\ SendFresh(Wire(op.kind))
    BY <1>0, <1>3, FreshLink, AskedRom
  <1> QED BY <1>1, <1>2, <1>3 DEF Retry

LEMMA RomChangedRom ==
  ASSUME Types, RomHolds, NEW r \in Results, RomChanged(r), UNCHANGED cart, HeaderKnown
  PROVE  RomHolds'
  <1>1. /\ phase' = "greet" /\ UNCHANGED <<t, missed, cache>> /\ op' = [op EXCEPT !.res = r]
    BY DEF RomChanged
  <1>2. op'.fetch = op.fetch
    BY <1>1, OpToldOf DEF Types, TypeOK
  <1>3. ResetKnown'
    BY <1>1, SameReset DEF RomHolds
  <1> QED BY <1>1, <1>2, <1>3 DEF RomHolds, PageIsCarts, AsksRom, CallHolds, HeaderKnown


LEMMA CallerRom == ASSUME Types, LinkHolds, RomHolds, Caller PROVE RomHolds'
  <1>0. RomHolds => CallHolds
    BY DEF RomHolds
  <1>1. ASSUME NEW o, Begin(o), o.timeouts = 0, \A p \in o.fetch : cache[p] = None,
               UNCHANGED <<missed, cache, down, cart>>
        PROVE  RomHolds'
    <2>1. CASE CannotSend(o.kind)
      <3>1. phase' = "down" /\ op' = o /\ UNCHANGED t
        BY <1>1, <2>1 DEF Begin
      <3>2. ResetKnown'
        BY <1>1, <3>1, SameReset DEF RomHolds
      <3> QED BY <1>1, <3>1, <3>2 DEF RomHolds, PageIsCarts, AsksRom, CallHolds
    <2>2. CASE ~CannotSend(o.kind)
      <3>1. phase' = "await" /\ op' = o /\ SendFresh(Wire(o.kind))
        BY <1>1, <2>2 DEF Begin
      <3> QED BY <1>1, <3>1, FreshLink, AskedRom
    <2> QED BY <2>1, <2>2
  <1>2. ASSUME NEW w \in Writes, StartWrite(w)
        PROVE  RomHolds'
    <2> DEFINE o == [NoOp EXCEPT !.kind = "write", !.w = w,
                                 !.sent = IF CannotSend("write") THEN NoRid ELSE t.rid]
    <2>1. Begin(o) /\ UNCHANGED <<missed, cache, down, cart>>
      BY <1>2 DEF StartWrite
    <2>2. o.timeouts = 0 /\ o.fetch = {}
      BY DEF NoOp
    <2> HIDE DEF o
    <2> QED BY <1>1, <2>1, <2>2
  <1>3. ASSUME NEW kind \in {"read", "probe"}, StartRead(kind)
        PROVE  RomHolds'
    <2>1. [NoOp EXCEPT !.kind = kind].timeouts = 0 /\ [NoOp EXCEPT !.kind = kind].fetch = {}
      BY DEF NoOp
    <2>2. UNCHANGED <<cache, down, cart>>
      BY <1>3 DEF StartRead
    <2>3. CASE missed' = TRUE /\ UNCHANGED <<phase, op, t, up>>
      <3>1. PageIsCarts'
        BY <2>2, <2>3, SamePage DEF RomHolds, AsksRom
      <3>2. phase = "idle"
        BY <1>3 DEF StartRead
      <3> QED BY <2>2, <2>3, <3>1, <3>2 DEF RomHolds, ResetKnown, CallHolds
    <2> QED BY <1>1, <1>3, <2>1, <2>2, <2>3 DEF StartRead
  <1>4. ASSUME NEW pages \in SUBSET Pages, StartRomRead(pages)
        PROVE  RomHolds'
    <2> DEFINE fetch == {p \in pages : cache[p] = None}
               o == [NoOp EXCEPT !.kind = "rom", !.pages = pages, !.fetch = fetch]
    <2>1. o.timeouts = 0 /\ \A p \in o.fetch : cache[p] = None
      BY DEF NoOp
    <2>2. UNCHANGED <<missed, cache, down, cart>> /\ (Begin(o) \/ UNCHANGED <<phase, op, t, up>>)
      BY <1>4 DEF StartRomRead
    <2> HIDE DEF o
    <2>3. CASE UNCHANGED <<phase, op, t, up>>
      <3>1. PageIsCarts'
        BY <2>2, <2>3, SamePage DEF RomHolds, AsksRom
      <3>2. ResetKnown'
        BY <2>2, <2>3, SameReset DEF RomHolds
      <3> QED BY <2>2, <2>3, <3>1, <3>2 DEF RomHolds, CallHolds, HeaderKnown
    <2> QED BY <1>1, <2>1, <2>2, <2>3
  <1> QED BY <1>2, <1>3, <1>4 DEF Caller

LEMMA PathRom == ASSUME Types, LinkHolds, RomHolds, PassOver \/ Lose \/ Console PROVE RomHolds'
  <1>0. cart \in Consoles /\ up \in Seq(Requests) /\ down \in Seq(Replies)
    BY DEF Types, TypeOK
  <1>1. ASSUME UNCHANGED <<phase, op, t, missed, cache>>, cart'.image = cart.image,
               cart'.unseen = cart.unseen, PageIsCarts'
        PROVE  RomHolds'
    BY <1>1, SameReset DEF RomHolds, CallHolds, HeaderKnown
  <1>2. CASE PassOver \/ Lose
    <2>1. /\ UNCHANGED <<phase, op, t, missed, cache, cart>>
          /\ down' = down \/ (down # << >> /\ down' = Tail(down))
      BY <1>2, Zenon DEF PassOver, Lose
    <2>2. PageIsCarts'
      BY <2>1, SamePage DEF RomHolds, AsksRom
    <2> QED BY <1>1, <2>1, <2>2
  <1>3. ASSUME UNCHANGED <<phase, op, t, missed, cache>>, cart'.image = cart.image,
               cart'.unseen = cart.unseen, up # << >>,
               NEW kind \in {"HELLO", "POKE", "ROM", "PEEK", "BUSY", "ERR"}, Reply(kind)
        PROVE  RomHolds'
    <2> DEFINE r == [kind |-> kind, rid |-> Head(up).rid, conn |-> Head(up).conn, img |-> cart.image]
    <2>1. down' = Append(down, r) /\ r \in Replies
      BY <1>0, <1>3, TakeTypes DEF Reply, Types, Consoles, Requests, Replies
    <2>2. r.img = cart.image
      OBVIOUS
    <2> HIDE DEF r
    <2>3. \A i \in DOMAIN down' : (i \in DOMAIN down /\ down'[i] = down[i]) \/ down'[i] = r
      BY <1>0, <2>1, Appended
    <2>4. PageIsCarts'
      BY <1>3, <2>2, <2>3 DEF RomHolds, PageIsCarts, AsksRom
    <2> QED BY <1>1, <1>3, <2>4
  <1>4. CASE ServeCopy
    BY <1>3, <1>4 DEF ServeCopy, Serving
  <1>5. CASE ServePoke \/ ServeOther
    <2>1. PICK rid : Hold(rid)
      BY <1>5 DEF ServePoke, ServeOther
    <2>2. cart'.image = cart.image /\ cart'.unseen = cart.unseen
      BY <1>0, <2>1 DEF Hold, Consoles
    <2>3. up # << >> /\ UNCHANGED <<phase, op, t, missed, cache>>
      BY <1>5 DEF ServePoke, ServeOther, Serving
    <2>4. PICK kind \in {"HELLO", "POKE", "ROM", "PEEK", "BUSY", "ERR"} : Reply(kind)
      BY <1>5, <2>3 DEF ServePoke, ServeOther
    <2> QED BY <1>3, <2>2, <2>3, <2>4
  <1>6. CASE Boot
    <2>1. /\ UNCHANGED <<phase, op, t, missed, cache, down>>
          /\ cart'.image = cart.image /\ cart'.unseen = cart.unseen
      BY <1>0, <1>6 DEF Boot, Consoles
    <2>2. PageIsCarts'
      BY <2>1, SamePage DEF RomHolds, AsksRom
    <2> QED BY <1>1, <2>1, <2>2
  <1>7. ASSUME NEW img \in Images, Reset(img)
        PROVE  RomHolds'
    <2>1. cart'.unseen = TRUE /\ UNCHANGED <<phase, op, t, missed, cache>>
      BY <1>7 DEF Reset
    <2> QED BY <2>1 DEF RomHolds, PageIsCarts, ResetKnown, CallHolds, HeaderKnown
  <1> QED BY <1>2, <1>4, <1>5, <1>6, <1>7 DEF Console


\* The call ends, its pages as they were.
LEMMA KeptRom ==
  ASSUME Types, RomHolds, NEW o, NEW r, Return(o, cache, r), o.kind = "rom" /\ r = "ok" => o.fetch = {},
         cart'.image = cart.image, missed => missed', t.dead => t'.dead,
         cart.unseen => cart'.unseen \/ missed'
  PROVE  RomHolds'
  <1>1. cache \in [Pages -> Images \cup {None}]
    BY DEF Types, TypeOK
  <1>2. cache' = cache
    BY <1>1, ReturnKeeps
  <1>3. ResetKnown'
    BY <1>2, SameReset DEF RomHolds
  <1> QED BY <1>3, IdleRom

\* The request is answered: with nothing missed, or no header to compare, what came of the ROM
\* is kept.
LEMMA AnsweringRom ==
  ASSUME Types, LinkHolds, RomHolds, Pages \subseteq {0}, NEW o, NEW r \in Results, o \in Ops,
         o.kind = op.kind, o.fetch = op.fetch, Answering(o, r), UNCHANGED cart,
         down # << >> /\ down' = Tail(down),
         o.kind = "rom" /\ r = "ok" /\ ~cart.unseen => o.img = cart.image
  PROVE  RomHolds'
  <1>1. CASE missed /\ HeaderKnown
    <2>1. /\ phase' = "recheck" /\ op' = [o EXCEPT !.res = r] /\ SendFresh("ROM")
          /\ UNCHANGED <<missed, cache>>
      BY <1>1 DEF Answering
    <2>2. op'.fetch = op.fetch
      BY <2>1, OpToldOf
    <2>3. t'.want = t.rid /\ t'.dead = t.dead
      BY <2>1, FreshLink
    <2>4. PageIsCarts'
      BY <2>3, FreshPage
    <2>5. ResetKnown'
      BY <2>1, <2>3, SameReset DEF RomHolds
    <2> QED BY <1>1, <2>1, <2>2, <2>4, <2>5 DEF RomHolds, CallHolds, HeaderKnown
  <1>2. CASE ~(missed /\ HeaderKnown)
    <2>1. missed' = FALSE /\ Return(o, cache, r) /\ UNCHANGED t
      BY <1>2 DEF Answering
    <2>2. ResetKnown \/ ~HeaderKnown
      BY DEF RomHolds
    <2>3. CASE t.dead \/ cart.unseen
      <3>1. ResetKnown'
        BY <2>1, <2>3 DEF ResetKnown
      <3> QED BY <2>1, <3>1, IdleRom
    <2>4. CASE ~t.dead /\ ~cart.unseen
      <3>1. Current
        BY <1>2, <2>4 DEF RomHolds, ResetKnown, Current, HeaderKnown
      <3>2. \A p \in Pages : cache'[p] \in {None, cart.image}
        BY <2>1, <2>4, <3>1 DEF Return, Current
      <3>3. ResetKnown'
        BY <3>2 DEF ResetKnown, Current
      <3> QED BY <2>1, <3>3, IdleRom
    <2> QED BY <2>3, <2>4
  <1> QED BY <1>1, <1>2

LEMMA AnswerRom ==
  ASSUME Types, Types', LinkHolds, RomHolds, Pages \subseteq {0},
         OpAnswered \/ OpRefused \/ OpBusy \/ CheckAnswered \/ RecheckAnswered \/ WrongAnswer
  PROVE  RomHolds'
  <1>0. /\ op \in Ops /\ op.res \in Results /\ (HeaderKnown => op.fetch = {})
        /\ (phase \in {"check", "recheck"} => HeaderKnown) /\ (phase = "recheck" => missed)
        /\ (phase = "check" => op.kind = "write")
    BY OpFields, NothingFetched DEF Types, TypeOK, RomHolds, CallHolds, PhaseFits
  <1>1. /\ down # << >> /\ down' = Tail(down) /\ Head(down) = down[1] /\ 1 \in DOMAIN down
        /\ Waiting /\ Head(down).rid = t.want /\ Head(down).img \in Images
        /\ UNCHANGED cart
    <2>1. /\ down # << >> /\ down' = Tail(down) /\ Waiting /\ Head(down).rid = t.want
          /\ Head(down).img \in Images
      BY AnsweredTypes, Zenon
         DEF OpAnswered, OpRefused, OpBusy, CheckAnswered, RecheckAnswered, WrongAnswer
    <2>2. UNCHANGED cart
      BY Zenon DEF OpAnswered, OpRefused, OpBusy, CheckAnswered, RecheckAnswered, WrongAnswer
    <2> QED BY <2>1, <2>2, NumbersOf, Taken DEF Types
  <1>2. AsksRom /\ ~cart.unseen /\ Head(down).kind = "ROM" => Head(down).img = cart.image
    BY <1>1 DEF RomHolds, PageIsCarts
  <1>3. CASE OpAnswered
    <2> DEFINE o == [op EXCEPT !.img = Head(down).img]
    <2>1. /\ Answering(o, "ok") /\ phase \in {"await", "again"} /\ Head(down).kind \in {Expected}
      BY <1>3, AnsweredTypes DEF OpAnswered
    <2>2. o \in Ops /\ o.kind = op.kind /\ o.fetch = op.fetch /\ o.img = Head(down).img
      BY <1>0, <1>1, OpImage
    <2> HIDE DEF o
    <2>3. o.kind = "rom" /\ ~cart.unseen => o.img = cart.image
      BY <1>2, <2>1, <2>2 DEF AsksRom, Expected, Wire
    <2> QED BY <1>1, <2>1, <2>2, <2>3, AnsweringRom DEF Results
  <1>4. CASE OpRefused
    BY <1>0, <1>1, <1>4, AnsweringRom DEF OpRefused, Results
  <1>5. CASE OpBusy
    <2>1. phase \in {"await", "check"} /\ UNCHANGED <<op, missed, cache>>
      BY <1>5 DEF OpBusy
    <2>2. op'.timeouts > 0 => missed'
      BY <2>1 DEF RomHolds, CallHolds
    <2>3. CASE Retry
      BY <1>1, <2>1, <2>2, <2>3, RetryRom
    <2>4. CASE phase' = "down" /\ UNCHANGED t
      BY <1>1, <2>1, <2>4, QuietRom
    <2> QED BY <1>5, <2>3, <2>4 DEF OpBusy
  <1>6. CASE CheckAnswered
    <2>1. \/ phase = "check" /\ phase' = "await" /\ SendCopy /\ UNCHANGED <<op, missed, cache>>
          \/ phase = "check" /\ RomChanged("restarted")
      BY <1>6, Zenon DEF CheckAnswered
    <2>2. CASE phase = "check" /\ phase' = "await" /\ SendCopy /\ UNCHANGED <<op, missed, cache>>
      <3>1. t'.dead = t.dead
        BY <2>2 DEF SendCopy, Types, TypeOK, Links
      <3>2. op'.timeouts > 0 => missed'
        BY <2>2 DEF RomHolds, CallHolds
      <3>3. \A p \in op'.fetch : cache[p] = None
        BY <2>2 DEF RomHolds, CallHolds
      <3> QED BY <1>0, <1>1, <2>2, <3>1, <3>2, <3>3, AskedRom
    <2> QED BY <1>0, <1>1, <2>1, <2>2, RomChangedRom DEF Results
  <1>7. CASE RecheckAnswered
    <2>0. phase = "recheck"
      BY <1>7, Zenon DEF RecheckAnswered
    <2>1. \/ /\ Head(down).kind = "ROM" /\ Head(down).img = cache[0]
             /\ missed' = FALSE /\ Return(op, cache, op.res) /\ UNCHANGED t
          \/ RomChanged(op.res)
          \/ Return(op, cache, op.res) /\ UNCHANGED <<missed, t>>
      BY <1>7, Zenon DEF RecheckAnswered
    <2>2. CASE /\ Head(down).kind = "ROM" /\ Head(down).img = cache[0]
               /\ missed' = FALSE /\ Return(op, cache, op.res) /\ UNCHANGED t
      <3>1. cache \in [Pages -> Images \cup {None}]
        BY DEF Types, TypeOK
      <3>2. cache' = cache
        BY <1>0, <2>0, <2>2, <3>1, ReturnKeeps
      <3>3. ~cart.unseen => \A p \in Pages : cache[p] = cart.image
        BY <1>2, <2>0, <2>2 DEF AsksRom
      <3>4. ResetKnown'
        BY <1>1, <3>2, <3>3 DEF ResetKnown, Current
      <3> QED BY <2>2, <3>4, IdleRom
    <2>3. CASE RomChanged(op.res)
      BY <1>0, <1>1, <2>0, <2>3, RomChangedRom
    <2>4. CASE Return(op, cache, op.res) /\ UNCHANGED <<missed, t>>
      BY <1>0, <1>1, <2>0, <2>4, KeptRom
    <2> QED BY <2>1, <2>2, <2>3, <2>4
  <1>8. CASE WrongAnswer
    <2>1. Fails /\ UNCHANGED t
      BY <1>8 DEF WrongAnswer
    <2>2. CASE Return(op, cache, "failed") /\ missed' = TRUE
      BY <1>1, <2>1, <2>2, KeptRom
    <2>3. CASE phase' = "down" /\ UNCHANGED <<op, missed, cache>>
      BY <1>1, <2>1, <2>3, QuietRom
    <2> QED BY <2>1, <2>2, <2>3 DEF Fails
  <1> QED BY <1>3, <1>4, <1>5, <1>6, <1>7, <1>8

LEMMA SilenceRom ==
  ASSUME Types, Types', LinkHolds, RomHolds, Pages \subseteq {0},
         QuickCopy \/ SoftTimeout \/ LastTimeout \/ ProbeTimeout \/ RecheckTimeout \/ SocketDies
         \/ GiveUp
  PROVE  RomHolds'
  <1>0. /\ op \in Ops /\ op.res \in Results /\ t \in Links /\ (HeaderKnown => op.fetch = {})
        /\ (phase \in {"check", "recheck"} => HeaderKnown) /\ (phase = "recheck" => missed)
    BY OpFields, NothingFetched DEF Types, TypeOK, RomHolds, CallHolds
  <1>1. Overdue => cart'.image = cart.image
    BY SilentConsole DEF Types
  <1>2. CASE QuickCopy
    <2>1. /\ UNCHANGED <<phase, op, missed, cache, down, cart>> /\ t' = [t EXCEPT !.copied = TRUE]
      BY <1>2 DEF QuickCopy
    <2>2. t'.want = t.want /\ t'.dead = t.dead
      BY <1>0, <2>1 DEF Links
    <2>3. PageIsCarts'
      BY <2>1, <2>2, SamePage DEF RomHolds, AsksRom
    <2>4. ResetKnown'
      BY <2>1, <2>2, SameReset DEF RomHolds
    <2> QED BY <2>1, <2>3, <2>4 DEF RomHolds, CallHolds, HeaderKnown
  <1>3. CASE SoftTimeout
    <2>1. /\ phase \in {"await", "check"} /\ Retry /\ Overdue /\ UNCHANGED <<cache, down>>
          /\ missed' = TRUE /\ op.timeouts < SoftRetries /\ op' = [op EXCEPT !.timeouts = @ + 1]
      BY <1>3 DEF SoftTimeout
    <2>2. op'.kind = op.kind /\ op'.fetch = op.fetch
      BY <1>0, <2>1, OpTimedOut
    <2> QED BY <1>1, <2>1, <2>2, RetryRom
  <1>4. CASE LastTimeout
    <2>1. /\ phase' = "down" /\ Overdue /\ UNCHANGED <<op, t, missed, cache>>
          /\ \/ phase \in {"await", "check"} /\ op.timeouts = SoftRetries
             \/ phase = "again"
      BY <1>4 DEF LastTimeout
    <2>2. CASE phase = "again"
      <3>1. ResetKnown'
        BY <2>1, <2>2, EmptyIsCurrent DEF RomHolds, CallHolds
      <3> QED BY <2>1, <3>1 DEF RomHolds, PageIsCarts, AsksRom, CallHolds
    <2>3. CASE phase \in {"await", "check"} /\ op.timeouts = SoftRetries
      <3>1. missed
        BY <2>3, RetriesAssumption DEF RomHolds, CallHolds
      <3> QED BY <1>1, <2>1, <3>1, QuietRom
    <2> QED BY <2>1, <2>2, <2>3
  <1>5. CASE ProbeTimeout
    BY <1>1, <1>5, KeptRom DEF ProbeTimeout
  <1>6. CASE RecheckTimeout
    BY <1>0, <1>1, <1>6, KeptRom DEF RecheckTimeout
  <1>7. CASE SocketDies
    <2>1. t' = [t EXCEPT !.dead = TRUE] /\ UNCHANGED cart
      BY <1>7 DEF SocketDies
    <2>2. t'.dead
      BY <1>0, <2>1 DEF Links
    <2>3. CASE phase = "recheck" /\ Return(op, cache, op.res) /\ UNCHANGED missed
      BY <1>0, <2>1, <2>2, <2>3, KeptRom
    <2>4. CASE Return(op, cache, "failed") /\ missed' = TRUE
      BY <2>1, <2>2, <2>4, KeptRom
    <2>5. CASE phase' = "down" /\ UNCHANGED <<op, missed, cache>>
      BY <2>1, <2>2, <2>5, QuietRom
    <2> QED BY <1>7, <2>3, <2>4, <2>5 DEF SocketDies, Fails
  <1>8. CASE GiveUp
    BY <1>8, KeptRom DEF GiveUp
  <1> QED BY <1>2, <1>3, <1>4, <1>5, <1>6, <1>7, <1>8

LEMMA ConnectRom ==
  ASSUME Types, Types', LinkHolds, RomHolds, Pages \subseteq {0},
         Dial \/ DialAnsweredWrite \/ DialAnsweredRead \/ DialFails \/ GreetAnswered \/ GreetFails
  PROVE  RomHolds'
  <1>0. /\ op \in Ops /\ t \in Links /\ (HeaderKnown => op.fetch = {})
        /\ (phase = "greet" => HeaderKnown) /\ EmptyCache \in [Pages -> Images \cup {None}]
    BY NothingFetched, EmptyCacheType DEF Types, TypeOK, RomHolds, CallHolds
  <1>1. ASSUME NEW o, NEW r, Return(o, EmptyCache, r), o.kind = "rom" /\ r = "ok" => o.fetch = {}
        PROVE  RomHolds'
    <2>1. cache' = EmptyCache
      BY <1>0, <1>1, ReturnKeeps
    <2> QED BY <1>1, <2>1, EmptyIsCurrent, IdleRom
  <1>2. CASE Dial
    BY <1>2, QuietRom DEF Dial
  <1>3. CASE DialAnsweredWrite
    BY <1>1, <1>3 DEF DialAnsweredWrite
  <1>4. CASE DialAnsweredRead
    <2>1. HelloArrives
      BY <1>4 DEF DialAnsweredRead
    <2>2. CASE Return(op, EmptyCache, "failed")
      BY <1>1, <2>2
    <2>3. CASE phase' \in {"down", "again"} /\ op' = [op EXCEPT !.moved = TRUE] /\ cache' = EmptyCache
      <3>1. down' = << >> /\ DOMAIN down' = {}
        BY <2>1, Heard DEF LinkHolds
      <3>2. op'.fetch = op.fetch /\ op.fetch \subseteq Pages
        BY <1>0, <2>3, OpMoved, OpFields
      <3>3. CallHolds'
        BY <2>3, <3>2 DEF CallHolds, EmptyCache
      <3>4. PageIsCarts'
        BY <3>1 DEF PageIsCarts
      <3> QED BY <2>3, <3>3, <3>4, EmptyIsCurrent DEF RomHolds
    <2> QED BY <1>4, <2>2, <2>3 DEF DialAnsweredRead
  <1>5. CASE DialFails
    <2>1. /\ phase' = "down" /\ UNCHANGED <<op, t, missed, cache>>
          /\ cart'.image = cart.image /\ cart'.unseen = cart.unseen
      BY <1>5 DEF DialFails, TimePasses, Types, TypeOK, Consoles
    <2> QED BY <2>1, QuietRom
  <1>6. ASSUME NEW link, Greeted(link), phase = "greet"
        PROVE  RomHolds'
    <2> DEFINE o == [op EXCEPT !.moved = TRUE]
    <2>1. Return(o, EmptyCache, op.res)
      BY <1>6 DEF Greeted
    <2>2. o.fetch = {}
      BY <1>0, <1>6, OpMoved
    <2> HIDE DEF o
    <2> QED BY <1>1, <2>1, <2>2
  <1>7. CASE GreetAnswered \/ GreetFails
    BY <1>6, <1>7 DEF GreetAnswered, GreetFails
  <1> QED BY <1>2, <1>3, <1>4, <1>5, <1>7

\* recheck_rom: with no miss outstanding, what is cached of the ROM is the ROM on the cart, if
\* page 0 is all that is read of it (recheck_rom compares no other: CartLinkStitch) and a HELLO
\* is answered within its connect.
THEOREM CachedIsTheCarts ==
  ~SlowHello /\ Pages \subseteq {0} /\ Spec => []CacheIsCarts
  <1> SUFFICES ASSUME ~SlowHello, Pages \subseteq {0}
               PROVE  Spec => []CacheIsCarts
    OBVIOUS
  <1> DEFINE IInv == Types /\ LinkHolds /\ SentFits /\ RomHolds
  <1>1. Init => IInv
    <2> SUFFICES ASSUME Init PROVE RomHolds
      BY InitTypes, InitLink
    <2>1. phase = "idle" /\ op = NoOp /\ cache = EmptyCache
      BY DEF Init
    <2> QED BY <2>1
            DEF RomHolds, PageIsCarts, AsksRom, ResetKnown, Current, CallHolds, EmptyCache, NoOp
  <1>2. IInv /\ [Next]_vars => IInv'
    <2> SUFFICES ASSUME IInv, [Next]_vars PROVE IInv'
      OBVIOUS
    <2>1. Types' /\ LinkHolds' /\ SentFits'
      BY StepTypes, StepLink, StepSent
    <2>2. CASE UNCHANGED vars
      BY <2>1, <2>2
         DEF vars, RomHolds, PageIsCarts, AsksRom, ResetKnown, Current, CallHolds, HeaderKnown
    <2>3. CASE Next
      BY <2>1, <2>3, CallerRom, AnswerRom, SilenceRom, ConnectRom, PathRom DEF Next, Host
    <2> QED BY <2>1, <2>2, <2>3
  <1>3. IInv => CacheIsCarts
    BY DEF RomHolds, ResetKnown, Current, CacheIsCarts
  <1> QED BY <1>1, <1>2, <1>3, PTL DEF Spec

=============================================================================
