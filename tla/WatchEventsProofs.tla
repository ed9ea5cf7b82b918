-------------------------- MODULE WatchEventsProofs --------------------------
(***************************************************************************)
(* Proofs about WatchEvents: for any number of events and messages, any    *)
(* sizes of both queues and any number of losses, resets and new links.    *)
(***************************************************************************)
EXTENDS WatchEvents, SequenceTheorems, NaturalsInduction, WellFoundedInduction, TLAPS

-----------------------------------------------------------------------------
(* The inductive invariant.                                                *)

Rising(s) == \A i, j \in 1..Len(s) : i < j => s[i] < s[j]
Before(s, t) == \A i \in 1..Len(s), j \in 1..Len(t) : s[i] < t[j]
UpTo(s, n) == \A i \in 1..Len(s) : s[i] <= n
Below(s, n) == \A i \in 1..Len(s) : s[i] < n

\* What the connector was shown and is about to be.
Told == <<shown>> \o queue

Agents == [watching : BOOLEAN, have : BOOLEAN, last : Nat, queue : Seq(Nat), dropped : Nat]
Asked == [msg : {"HELLO", "WATCH", "PEEKV"}, stale : BOOLEAN, sample : {0, 1}]
Answers == [msg : {"HELLO_ACK", "WATCH_ACK", "PEEKV_RESP"}, stale : BOOLEAN,
            events : Seq(Nat), dropped : Nat, sample : Nat]
Trailers == [events : Seq(Nat), seen : Nat, new : Nat]

EventTypes ==
  /\ happened \in Nat /\ watched \in {0, happened} /\ agent \in Agents
  /\ toAgent \in Seq(Asked) /\ fromAgent \in Seq(Answers)
  /\ greeting \in BOOLEAN /\ probing \in BOOLEAN /\ onCart \in BOOLEAN
  /\ link \in Trailers /\ fresh \in Trailers
  /\ queue \in Seq(Nat) /\ shown \in Nat /\ resampled \in BOOLEAN

\* The agent's next look finds an event.
Due(ag, w) == ag.have /\ w # ag.last /\ w # 0

\* What the agent ag sent (m) and what it holds is of the n events there were,
\* in order, and before the one that it is about to find.
Rises(n, w, ag, m) ==
  /\ Rising(ag.queue) /\ UpTo(ag.queue, n) /\ (Due(ag, w) => Below(ag.queue, w))
  /\ \A i \in 1..Len(m) :
       /\ Rising(m[i].events) /\ UpTo(m[i].events, n) /\ m[i].sample <= n
       /\ Before(m[i].events, ag.queue)
       /\ Due(ag, w) => Below(m[i].events, w)
       /\ \A j \in 1..Len(m) : i < j => Before(m[i].events, m[j].events)

\* What is on its way from a message on, and what is to come, is later than s.
Follows(s, from, w, ag, m) ==
  /\ Before(s, ag.queue) /\ (Due(ag, w) => Below(s, w))
  /\ \A i \in from..Len(m) : Before(s, m[i].events)

\* So is what comes after an answer to the WATCH that is waited for.
AckFollows(s, w, ag, m) ==
  \A k \in 1..Len(m) :
     m[k].msg = "WATCH_ACK" /\ ~m[k].stale => Follows(s, k + 1, w, ag, m)

\* A sample that will be looked at is not older.
SampleFollows(s, m) ==
  \A i \in 1..Len(m) : m[i].sample # 0 => UpTo(s, m[i].sample)

\* While AP64 relies on the watch, all that is on its way is later than what
\* the connector is shown.
WatchFollows ==
  onCart => /\ Rising(link.events) /\ UpTo(link.events, happened)
            /\ Before(Told, link.events)
            /\ Follows(Told, 1, watched, agent, fromAgent)
            /\ Follows(link.events, 1, watched, agent, fromAgent)

EventsHold ==
  /\ EventTypes
  /\ Rises(happened, watched, agent, fromAgent)
  /\ UpTo(Told, happened)
  /\ WatchFollows
  /\ AckFollows(Told, watched, agent, fromAgent)
  /\ ~onCart => SampleFollows(Told, fromAgent)
  /\ probing => ~onCart     \* the slot is sampled only without a watch
  /\ EventsInOrder

-----------------------------------------------------------------------------
(* What becomes of a path: s stands for what must stay before it.          *)

LEMMA AnswerIs ==
  ASSUME NEW m \in Seq(Answers), NEW i \in 1..Len(m)
  PROVE  /\ m[i] \in Answers /\ m[i].msg \in {"HELLO_ACK", "WATCH_ACK", "PEEKV_RESP"}
         /\ m[i].stale \in BOOLEAN /\ m[i].events \in Seq(Nat)
         /\ m[i].dropped \in Nat /\ m[i].sample \in Nat
  <1>1. m[i] \in Answers
    OBVIOUS
  <1> QED  BY <1>1 DEF Answers

\* A look of the agent.
LEMMA Looks ==
  ASSUME NEW n \in Nat, NEW w \in {0, n}, NEW ag \in Agents, NEW m \in Seq(Answers),
         NEW q \in Seq(Nat), NEW ag2 \in Agents, Rises(n, w, ag, m),
         ag2.last = w,
         \/ ~Due(ag, w) /\ ag2.queue = ag.queue
         \/ Due(ag, w) /\ ag2.queue = Append(q, w) /\ q \in {ag.queue, Tail(ag.queue)}
                       /\ (q # ag.queue => ag.queue # <<>>)
  PROVE  /\ Rises(n, w, ag2, m)
         /\ \A s \in Seq(Nat) : \A f \in Nat :
              Follows(s, f, w, ag, m) => Follows(s, f, w, ag2, m)
  <1>1. ~Due(ag2, w)
    BY DEF Due
  <1>2. CASE ~Due(ag, w)
    <2>1. ag2.queue = ag.queue
      BY <1>2
    <2> QED  BY <1>1, <2>1 DEF Rises, Follows
  <1>3. CASE Due(ag, w)
    <2>1. ag2.queue = Append(q, w) /\ ag.queue \in Seq(Nat) /\ w = n
      BY <1>3 DEF Agents, Due
    <2>2. \A i \in 1..Len(q) : \E j \in 1..Len(ag.queue) : q[i] = ag.queue[j]
      <3>1. CASE q = ag.queue
        BY <3>1
      <3>2. CASE q = Tail(ag.queue) /\ ag.queue # <<>>
        <4>1. \A i \in 1..Len(q) : i + 1 \in 1..Len(ag.queue) /\ q[i] = ag.queue[i + 1]
          BY <2>1, <3>2
        <4> QED  BY <4>1
      <3> QED  BY <1>3, <3>1, <3>2
    <2>3. Rising(q)
      <3>1. CASE q = ag.queue
        BY <3>1 DEF Rises
      <3>2. CASE q = Tail(ag.queue) /\ ag.queue # <<>>
        <4>1. \A i \in 1..Len(q) : i + 1 \in 1..Len(ag.queue) /\ q[i] = ag.queue[i + 1]
          BY <2>1, <3>2
        <4>2. Rising(ag.queue)
          BY DEF Rises
        <4>3. ASSUME NEW i \in 1..Len(q), NEW j \in 1..Len(q), i < j PROVE q[i] < q[j]
          <5>1. i + 1 < j + 1
            BY <4>3
          <5> QED  BY <4>1, <4>2, <5>1 DEF Rising
        <4> QED  BY <4>3 DEF Rising
      <3> QED  BY <1>3, <3>1, <3>2
    <2>4. UpTo(q, n) /\ Below(q, w)
      BY <1>3, <2>2 DEF Rises, UpTo, Below
    <2>5. \A i \in 1..Len(Append(q, w)) :
            Append(q, w)[i] = w \/ (i \in 1..Len(q) /\ Append(q, w)[i] = q[i])
      OBVIOUS
    <2>6. Rising(ag2.queue) /\ UpTo(ag2.queue, n)
      <3>1. UpTo(Append(q, w), n)
        BY <2>1, <2>4, <2>5 DEF UpTo
      <3>2. ASSUME NEW i \in 1..Len(Append(q, w)), NEW j \in 1..Len(Append(q, w)), i < j
            PROVE  Append(q, w)[i] < Append(q, w)[j]
        <4>1. i \in 1..Len(q) /\ Append(q, w)[i] = q[i]
          BY <3>2
        <4>2. CASE j \in 1..Len(q)
          BY <2>3, <3>2, <4>1, <4>2 DEF Rising
        <4>3. CASE j = Len(q) + 1
          BY <2>4, <4>1, <4>3 DEF Below
        <4> QED  BY <4>2, <4>3
      <3> QED  BY <2>1, <3>1, <3>2 DEF Rising
    <2>7. ASSUME NEW s \in Seq(Nat), Before(s, ag.queue), Below(s, w)
          PROVE  Before(s, ag2.queue)
      BY <2>1, <2>2, <2>5, <2>7 DEF Before, Below
    <2>8. \A i \in 1..Len(m) : m[i].events \in Seq(Nat)
      BY AnswerIs
    <2>9. Rises(n, w, ag2, m)
      BY <1>1, <1>3, <2>6, <2>7, <2>8 DEF Rises
    <2> QED  BY <1>1, <1>3, <2>7, <2>9 DEF Follows
  <1> QED  BY <1>2, <1>3

\* The game writes: a new event, or zero.
LEMMA Writes ==
  ASSUME NEW n \in Nat, NEW w, NEW ag \in Agents, NEW m \in Seq(Answers),
         Rises(n, w, ag, m), NEW n2 \in {n, n + 1}, NEW w2 \in {0, n + 1},
         w2 # 0 => n2 = n + 1
  PROVE  /\ Rises(n2, w2, ag, m)
         /\ \A s \in Seq(Nat) : UpTo(s, n) =>
              /\ UpTo(s, n2)
              /\ \A f \in Nat : Follows(s, f, w, ag, m) => Follows(s, f, w2, ag, m)
  <1>1. ASSUME NEW s \in Seq(Nat), UpTo(s, n)
        PROVE  UpTo(s, n2) /\ (Due(ag, w2) => Below(s, w2))
    BY <1>1 DEF UpTo, Below, Due
  <1>2. ag.queue \in Seq(Nat) /\ \A i \in 1..Len(m) : m[i].events \in Seq(Nat) /\ m[i].sample \in Nat
    BY AnswerIs DEF Agents
  <1>3. \A i \in 1..Len(m) : m[i].sample <= n => m[i].sample <= n2
    BY <1>2
  <1>4. Rises(n2, w2, ag, m)
    BY <1>1, <1>2, <1>3 DEF Rises
  <1> QED  BY <1>1, <1>4 DEF Follows

\* Part of a sequence.
Part(t, q) == \A i \in 1..Len(t) : \E j \in 1..Len(q) : t[i] = q[j]

\* The agent answers: what it sends and what it keeps are parts of what it held.
LEMMA Appends ==
  ASSUME NEW n \in Nat, NEW w \in {0, n}, NEW ag \in Agents, NEW ag2 \in Agents,
         NEW m \in Seq(Answers), NEW r \in Answers,
         Rises(n, w, ag, m), r.sample \in {0, w},
         Part(r.events, ag.queue), Part(ag2.queue, ag.queue),
         Rising(r.events), Rising(ag2.queue), Before(r.events, ag2.queue),
         Due(ag2, w) => Due(ag, w)
  PROVE  /\ Rises(n, w, ag2, Append(m, r))
         /\ \A s \in Seq(Nat) : \A f \in 1..Len(m) + 1 :
              Follows(s, f, w, ag, m) => Follows(s, f, w, ag2, Append(m, r))
         /\ \A s \in Seq(Nat) : UpTo(s, n) /\ SampleFollows(s, m) => SampleFollows(s, Append(m, r))
         /\ (~r.stale /\ r.msg = "WATCH_ACK" => ag2.queue = <<>> /\ ~ag2.have) =>
              \A s \in Seq(Nat) :
                AckFollows(s, w, ag, m) => AckFollows(s, w, ag2, Append(m, r))
  <1> DEFINE m2 == Append(m, r)
  <1>0. /\ r.events \in Seq(Nat) /\ r.sample \in Nat /\ r.dropped \in Nat
        /\ ag.queue \in Seq(Nat) /\ ag2.queue \in Seq(Nat)
    BY DEF Answers, Agents
  <1>1. /\ Len(m2) = Len(m) + 1 /\ m2[Len(m) + 1] = r /\ Len(m) \in Nat
        /\ \A i \in 1..Len(m) : m2[i] = m[i]
    OBVIOUS
  <1> HIDE DEF m2
  <1>2. ASSUME NEW s \in Seq(Nat), Before(s, ag.queue)
        PROVE  Before(s, r.events) /\ Before(s, ag2.queue)
    BY <1>0, <1>2 DEF Before, Part
  <1>3. ASSUME NEW v, Below(ag.queue, v) PROVE Below(r.events, v) /\ Below(ag2.queue, v)
    BY <1>0, <1>3 DEF Below, Part
  <1>4. UpTo(r.events, n) /\ UpTo(ag2.queue, n)
    BY <1>0 DEF Rises, UpTo, Part
  <1>5. \A i \in 1..Len(m) : m[i].events \in Seq(Nat) /\ m[i].sample \in Nat
    BY AnswerIs
  <1>6. Rises(n, w, ag2, m2)
    <2>1. Due(ag2, w) => Below(ag2.queue, w)
      BY <1>3 DEF Rises
    <2>2. ASSUME NEW i \in 1..Len(m2)
          PROVE  /\ Rising(m2[i].events) /\ UpTo(m2[i].events, n) /\ m2[i].sample <= n
                 /\ Before(m2[i].events, ag2.queue)
                 /\ Due(ag2, w) => Below(m2[i].events, w)
                 /\ \A j \in 1..Len(m2) : i < j => Before(m2[i].events, m2[j].events)
      <3>1. CASE i \in 1..Len(m)
        <4>1. m2[i] = m[i] /\ m[i].events \in Seq(Nat)
          BY <1>1, <1>5, <3>1
        <4>2. /\ Rising(m[i].events) /\ UpTo(m[i].events, n) /\ m[i].sample <= n
              /\ Before(m[i].events, ag.queue)
              /\ Due(ag, w) => Below(m[i].events, w)
              /\ \A j \in 1..Len(m) : i < j => Before(m[i].events, m[j].events)
          BY <3>1 DEF Rises
        <4>3. Before(m[i].events, r.events) /\ Before(m[i].events, ag2.queue)
          BY <1>2, <4>1, <4>2
        <4>4. ASSUME NEW j \in 1..Len(m2), i < j PROVE Before(m[i].events, m2[j].events)
          <5>1. CASE j \in 1..Len(m)
            BY <1>1, <4>2, <4>4, <5>1
          <5>2. CASE j = Len(m) + 1
            BY <1>1, <4>3, <5>2
          <5> QED  BY <1>1, <5>1, <5>2
        <4> QED  BY <4>1, <4>2, <4>3, <4>4
      <3>2. CASE i = Len(m) + 1
        <4>1. m2[i] = r /\ \A j \in 1..Len(m2) : ~(i < j)
          BY <1>1, <3>2
        <4>2. r.sample <= n
          OBVIOUS
        <4>3. Due(ag2, w) => Below(r.events, w)
          BY <1>3 DEF Rises
        <4> QED  BY <1>4, <4>1, <4>2, <4>3
      <3> QED  BY <1>1, <3>1, <3>2
    <2> QED  BY <1>4, <2>1, <2>2 DEF Rises
  <1>7. ASSUME NEW s \in Seq(Nat), NEW f \in 1..Len(m) + 1, Follows(s, f, w, ag, m)
        PROVE  Follows(s, f, w, ag2, m2)
    <2>1. Before(s, ag2.queue) /\ Before(s, r.events)
      BY <1>2, <1>7 DEF Follows
    <2>2. Due(ag2, w) => Below(s, w)
      BY <1>7 DEF Follows
    <2>3. ASSUME NEW i \in f..Len(m2) PROVE Before(s, m2[i].events)
      <3>1. CASE i \in 1..Len(m)
        BY <1>1, <1>7, <3>1 DEF Follows
      <3>2. CASE i = Len(m) + 1
        BY <1>1, <2>1, <3>2
      <3> QED  BY <1>1, <3>1, <3>2
    <2> QED  BY <2>1, <2>2, <2>3 DEF Follows
  <1>8. ASSUME NEW s \in Seq(Nat), UpTo(s, n), SampleFollows(s, m)
        PROVE  SampleFollows(s, m2)
    <2>1. ASSUME NEW i \in 1..Len(m2), m2[i].sample # 0 PROVE UpTo(s, m2[i].sample)
      <3>1. CASE i \in 1..Len(m)
        BY <1>1, <1>8, <2>1, <3>1 DEF SampleFollows
      <3>2. CASE i = Len(m) + 1
        BY <1>1, <1>8, <2>1, <3>2
      <3> QED  BY <1>1, <3>1, <3>2
    <2> QED  BY <2>1 DEF SampleFollows
  <1>9. ASSUME ~r.stale /\ r.msg = "WATCH_ACK" => ag2.queue = <<>> /\ ~ag2.have,
               NEW s \in Seq(Nat), AckFollows(s, w, ag, m)
        PROVE  AckFollows(s, w, ag2, m2)
    <2>1. ASSUME NEW k \in 1..Len(m2), m2[k].msg = "WATCH_ACK", ~m2[k].stale
          PROVE  Follows(s, k + 1, w, ag2, m2)
      <3>1. CASE k \in 1..Len(m)
        <4>1. Follows(s, k + 1, w, ag, m) /\ k + 1 \in 1..Len(m) + 1
          BY <1>1, <1>9, <2>1, <3>1 DEF AckFollows
        <4> QED  BY <1>7, <4>1
      <3>2. CASE k = Len(m) + 1
        <4>1. ag2.queue = <<>> /\ ~ag2.have /\ \A i \in k + 1..Len(m2) : FALSE
          BY <1>1, <1>9, <2>1, <3>2
        <4> QED  BY <4>1 DEF Follows, Before, Due
      <3> QED  BY <1>1, <3>1, <3>2
    <2> QED  BY <2>1 DEF AckFollows
  <1> QED  BY <1>6, <1>7, <1>8, <1>9 DEF m2

\* What is sent of a queue, and what stays in it.
LEMMA Cuts ==
  ASSUME NEW q \in Seq(Nat), Rising(q), NEW k \in 0..Len(q)
  PROVE  /\ SubSeq(q, 1, k) \in Seq(Nat) /\ SubSeq(q, k + 1, Len(q)) \in Seq(Nat)
         /\ Part(SubSeq(q, 1, k), q) /\ Part(SubSeq(q, k + 1, Len(q)), q)
         /\ Rising(SubSeq(q, 1, k)) /\ Rising(SubSeq(q, k + 1, Len(q)))
         /\ Before(SubSeq(q, 1, k), SubSeq(q, k + 1, Len(q)))
  <1> DEFINE a == SubSeq(q, 1, k)
             b == SubSeq(q, k + 1, Len(q))
  <1>1. /\ a \in Seq(Nat) /\ Len(a) = k
        /\ \A i \in 1..k : a[i] = q[i] /\ i \in 1..Len(q)
    OBVIOUS
  <1>2. /\ b \in Seq(Nat) /\ Len(b) = Len(q) - k
        /\ \A i \in 1..Len(q) - k : b[i] = q[k + i] /\ k + i \in 1..Len(q)
    OBVIOUS
  <1> HIDE DEF a, b
  <1>3. Part(a, q) /\ Part(b, q)
    BY <1>1, <1>2 DEF Part
  <1>4. Rising(a)
    BY <1>1 DEF Rising
  <1>5. Rising(b)
    <2>1. ASSUME NEW i \in 1..Len(b), NEW j \in 1..Len(b), i < j PROVE q[k + i] < q[k + j]
      <3>1. k + i < k + j /\ k + i \in 1..Len(q) /\ k + j \in 1..Len(q)
        BY <1>2, <2>1
      <3> QED  BY <3>1 DEF Rising
    <2> QED  BY <1>2, <2>1 DEF Rising
  <1>6. Before(a, b)
    <2>1. ASSUME NEW i \in 1..Len(a), NEW j \in 1..Len(b) PROVE q[i] < q[k + j]
      <3>1. i < k + j /\ i \in 1..Len(q) /\ k + j \in 1..Len(q)
        BY <1>1, <1>2
      <3> QED  BY <3>1 DEF Rising
    <2> QED  BY <1>1, <1>2, <2>1 DEF Before
  <1> QED  BY <1>1, <1>2, <1>3, <1>4, <1>5, <1>6 DEF a, b

\* A message leaves the path at its front.
LEMMA Drops ==
  ASSUME NEW n \in Nat, NEW w \in {0, n}, NEW ag \in Agents, NEW m \in Seq(Answers),
         m # <<>>, Rises(n, w, ag, m)
  PROVE  /\ Rises(n, w, ag, Tail(m))
         /\ \A s : \A f \in Nat \ {0} :
              Follows(s, f + 1, w, ag, m) => Follows(s, f, w, ag, Tail(m))
         /\ \A s : Follows(s, 1, w, ag, m) => Follows(s, 1, w, ag, Tail(m))
         /\ \A s : SampleFollows(s, m) => SampleFollows(s, Tail(m))
         /\ \A s : AckFollows(s, w, ag, m) => AckFollows(s, w, ag, Tail(m))
  <1> DEFINE m2 == Tail(m)
  <1>1. /\ Len(m2) = Len(m) - 1 /\ Len(m) \in Nat
        /\ \A i \in 1..Len(m2) : m2[i] = m[i + 1] /\ i + 1 \in 1..Len(m)
    OBVIOUS
  <1> HIDE DEF m2
  <1>2. Rises(n, w, ag, m2)
    <2>1. ASSUME NEW i \in 1..Len(m2), NEW j \in 1..Len(m2), i < j
          PROVE  Before(m2[i].events, m2[j].events)
      <3>1. i + 1 < j + 1
        BY <1>1, <2>1
      <3> QED  BY <1>1, <3>1 DEF Rises
    <2> QED  BY <1>1, <2>1 DEF Rises
  <1>3. ASSUME NEW s, NEW f \in Nat \ {0}, Follows(s, f + 1, w, ag, m)
        PROVE  Follows(s, f, w, ag, m2)
    <2>1. \A i \in f..Len(m2) : m2[i] = m[i + 1] /\ i + 1 \in f + 1..Len(m)
      BY <1>1
    <2> QED  BY <1>3, <2>1 DEF Follows
  <1>4. ASSUME NEW s, Follows(s, 1, w, ag, m) PROVE Follows(s, 1, w, ag, m2)
    BY <1>1, <1>4 DEF Follows
  <1>5. ASSUME NEW s, SampleFollows(s, m) PROVE SampleFollows(s, m2)
    BY <1>1, <1>5 DEF SampleFollows
  <1>6. ASSUME NEW s, AckFollows(s, w, ag, m) PROVE AckFollows(s, w, ag, m2)
    <2>1. ASSUME NEW k \in 1..Len(m2), m2[k].msg = "WATCH_ACK", ~m2[k].stale
          PROVE  Follows(s, k + 1, w, ag, m2)
      <3>1. Follows(s, (k + 1) + 1, w, ag, m)
        BY <1>1, <1>6, <2>1 DEF AckFollows
      <3> QED  BY <1>3, <3>1
    <2> QED  BY <2>1 DEF AckFollows
  <1> QED  BY <1>2, <1>3, <1>4, <1>5, <1>6 DEF m2

LEMMA StaleIs ==
  ASSUME NEW r \in Answers
  PROVE  /\ [r EXCEPT !.stale = TRUE, !.sample = 0] \in Answers
         /\ [r EXCEPT !.stale = TRUE, !.sample = 0].events = r.events
         /\ [r EXCEPT !.stale = TRUE, !.sample = 0].sample = 0
         /\ [r EXCEPT !.stale = TRUE, !.sample = 0].stale = TRUE
BY DEF Answers

\* What was sent is no longer waited for.
LEMMA Stales ==
  ASSUME NEW n \in Nat, NEW w \in {0, n}, NEW ag \in Agents, NEW m \in Seq(Answers),
         Rises(n, w, ag, m)
  PROVE  /\ Stale(m) \in Seq(Answers) /\ Rises(n, w, ag, Stale(m))
         /\ \A s : \A f \in 1..Len(m) + 1 :
              Follows(s, f, w, ag, m) => Follows(s, f, w, ag, Stale(m))
         /\ \A s : SampleFollows(s, Stale(m)) /\ AckFollows(s, w, ag, Stale(m))
  <1> DEFINE m2 == Stale(m)
  <1>1. /\ Len(m2) = Len(m) /\ m2 \in Seq(Answers) /\ Len(m) \in Nat
        /\ \A i \in 1..Len(m) : m2[i].events = m[i].events /\ m2[i].sample = 0 /\ m2[i].stale
    <2>1. m2 = [i \in 1..Len(m) |-> [m[i] EXCEPT !.stale = TRUE, !.sample = 0]]
      BY DEF Stale
    <2>2. ASSUME NEW i \in 1..Len(m)
          PROVE  /\ m2[i] \in Answers /\ m2[i].events = m[i].events
                 /\ m2[i].sample = 0 /\ m2[i].stale = TRUE
      <3>1. m[i] \in Answers
        BY AnswerIs
      <3>2. m2[i] = [m[i] EXCEPT !.stale = TRUE, !.sample = 0]
        BY <2>1, Zenon
      <3> HIDE DEF m2
      <3> QED  BY <3>1, <3>2, StaleIs
    <2>3. m2 \in Seq(Answers) /\ Len(m2) = Len(m)
      <3>1. \A i \in 1..Len(m) : [m[i] EXCEPT !.stale = TRUE, !.sample = 0] \in Answers
        <4>1. ASSUME NEW i \in 1..Len(m)
              PROVE  [m[i] EXCEPT !.stale = TRUE, !.sample = 0] \in Answers
          <5>1. m[i] \in Answers
            BY AnswerIs
          <5> QED  BY <5>1, StaleIs
        <4> QED  BY <4>1
      <3>2. Len(m) \in Nat
        OBVIOUS
      <3> DEFINE g(i) == [m[i] EXCEPT !.stale = TRUE, !.sample = 0]
      <3>3. m2 = [i \in 1..Len(m) |-> g(i)] /\ \A i \in 1..Len(m) : g(i) \in Answers
        BY <2>1, <3>1
      <3> HIDE DEF g, m2
      <3> QED  BY <3>2, <3>3
    <2>4. \A i \in 1..Len(m) : m2[i].events = m[i].events /\ m2[i].sample = 0 /\ m2[i].stale
      BY <2>2
    <2> HIDE DEF m2
    <2> QED  BY <2>3, <2>4
  <1> HIDE DEF m2
  <1>2. Rises(n, w, ag, m2)
    BY <1>1 DEF Rises
  <1>3. ASSUME NEW s, NEW f \in 1..Len(m) + 1, Follows(s, f, w, ag, m)
        PROVE  Follows(s, f, w, ag, m2)
    BY <1>1, <1>3 DEF Follows
  <1>4. ASSUME NEW s PROVE SampleFollows(s, m2) /\ AckFollows(s, w, ag, m2)
    BY <1>1 DEF SampleFollows, AckFollows
  <1> QED  BY <1>1, <1>2, <1>3, <1>4 DEF m2

-----------------------------------------------------------------------------
(* What becomes of the events that AP64 holds.                             *)

LEMMA PartKeeps ==
  ASSUME NEW s \in Seq(Nat), NEW t \in Seq(Nat), Part(t, s)
  PROVE  /\ \A n : UpTo(s, n) => UpTo(t, n)
         /\ \A v : Below(s, v) => Below(t, v)
         /\ \A u : Before(s, u) => Before(t, u)
         /\ \A f, w, ag, m : Follows(s, f, w, ag, m) => Follows(t, f, w, ag, m)
         /\ \A w, ag, m : AckFollows(s, w, ag, m) => AckFollows(t, w, ag, m)
         /\ \A m : SampleFollows(s, m) => SampleFollows(t, m)
  <1>1. \A n : UpTo(s, n) => UpTo(t, n)
    BY DEF UpTo, Part
  <1>2. \A v : Below(s, v) => Below(t, v)
    BY DEF Below, Part
  <1>3. \A u : Before(s, u) => Before(t, u)
    BY DEF Before, Part
  <1>4. \A f, w, ag, m : Follows(s, f, w, ag, m) => Follows(t, f, w, ag, m)
    BY <1>2, <1>3 DEF Follows
  <1>5. \A w, ag, m : AckFollows(s, w, ag, m) => AckFollows(t, w, ag, m)
    BY <1>4 DEF AckFollows
  <1>6. \A m : SampleFollows(s, m) => SampleFollows(t, m)
    BY <1>1 DEF SampleFollows
  <1> QED  BY <1>1, <1>2, <1>3, <1>4, <1>5, <1>6

\* The order in which the connector is shown events; a sample may be of one
\* that it was shown.
Ordered(s, sampling) ==
  \A i, j \in 1..Len(s) : i < j => s[i] < s[j] \/ (s[i] = s[j] /\ sampling)

\* Two sequences in a row.
LEMMA Joins ==
  ASSUME NEW s \in Seq(Nat), NEW t \in Seq(Nat)
  PROVE  /\ s \o t \in Seq(Nat) /\ Len(s \o t) = Len(s) + Len(t)
         /\ \A i \in 1..Len(s \o t) :
              \/ i \in 1..Len(s) /\ (s \o t)[i] = s[i]
              \/ i - Len(s) \in 1..Len(t) /\ (s \o t)[i] = t[i - Len(s)]
         /\ \A n : UpTo(s, n) /\ UpTo(t, n) => UpTo(s \o t, n)
         /\ \A u : Before(s, u) /\ Before(t, u) => Before(s \o t, u)
         /\ \A u : Before(u, s) /\ Before(u, t) => Before(u, s \o t)
         /\ \A f, w, ag, m : Follows(s, f, w, ag, m) /\ Follows(t, f, w, ag, m)
                               => Follows(s \o t, f, w, ag, m)
         /\ Rising(s) /\ Rising(t) /\ Before(s, t) => Rising(s \o t)
         /\ \A b : Ordered(s, b) /\ Rising(t) /\ Before(s, t) => Ordered(s \o t, b)
  <1> DEFINE c == s \o t
  <1>1. /\ c \in Seq(Nat) /\ Len(c) = Len(s) + Len(t) /\ Len(s) \in Nat /\ Len(t) \in Nat
        /\ \A i \in 1..Len(c) :
             \/ i \in 1..Len(s) /\ c[i] = s[i]
             \/ i - Len(s) \in 1..Len(t) /\ c[i] = t[i - Len(s)]
    <2>1. c \in Seq(Nat) /\ Len(c) = Len(s) + Len(t) /\ Len(s) \in Nat /\ Len(t) \in Nat
      OBVIOUS
    <2>2. ASSUME NEW i \in 1..Len(c)
          PROVE  \/ i \in 1..Len(s) /\ c[i] = s[i]
                 \/ i - Len(s) \in 1..Len(t) /\ c[i] = t[i - Len(s)]
      <3>1. CASE i <= Len(s)
        BY <2>1, <3>1
      <3>2. CASE i > Len(s)
        BY <2>1, <3>2
      <3> QED  BY <2>1, <3>1, <3>2
    <2> QED  BY <2>1, <2>2
  <1> HIDE DEF c
  <1>2. \A n : UpTo(s, n) /\ UpTo(t, n) => UpTo(c, n)
    BY <1>1 DEF UpTo
  <1>3. \A v : Below(s, v) /\ Below(t, v) => Below(c, v)
    BY <1>1 DEF Below
  <1>4. \A u : Before(s, u) /\ Before(t, u) => Before(c, u)
    BY <1>1 DEF Before
  <1>5. \A u : Before(u, s) /\ Before(u, t) => Before(u, c)
    BY <1>1 DEF Before
  <1>6. \A f, w, ag, m : Follows(s, f, w, ag, m) /\ Follows(t, f, w, ag, m)
                               => Follows(c, f, w, ag, m)
    BY <1>3, <1>4 DEF Follows
  <1>7. ASSUME Rising(t), Before(s, t), NEW i \in 1..Len(c), NEW j \in 1..Len(c), i < j
        PROVE  \/ c[i] < c[j]
               \/ i \in 1..Len(s) /\ j \in 1..Len(s) /\ c[i] = s[i] /\ c[j] = s[j]
    <2>1. CASE i \in 1..Len(s) /\ c[i] = s[i]
      <3>1. CASE j \in 1..Len(s) /\ c[j] = s[j]
        BY <2>1, <3>1
      <3>2. CASE j - Len(s) \in 1..Len(t) /\ c[j] = t[j - Len(s)]
        BY <1>7, <2>1, <3>2 DEF Before
      <3> QED  BY <1>1, <3>1, <3>2
    <2>2. CASE i - Len(s) \in 1..Len(t) /\ c[i] = t[i - Len(s)]
      <3>1. j - Len(s) \in 1..Len(t) /\ c[j] = t[j - Len(s)] /\ i - Len(s) < j - Len(s)
        BY <1>1, <1>7, <2>2
      <3>2. t[i - Len(s)] < t[j - Len(s)]
        BY <1>7, <2>2, <3>1 DEF Rising
      <3> QED  BY <2>2, <3>1, <3>2
    <2> QED  BY <1>1, <2>1, <2>2
  <1>8. Rising(s) /\ Rising(t) /\ Before(s, t) => Rising(c)
    BY <1>7 DEF Rising
  <1>9. \A b : Ordered(s, b) /\ Rising(t) /\ Before(s, t) => Ordered(c, b)
    BY <1>7 DEF Ordered
  <1> QED  BY <1>1, <1>2, <1>4, <1>5, <1>6, <1>8, <1>9 DEF c

\* A queue that overflows keeps the end of what it was given.
LEMMA Ends ==
  ASSUME NEW s \in Seq(Nat), NEW q \in Seq(Nat), NEW es \in Seq(Nat), NEW e \in Nat, NEW cap \in Nat
  PROVE  /\ PushedAll(q, es, cap) \in Seq(Nat)
         /\ Part(<<e>> \o PushedAll(q, es, cap), (<<e>> \o q) \o es)
         /\ \A b : Ordered((<<e>> \o q) \o es, b) => Ordered(<<e>> \o PushedAll(q, es, cap), b)
  <1> DEFINE all == q \o es
             k == IF Len(all) > cap THEN Len(all) - cap + 1 ELSE 1
             p == SubSeq(all, k, Len(all))
             t == <<e>> \o p
             c == (<<e>> \o q) \o es
  <1>1. all \in Seq(Nat) /\ Len(all) \in Nat /\ k \in 1..Len(all) + 1
    OBVIOUS
  <1>2. c = <<e>> \o all
    OBVIOUS
  <1> HIDE DEF all, k
  <1>3. /\ p \in Seq(Nat) /\ Len(p) = Len(all) - k + 1
        /\ \A i \in 1..Len(p) : p[i] = all[k + i - 1]
    BY <1>1
  <1>4. /\ c \in Seq(Nat) /\ Len(c) = Len(all) + 1 /\ c[1] = e
        /\ \A i \in 2..Len(all) + 1 : c[i] = all[i - 1]
    <2>1. <<e>> \o all \in Seq(Nat) /\ Len(<<e>> \o all) = Len(all) + 1 /\ (<<e>> \o all)[1] = e
          /\ \A i \in 2..Len(all) + 1 : (<<e>> \o all)[i] = all[i - 1]
      BY <1>1
    <2> QED  BY <1>2, <2>1
  <1> HIDE DEF p, c
  <1>5. /\ t \in Seq(Nat) /\ Len(t) = Len(p) + 1 /\ t[1] = e
        /\ \A i \in 2..Len(p) + 1 : t[i] = p[i - 1]
    BY <1>3
  <1> HIDE DEF t
  <1> DEFINE at(i) == IF i = 1 THEN 1 ELSE k + i - 1
  <1>6. /\ \A i \in 1..Len(t) : at(i) \in 1..Len(c) /\ t[i] = c[at(i)]
        /\ \A i, j \in 1..Len(t) : i < j => at(i) < at(j)
    <2>1. ASSUME NEW i \in 1..Len(t) PROVE at(i) \in 1..Len(c) /\ t[i] = c[at(i)]
      <3>1. CASE i = 1
        BY <1>1, <1>4, <1>5, <3>1
      <3>2. CASE i # 1
        <4>1. i \in 2..Len(p) + 1 /\ i - 1 \in 1..Len(p) /\ at(i) = k + i - 1
          BY <1>1, <1>3, <1>5, <3>2
        <4>2. t[i] = all[k + (i - 1) - 1]
          BY <1>3, <1>5, <4>1
        <4>3. at(i) \in 2..Len(all) + 1
          BY <1>1, <1>3, <4>1
        <4>4. c[at(i)] = all[at(i) - 1]
          BY <1>4, <4>3
        <4>5. at(i) - 1 = k + (i - 1) - 1 /\ at(i) \in 1..Len(c)
          BY <1>1, <1>4, <4>1, <4>3
        <4> QED  BY <4>2, <4>4, <4>5
      <3> QED  BY <3>1, <3>2
    <2>2. ASSUME NEW i \in 1..Len(t), NEW j \in 1..Len(t), i < j PROVE at(i) < at(j)
      <3>1. k \in Nat /\ k >= 1 /\ i \in Nat /\ i >= 1 /\ j \in Nat
        BY <1>1, <1>3, <1>5
      <3> QED  BY <2>2, <3>1
    <2> QED  BY <2>1, <2>2
  <1> HIDE DEF at
  <1>7. Part(t, c)
    BY <1>6 DEF Part
  <1>8. ASSUME NEW b, Ordered(c, b) PROVE Ordered(t, b)
    BY <1>6, <1>8 DEF Ordered
  <1> QED  BY <1>3, <1>7, <1>8 DEF PushedAll, t, c, p, k, all

\* AP64 keeps the trailer of the answer at the front of the path.
LEMMA TrailerIs ==
  ASSUME NEW t \in Trailers, NEW r \in Answers
  PROVE  /\ KeepTrailer(t, r) \in Trailers
         /\ KeepTrailer(t, r).events = t.events \o r.events
         /\ [KeepTrailer(t, r) EXCEPT !.events = <<>>, !.new = 0] \in Trailers
         /\ [KeepTrailer(t, r) EXCEPT !.events = <<>>, !.new = 0].events = <<>>
         /\ [t EXCEPT !.events = <<>>, !.seen = 0] \in Trailers
         /\ [t EXCEPT !.events = <<>>, !.seen = 0].events = <<>>
         /\ t.events \in Seq(Nat) /\ r.events \in Seq(Nat)
  <1>1. /\ t.events \in Seq(Nat) /\ t.seen \in Nat /\ t.new \in Nat
        /\ r.events \in Seq(Nat) /\ r.dropped \in Nat
    BY DEF Trailers, Answers
  <1>2. t.events \o r.events \in Seq(Nat)
    BY <1>1
  <1>3. /\ (IF r.dropped > t.seen THEN r.dropped ELSE t.seen) \in Nat
        /\ t.new + (IF r.dropped > t.seen THEN r.dropped - t.seen ELSE 0) \in Nat
    BY <1>1
  <1>4. KeepTrailer(t, r) \in Trailers /\ KeepTrailer(t, r).events = t.events \o r.events
    BY <1>2, <1>3 DEF KeepTrailer, Trailers
  <1>5. ASSUME NEW k \in Trailers, NEW q \in Seq(Nat)
        PROVE  /\ [k EXCEPT !.events = q, !.new = 0] \in Trailers
               /\ [k EXCEPT !.events = q, !.new = 0].events = q
               /\ [k EXCEPT !.events = q, !.seen = 0] \in Trailers
               /\ [k EXCEPT !.events = q, !.seen = 0].events = q
    BY DEF Trailers
  <1>6. <<>> \in Seq(Nat)
    OBVIOUS
  <1> QED  BY <1>1, <1>4, <1>5, <1>6

LEMMA Keeps ==
  ASSUME NEW n \in Nat, NEW w \in {0, n}, NEW ag \in Agents, NEW m \in Seq(Answers),
         NEW t \in Seq(Nat), NEW s \in Seq(Nat), m # <<>>, Rises(n, w, ag, m),
         Rising(t), UpTo(t, n), Before(s, t),
         Follows(s, 1, w, ag, m), Follows(t, 1, w, ag, m)
  PROVE  /\ Rising(t \o Head(m).events) /\ UpTo(t \o Head(m).events, n)
         /\ Before(s, t \o Head(m).events)
         /\ Follows(s, 1, w, ag, Tail(m))
         /\ Follows(t \o Head(m).events, 1, w, ag, Tail(m))
  <1> DEFINE e == Head(m).events
             m2 == Tail(m)
  <1>1. 1 \in 1..Len(m) /\ Head(m) = m[1]
    OBVIOUS
  <1>2. e \in Seq(Nat) /\ e = m[1].events
    BY <1>1, AnswerIs
  <1>3. \A i \in 1..Len(m2) : m2[i] = m[i + 1] /\ i + 1 \in 1..Len(m) /\ 1 < i + 1
    OBVIOUS
  <1>4. Follows(s, 1, w, ag, m2) /\ Follows(t, 1, w, ag, m2)
    BY Drops
  <1> HIDE DEF e, m2
  <1>5. /\ Rising(e) /\ UpTo(e, n) /\ Before(e, ag.queue) /\ (Due(ag, w) => Below(e, w))
        /\ \A j \in 1..Len(m) : 1 < j => Before(e, m[j].events)
    BY <1>1, <1>2 DEF Rises
  <1>6. Follows(e, 1, w, ag, m2)
    BY <1>3, <1>5 DEF Follows
  <1>7. Before(s, e) /\ Before(t, e)
    BY <1>1, <1>2 DEF Follows
  <1>8. Rising(t \o e) /\ UpTo(t \o e, n) /\ Before(s, t \o e) /\ Follows(t \o e, 1, w, ag, m2)
    BY <1>2, <1>4, <1>5, <1>6, <1>7, Joins
  <1> QED  BY <1>4, <1>8 DEF e, m2

-----------------------------------------------------------------------------
(* Types.                                                                  *)

USE QueuesAssumption

LEMMA NewAgents ==
  /\ NoWatch \in Agents /\ NoWatch.queue = <<>> /\ ~NoWatch.have
  /\ [NoWatch EXCEPT !.watching = TRUE] \in Agents
  /\ [NoWatch EXCEPT !.watching = TRUE].queue = <<>>
  /\ ~[NoWatch EXCEPT !.watching = TRUE].have
  <1>1. <<>> \in Seq(Nat)
    OBVIOUS
  <1>2. NoWatch \in Agents /\ NoWatch.queue = <<>> /\ ~NoWatch.have
    BY <1>1 DEF NoWatch, Agents
  <1>3. ASSUME NEW ag \in Agents
        PROVE  /\ [ag EXCEPT !.watching = TRUE] \in Agents
               /\ [ag EXCEPT !.watching = TRUE].queue = ag.queue
               /\ [ag EXCEPT !.watching = TRUE].have = ag.have
    BY DEF Agents
  <1> QED  BY <1>2, <1>3

LEMMA NewLinkIs == NewLink \in Trailers /\ NewLink.events = <<>>
BY DEF NewLink, Trailers

\* Requests under way.
LEMMA AskedStale ==
  ASSUME NEW ms \in Seq(Asked)
  PROVE  Stale(ms) \in Seq(Asked)
  <1> DEFINE g(i) == [ms[i] EXCEPT !.stale = TRUE, !.sample = 0]
  <1>1. ASSUME NEW i \in 1..Len(ms) PROVE g(i) \in Asked
    <2>1. ms[i] \in Asked
      OBVIOUS
    <2> QED  BY <2>1 DEF Asked
  <1>2. Stale(ms) = [i \in 1..Len(ms) |-> g(i)] /\ Len(ms) \in Nat
    BY DEF Stale
  <1> HIDE DEF g
  <1> QED  BY <1>1, <1>2

LEMMA Asks ==
  ASSUME NEW ms \in Seq(Asked), NEW msg \in {"HELLO", "WATCH", "PEEKV"}
  PROVE  /\ Append(ms, Request(msg)) \in Seq(Asked)
         /\ Append(Stale(ms), Request(msg)) \in Seq(Asked)
  <1>1. Request(msg) \in Asked
    BY DEF Request, Asked
  <1> QED  BY <1>1, AskedStale

\* What the agent does with the request at the front of its path.
LEMMA Responds ==
  ASSUME EventTypes, toAgent # <<>>, NEW q \in Seq(Nat), NEW d \in Nat,
         NEW msg \in {"HELLO_ACK", "WATCH_ACK", "PEEKV_RESP"}, Respond(msg, q, d)
  PROVE  /\ toAgent' \in Seq(Asked) /\ fromAgent' \in Seq(Answers)
         /\ \E r \in Answers : /\ fromAgent' = Append(fromAgent, r) /\ r.msg = msg
                               /\ r.events = q /\ r.sample \in {0, watched}
  <1>1. Head(toAgent) \in Asked /\ Tail(toAgent) \in Seq(Asked)
    BY DEF EventTypes
  <1>2. Head(toAgent).stale \in BOOLEAN /\ Head(toAgent).sample \in {0, 1}
    BY <1>1 DEF Asked
  <1>3. watched \in Nat
    BY DEF EventTypes
  <1>4. Head(toAgent).sample * watched \in {0, watched} /\ Head(toAgent).sample * watched \in Nat
    BY <1>2, <1>3
  <1> DEFINE r == [msg |-> msg, stale |-> Head(toAgent).stale, events |-> q, dropped |-> d,
                   sample |-> Head(toAgent).sample * watched]
  <1>5. r \in Answers /\ r.msg = msg /\ r.events = q /\ r.sample \in {0, watched}
    BY <1>2, <1>4 DEF Answers
  <1>6. toAgent' = Tail(toAgent) /\ fromAgent' = Append(fromAgent, r)
    BY DEF Respond
  <1> HIDE DEF r
  <1>7. fromAgent' \in Seq(Answers)
    BY <1>5, <1>6 DEF EventTypes
  <1> QED  BY <1>1, <1>5, <1>6, <1>7

-----------------------------------------------------------------------------
(* Steps that change the path only.                                        *)

LEMMA ToldIs ==
  ASSUME EventTypes
  PROVE  Told \in Seq(Nat) /\ link.events \in Seq(Nat) /\ <<>> \in Seq(Nat)
  <1>1. Told \in Seq(Nat) /\ <<>> \in Seq(Nat)
    BY DEF EventTypes, Told
  <1>2. link.events \in Seq(Nat)
    BY DEF EventTypes, Trailers
  <1> QED  BY <1>1, <1>2

\* It is enough that the path still follows what AP64 holds.
LEMMA PathMoves ==
  ASSUME EventsHold, EventTypes', UNCHANGED <<link, onCart, queue, shown, resampled>>,
         Rises(happened', watched', agent', fromAgent'),
         \A s \in Seq(Nat) : UpTo(s, happened) => UpTo(s, happened'),
         \A s \in Seq(Nat) : UpTo(s, happened) /\ Follows(s, 1, watched, agent, fromAgent)
                               => Follows(s, 1, watched', agent', fromAgent'),
         AckFollows(Told, watched', agent', fromAgent'),
         ~onCart => SampleFollows(Told, fromAgent'),
         probing' => ~onCart
  PROVE  EventsHold'
  <1>1. /\ Told \in Seq(Nat) /\ link.events \in Seq(Nat)
        /\ EventTypes /\ UpTo(Told, happened) /\ WatchFollows /\ EventsInOrder
    BY ToldIs DEF EventsHold
  <1>2. Told' = Told /\ onCart' = onCart /\ link' = link
    BY DEF Told
  <1>3. EventsInOrder'
    <2>1. queue' = queue /\ shown' = shown /\ resampled' = resampled
      OBVIOUS
    <2> QED  BY <1>1, <2>1 DEF EventsInOrder
  <1>4. WatchFollows'
    <2>1. ASSUME onCart
          PROVE  /\ Rising(link.events) /\ UpTo(link.events, happened')
                 /\ Before(Told, link.events)
                 /\ Follows(Told, 1, watched', agent', fromAgent')
                 /\ Follows(link.events, 1, watched', agent', fromAgent')
      BY <1>1, <2>1 DEF WatchFollows
    <2> QED  BY <1>2, <2>1 DEF WatchFollows
  <1>5. /\ UpTo(Told', happened') /\ AckFollows(Told', watched', agent', fromAgent')
        /\ (~onCart' => SampleFollows(Told', fromAgent')) /\ (probing' => ~onCart')
    BY <1>1, <1>2
  <1> QED  BY <1>3, <1>4, <1>5 DEF EventsHold

LEMMA GameStep ==
  ASSUME EventsHold, GameWrites
  PROVE  EventsHold'
  <1>1. /\ EventTypes /\ Rises(happened, watched, agent, fromAgent) /\ UpTo(Told, happened)
        /\ AckFollows(Told, watched, agent, fromAgent)
        /\ (~onCart => SampleFollows(Told, fromAgent)) /\ (probing => ~onCart)
    BY DEF EventsHold
  <1>2. /\ happened \in Nat /\ watched \in {0, happened} /\ agent \in Agents
        /\ fromAgent \in Seq(Answers) /\ Told \in Seq(Nat)
    BY <1>1, ToldIs DEF EventTypes
  <1>3. /\ happened' \in {happened, happened + 1} /\ watched' \in {0, happened + 1}
        /\ (watched' # 0 => happened' = happened + 1)
        /\ UNCHANGED <<agent, wire, waiting, seen>>
    BY DEF GameWrites
  <1>4. /\ UNCHANGED <<agent, toAgent, fromAgent, greeting, probing, link, fresh, onCart,
                       queue, shown, resampled>>
    BY <1>3 DEF wire, waiting, seen
  <1>5. watched' \in {0, happened'} /\ happened' \in Nat
    BY <1>2, <1>3
  <1>6. EventTypes'
    BY <1>1, <1>4, <1>5 DEF EventTypes
  <1>7. /\ Rises(happened', watched', agent, fromAgent)
        /\ \A s \in Seq(Nat) : UpTo(s, happened) =>
             /\ UpTo(s, happened')
             /\ \A f \in Nat : Follows(s, f, watched, agent, fromAgent)
                                 => Follows(s, f, watched', agent, fromAgent)
    <2>1. /\ happened \in Nat /\ agent \in Agents /\ fromAgent \in Seq(Answers)
          /\ Rises(happened, watched, agent, fromAgent)
          /\ happened' \in {happened, happened + 1} /\ watched' \in {0, happened + 1}
          /\ (watched' # 0 => happened' = happened + 1)
      BY <1>1, <1>2, <1>3
    <2> QED  BY <2>1, Writes, Zenon
  <1>8. AckFollows(Told, watched', agent, fromAgent)
    <2>1. \A k \in 1..Len(fromAgent) : k + 1 \in Nat
      OBVIOUS
    <2> QED  BY <1>1, <1>2, <1>7, <2>1 DEF AckFollows
  <1>9. \A s \in Seq(Nat) : UpTo(s, happened) /\ Follows(s, 1, watched, agent, fromAgent)
                              => Follows(s, 1, watched', agent', fromAgent')
    BY <1>4, <1>7
  <1>10. /\ Rises(happened', watched', agent', fromAgent')
         /\ AckFollows(Told, watched', agent', fromAgent')
         /\ (~onCart => SampleFollows(Told, fromAgent')) /\ (probing' => ~onCart)
    BY <1>1, <1>4, <1>7, <1>8
  <1> QED  BY <1>4, <1>6, <1>7, <1>9, <1>10, PathMoves

LEMMA TickStep ==
  ASSUME EventsHold, WatchTick
  PROVE  EventsHold'
  <1>1. /\ EventTypes /\ Rises(happened, watched, agent, fromAgent) /\ UpTo(Told, happened)
        /\ AckFollows(Told, watched, agent, fromAgent)
        /\ (~onCart => SampleFollows(Told, fromAgent)) /\ (probing => ~onCart)
    BY DEF EventsHold
  <1>2. /\ happened \in Nat /\ watched \in {0, happened} /\ agent \in Agents
        /\ fromAgent \in Seq(Answers) /\ Told \in Seq(Nat) /\ watched \in Nat
    BY <1>1, ToldIs DEF EventTypes
  <1>3. UNCHANGED <<watched, happened, toAgent, fromAgent, greeting, probing, link, fresh, onCart,
                    queue, shown, resampled>>
    BY DEF WatchTick, wire, waiting, seen
  <1> DEFINE q == IF Len(agent.queue) = AgentQueue THEN Tail(agent.queue) ELSE agent.queue
             full == Len(agent.queue) = AgentQueue
             q2 == IF Due(agent, watched) THEN Append(q, watched) ELSE agent.queue
             d2 == IF Due(agent, watched) /\ full THEN Least(agent.dropped + 1, MaxDropped)
                   ELSE agent.dropped
  <1>4. agent' = [agent EXCEPT !.have = TRUE, !.last = watched, !.queue = q2, !.dropped = d2]
    BY Zenon DEF WatchTick, Due, Pushed
  <1>5. /\ agent.queue \in Seq(Nat) /\ agent.dropped \in Nat
    BY <1>2 DEF Agents
  <1>6. /\ q \in Seq(Nat) /\ q \in {agent.queue, Tail(agent.queue)}
        /\ (q # agent.queue => agent.queue # <<>>)
    <2>1. ASSUME Len(agent.queue) = AgentQueue PROVE agent.queue # <<>>
      BY <2>1
    <2> QED  BY <1>5, <2>1
  <1> HIDE DEF q
  <1>7. q2 \in Seq(Nat) /\ d2 \in Nat
    BY <1>2, <1>5, <1>6 DEF Least
  <1>8. \/ ~Due(agent, watched) /\ q2 = agent.queue
        \/ Due(agent, watched) /\ q2 = Append(q, watched)
    OBVIOUS
  <1> HIDE DEF q2, d2
  <1>9. agent' \in Agents /\ agent'.queue = q2 /\ agent'.last = watched
    <2> DEFINE ag2 == [agent EXCEPT !.have = TRUE, !.last = watched, !.queue = q2, !.dropped = d2]
    <2>1. ag2 \in Agents /\ ag2.queue = q2 /\ ag2.last = watched
      BY <1>2, <1>7 DEF Agents
    <2> HIDE DEF ag2
    <2>2. agent' = ag2
      BY <1>4 DEF ag2
    <2> QED  BY <2>1, <2>2
  <1>10. /\ Rises(happened, watched, agent', fromAgent)
         /\ \A s \in Seq(Nat) : \A f \in Nat :
              Follows(s, f, watched, agent, fromAgent) => Follows(s, f, watched, agent', fromAgent)
    BY <1>1, <1>2, <1>6, <1>8, <1>9, Looks
  <1>11. EventTypes'
    BY <1>1, <1>3, <1>9 DEF EventTypes
  <1>12. AckFollows(Told, watched, agent', fromAgent)
    <2>1. \A k \in 1..Len(fromAgent) : k + 1 \in Nat
      OBVIOUS
    <2> QED  BY <1>1, <1>2, <1>10, <2>1 DEF AckFollows
  <1>13. /\ \A s \in Seq(Nat) : UpTo(s, happened) => UpTo(s, happened')
         /\ \A s \in Seq(Nat) : UpTo(s, happened) /\ Follows(s, 1, watched, agent, fromAgent)
                               => Follows(s, 1, watched', agent', fromAgent')
    BY <1>3, <1>10
  <1>14. /\ Rises(happened', watched', agent', fromAgent')
         /\ AckFollows(Told, watched', agent', fromAgent')
         /\ (~onCart => SampleFollows(Told, fromAgent')) /\ (probing' => ~onCart)
    BY <1>1, <1>3, <1>10, <1>12
  <1> QED  BY <1>3, <1>11, <1>13, <1>14, PathMoves

\* The agent answers a request.
LEMMA AnswerStep ==
  ASSUME EventsHold, toAgent # <<>>,
         NEW q \in Seq(Nat), NEW d \in Nat,
         NEW msg \in {"HELLO_ACK", "WATCH_ACK", "PEEKV_RESP"}, Respond(msg, q, d),
         agent' \in Agents, Part(q, agent.queue), Part(agent'.queue, agent.queue),
         Rising(q), Rising(agent'.queue), Before(q, agent'.queue),
         Due(agent', watched) => Due(agent, watched),
         msg = "WATCH_ACK" => agent'.queue = <<>> /\ ~agent'.have,
         UNCHANGED <<watched, happened, waiting, seen>>
  PROVE  EventsHold'
  <1>1. /\ EventTypes /\ Rises(happened, watched, agent, fromAgent) /\ UpTo(Told, happened)
        /\ AckFollows(Told, watched, agent, fromAgent)
        /\ (~onCart => SampleFollows(Told, fromAgent)) /\ (probing => ~onCart)
    BY DEF EventsHold
  <1>2. /\ happened \in Nat /\ watched \in {0, happened} /\ agent \in Agents
        /\ fromAgent \in Seq(Answers) /\ Told \in Seq(Nat)
    BY <1>1, ToldIs DEF EventTypes
  <1>3. UNCHANGED <<watched, happened, greeting, probing, link, fresh, onCart,
                    queue, shown, resampled>>
    BY DEF waiting, seen
  <1>4. /\ toAgent' \in Seq(Asked) /\ fromAgent' \in Seq(Answers)
        /\ \E r \in Answers : /\ fromAgent' = Append(fromAgent, r) /\ r.msg = msg
                              /\ r.events = q /\ r.sample \in {0, watched}
    BY <1>1, Responds
  <1>5. EventTypes'
    BY <1>1, <1>3, <1>4 DEF EventTypes
  <1>6. SUFFICES ASSUME NEW r \in Answers, fromAgent' = Append(fromAgent, r), r.msg = msg,
                        r.events = q, r.sample \in {0, watched}
                 PROVE  EventsHold'
    BY <1>4
  <1>7. /\ Rises(happened, watched, agent', Append(fromAgent, r))
        /\ \A s \in Seq(Nat) : \A f \in 1..Len(fromAgent) + 1 :
             Follows(s, f, watched, agent, fromAgent)
               => Follows(s, f, watched, agent', Append(fromAgent, r))
        /\ \A s \in Seq(Nat) : UpTo(s, happened) /\ SampleFollows(s, fromAgent)
                                 => SampleFollows(s, Append(fromAgent, r))
        /\ (~r.stale /\ r.msg = "WATCH_ACK" => agent'.queue = <<>> /\ ~agent'.have) =>
             \A s \in Seq(Nat) : AckFollows(s, watched, agent, fromAgent)
                                   => AckFollows(s, watched, agent', Append(fromAgent, r))
    <2>1. /\ happened \in Nat /\ watched \in {0, happened} /\ agent \in Agents /\ agent' \in Agents
          /\ fromAgent \in Seq(Answers) /\ Rises(happened, watched, agent, fromAgent)
          /\ Part(r.events, agent.queue) /\ Part(agent'.queue, agent.queue)
          /\ Rising(r.events) /\ Rising(agent'.queue) /\ Before(r.events, agent'.queue)
          /\ (Due(agent', watched) => Due(agent, watched))
      BY <1>1, <1>2, <1>6
    <2> QED  BY <1>6, <2>1, Appends, Zenon
  <1>8. 1 \in 1..Len(fromAgent) + 1
    BY <1>2
  <1>9. /\ \A s \in Seq(Nat) : UpTo(s, happened) => UpTo(s, happened')
        /\ \A s \in Seq(Nat) : UpTo(s, happened) /\ Follows(s, 1, watched, agent, fromAgent)
                                 => Follows(s, 1, watched', agent', fromAgent')
    BY <1>3, <1>6, <1>7, <1>8
  <1>10. /\ Rises(happened', watched', agent', fromAgent')
         /\ AckFollows(Told, watched', agent', fromAgent')
         /\ (~onCart => SampleFollows(Told, fromAgent')) /\ (probing' => ~onCart)
    BY <1>1, <1>2, <1>3, <1>6, <1>7
  <1> QED  BY <1>3, <1>5, <1>9, <1>10, PathMoves

LEMMA AgentForgets ==
  ASSUME EventsHold, toAgent # <<>>,
         NEW msg \in {"HELLO_ACK", "WATCH_ACK"}, Respond(msg, <<>>, 0),
         agent' \in {NoWatch, [NoWatch EXCEPT !.watching = TRUE]},
         UNCHANGED <<watched, happened, waiting, seen>>
  PROVE  EventsHold'
  <1>1. agent' \in Agents /\ agent'.queue = <<>> /\ ~agent'.have
    BY NewAgents
  <1>2. /\ Rising(<<>>) /\ Before(<<>>, <<>>) /\ ~Due(agent', watched)
        /\ \A q : Part(<<>>, q)
    BY <1>1 DEF Rising, Before, Due, Part
  <1>3. <<>> \in Seq(Nat) /\ 0 \in Nat
    OBVIOUS
  <1> QED  BY <1>1, <1>2, <1>3, AnswerStep

LEMMA PeekStep ==
  ASSUME EventsHold, HandlePeek
  PROVE  EventsHold'
  <1>1. /\ agent \in Agents /\ Rising(agent.queue) /\ agent.queue \in Seq(Nat)
        /\ agent.dropped \in Nat
    BY DEF EventsHold, EventTypes, Rises, Agents
  <1>2. toAgent # <<>> /\ UNCHANGED <<watched, happened, waiting, seen>>
    BY DEF HandlePeek
  <1>3. CASE Respond("PEEKV_RESP", <<>>, 0) /\ UNCHANGED agent
    <2>1. /\ Rising(<<>>) /\ Before(<<>>, agent'.queue) /\ <<>> \in Seq(Nat) /\ 0 \in Nat
          /\ Part(<<>>, agent.queue) /\ Part(agent'.queue, agent.queue)
      BY <1>3 DEF Rising, Before, Part
    <2> QED  BY <1>1, <1>2, <1>3, <2>1, AnswerStep
  <1>4. ASSUME NEW n \in 0..Len(agent.queue),
               Respond("PEEKV_RESP", SubSeq(agent.queue, 1, n), agent.dropped),
               agent' = [agent EXCEPT !.queue = SubSeq(@, n + 1, Len(@))]
        PROVE  EventsHold'
    <2> DEFINE a == SubSeq(agent.queue, 1, n)
               b == SubSeq(agent.queue, n + 1, Len(agent.queue))
    <2>1. /\ a \in Seq(Nat) /\ b \in Seq(Nat) /\ Part(a, agent.queue) /\ Part(b, agent.queue)
          /\ Rising(a) /\ Rising(b) /\ Before(a, b)
      BY <1>1, Cuts
    <2>2. agent' = [agent EXCEPT !.queue = b] /\ Respond("PEEKV_RESP", a, agent.dropped)
      BY <1>4
    <2> HIDE DEF a, b
    <2>3. agent' \in Agents /\ agent'.queue = b /\ agent'.have = agent.have /\ agent'.last = agent.last
      BY <1>1, <2>1, <2>2 DEF Agents
    <2>4. Due(agent', watched) => Due(agent, watched)
      BY <2>3 DEF Due
    <2> QED  BY <1>1, <1>2, <2>1, <2>2, <2>3, <2>4, AnswerStep
  <1> QED  BY <1>3, <1>4 DEF HandlePeek

\* The path is emptied, or the message at its front is lost.
LEMMA LossStep ==
  ASSUME EventsHold, ConsoleReset \/ LoseMessage
  PROVE  EventsHold'
  <1>1. /\ EventTypes /\ Rises(happened, watched, agent, fromAgent) /\ UpTo(Told, happened)
        /\ AckFollows(Told, watched, agent, fromAgent)
        /\ (~onCart => SampleFollows(Told, fromAgent)) /\ (probing => ~onCart)
    BY DEF EventsHold
  <1>2. /\ happened \in Nat /\ watched \in {0, happened} /\ agent \in Agents
        /\ fromAgent \in Seq(Answers) /\ toAgent \in Seq(Asked) /\ Told \in Seq(Nat)
    BY <1>1, ToldIs DEF EventTypes
  <1>3. UNCHANGED <<happened, greeting, probing, link, fresh, onCart, queue, shown, resampled>>
    BY DEF ConsoleReset, LoseMessage, console, waiting, seen
  <1>4. \A s \in Seq(Nat) : UpTo(s, happened) => UpTo(s, happened')
    BY <1>3
  <1>5. CASE ConsoleReset
    <2>1. agent' = NoWatch /\ watched' = 0 /\ toAgent' = <<>> /\ fromAgent' = <<>>
      BY <1>5 DEF ConsoleReset
    <2>2. EventTypes'
      <3>1. agent' \in Agents /\ toAgent' \in Seq(Asked) /\ fromAgent' \in Seq(Answers)
        BY <2>1, NewAgents
      <3> QED  BY <1>1, <1>3, <2>1, <3>1 DEF EventTypes
    <2>3. \A s : Follows(s, 1, watched', agent', fromAgent')
      BY <2>1, NewAgents DEF Follows, Before, Due
    <2>4. Rises(happened', watched', agent', fromAgent')
      BY <2>1, NewAgents DEF Rises, Rising, UpTo, Due
    <2>5. AckFollows(Told, watched', agent', fromAgent') /\ SampleFollows(Told, fromAgent')
      BY <2>1 DEF AckFollows, SampleFollows
    <2> QED  BY <1>1, <1>3, <1>4, <2>2, <2>3, <2>4, <2>5, PathMoves
  <1>6. CASE LoseMessage
    <2>1. UNCHANGED <<watched, agent>>
      BY <1>6 DEF LoseMessage, console
    <2>2. CASE toAgent # <<>> /\ toAgent' = Tail(toAgent) /\ UNCHANGED fromAgent
      <3>1. EventTypes'
        <4>1. toAgent' \in Seq(Asked)
          BY <1>2, <2>2
        <4> QED  BY <1>1, <1>3, <2>1, <2>2, <4>1 DEF EventTypes
      <3> QED  BY <1>1, <1>3, <1>4, <2>1, <2>2, <3>1, PathMoves
    <2>3. CASE fromAgent # <<>> /\ fromAgent' = Tail(fromAgent) /\ UNCHANGED toAgent
      <3>1. EventTypes'
        <4>1. fromAgent' \in Seq(Answers)
          BY <1>2, <2>3
        <4> QED  BY <1>1, <1>3, <2>1, <2>3, <4>1 DEF EventTypes
      <3>2. /\ Rises(happened, watched, agent, Tail(fromAgent))
            /\ \A s : Follows(s, 1, watched, agent, fromAgent)
                        => Follows(s, 1, watched, agent, Tail(fromAgent))
            /\ \A s : SampleFollows(s, fromAgent) => SampleFollows(s, Tail(fromAgent))
            /\ \A s : AckFollows(s, watched, agent, fromAgent)
                        => AckFollows(s, watched, agent, Tail(fromAgent))
        BY <1>1, <1>2, <2>3, Drops
      <3> QED  BY <1>1, <1>3, <1>4, <2>1, <2>3, <3>1, <3>2, PathMoves
    <2> QED  BY <1>6, <2>2, <2>3 DEF LoseMessage
  <1> QED  BY <1>5, <1>6

\* AP64 asks, again or anew; what was sent before is no longer waited for.
LEMMA AskStep ==
  ASSUME EventsHold, toAgent' \in Seq(Asked), fromAgent' \in {fromAgent, Stale(fromAgent)},
         greeting' \in BOOLEAN, probing' \in BOOLEAN, fresh' \in Trailers,
         probing' => ~onCart, UNCHANGED <<console, link, onCart, queue, shown, resampled>>
  PROVE  EventsHold'
  <1>1. /\ EventTypes /\ Rises(happened, watched, agent, fromAgent) /\ UpTo(Told, happened)
        /\ AckFollows(Told, watched, agent, fromAgent)
        /\ (~onCart => SampleFollows(Told, fromAgent))
    BY DEF EventsHold
  <1>2. /\ happened \in Nat /\ watched \in {0, happened} /\ agent \in Agents
        /\ fromAgent \in Seq(Answers) /\ 1 \in 1..Len(fromAgent) + 1
    BY <1>1 DEF EventTypes
  <1>3. UNCHANGED <<watched, happened, agent>>
    BY DEF console
  <1>4. /\ Stale(fromAgent) \in Seq(Answers)
        /\ Rises(happened, watched, agent, Stale(fromAgent))
        /\ \A s : \A f \in 1..Len(fromAgent) + 1 :
             Follows(s, f, watched, agent, fromAgent)
               => Follows(s, f, watched, agent, Stale(fromAgent))
        /\ \A s : /\ SampleFollows(s, Stale(fromAgent))
                  /\ AckFollows(s, watched, agent, Stale(fromAgent))
    BY <1>1, <1>2, Stales
  <1>5. EventTypes'
    BY <1>1, <1>3, <1>4 DEF EventTypes
  <1>6. /\ Rises(happened', watched', agent', fromAgent')
        /\ AckFollows(Told, watched', agent', fromAgent')
        /\ (~onCart => SampleFollows(Told, fromAgent'))
        /\ \A s : Follows(s, 1, watched, agent, fromAgent)
                    => Follows(s, 1, watched', agent', fromAgent')
    BY <1>1, <1>2, <1>3, <1>4
  <1>7. \A s \in Seq(Nat) : UpTo(s, happened) => UpTo(s, happened')
    BY <1>3
  <1> QED  BY <1>5, <1>6, <1>7, PathMoves

LEMMA AskSteps ==
  ASSUME EventsHold,
         Read \/ Alive \/ SampleWatch \/ QuickCopy \/ Resend \/ Reconnect \/ GiveUp
  PROVE  EventsHold'
  <1>1. /\ toAgent \in Seq(Asked) /\ onCart \in BOOLEAN /\ greeting \in BOOLEAN
        /\ probing \in BOOLEAN /\ fresh \in Trailers /\ (probing => ~onCart)
    BY DEF EventsHold, EventTypes
  <1>2. \A msg \in {"HELLO", "WATCH", "PEEKV"} :
          /\ Append(toAgent, Request(msg)) \in Seq(Asked)
          /\ Append(Stale(toAgent), Request(msg)) \in Seq(Asked)
    BY <1>1, Asks
  <1>3. ASSUME NEW what, NEW msg \in {"HELLO", "WATCH", "PEEKV"}, AskAgent(what, msg)
        PROVE  toAgent' \in Seq(Asked) /\ fromAgent' = Stale(fromAgent) /\ greeting' = FALSE
    BY <1>2, <1>3 DEF AskAgent, SendRequest
  <1>4. ASSUME UNCHANGED <<console, seen>>, toAgent' \in Seq(Asked), greeting' \in BOOLEAN,
               fromAgent' \in {fromAgent, Stale(fromAgent)},
               probing' \in BOOLEAN, probing' => ~onCart
        PROVE  EventsHold'
    <2>1. UNCHANGED <<fresh, link, onCart, queue, shown, resampled>>
      BY <1>4 DEF seen
    <2> QED  BY <1>1, <1>4, <2>1, AskStep
  <1>5. CASE Read
    BY <1>1, <1>3, <1>4, <1>5 DEF Read
  <1>6. CASE Alive
    BY <1>1, <1>3, <1>4, <1>6 DEF Alive
  <1>7. CASE SampleWatch
    BY <1>1, <1>3, <1>4, <1>7 DEF SampleWatch
  <1>8. CASE QuickCopy
    BY <1>1, <1>2, <1>4, <1>8 DEF QuickCopy
  <1>9. CASE Resend
    BY <1>1, <1>3, <1>4, <1>9 DEF Resend
  <1>10. CASE Reconnect
    <2>1. /\ toAgent' \in Seq(Asked) /\ fromAgent' = Stale(fromAgent) /\ greeting' = TRUE
          /\ probing' = probing /\ fresh' = NewLink
          /\ UNCHANGED <<console, link, onCart, queue, shown, resampled>>
      BY <1>2, <1>10 DEF Reconnect, SendRequest
    <2> QED  BY <1>1, <2>1, NewLinkIs, AskStep
  <1>11. CASE GiveUp
    <2>1. CASE asking = "watch"
      BY <1>1, <1>3, <1>4, <1>11, <2>1 DEF GiveUp
    <2>2. CASE asking # "watch"
      <3>1. /\ toAgent' = Stale(toAgent) /\ fromAgent' = Stale(fromAgent)
            /\ greeting' = FALSE /\ probing' = FALSE /\ UNCHANGED <<console, seen>>
        BY <1>11, <2>2 DEF GiveUp
      <3>2. toAgent' \in Seq(Asked)
        BY <1>1, <3>1, AskedStale
      <3> QED  BY <1>4, <3>1, <3>2
    <2> QED  BY <2>1, <2>2
  <1> QED  BY <1>5, <1>6, <1>7, <1>8, <1>9, <1>10, <1>11

-----------------------------------------------------------------------------
(* AP64 receives.                                                          *)

LEMMA Heard ==
  ASSUME EventsHold, fromAgent # <<>>
  PROVE  LET n == happened
             w == watched
             m == Tail(fromAgent)
         IN /\ m \in Seq(Answers) /\ Stale(m) \in Seq(Answers)
            /\ Rises(n, w, agent, m) /\ Rises(n, w, agent, Stale(m))
            /\ \A s : Follows(s, 1, w, agent, fromAgent) => Follows(s, 1, w, agent, m)
            /\ \A s : Follows(s, 1, w, agent, m) => Follows(s, 1, w, agent, Stale(m))
            /\ \A s : Follows(s, 2, w, agent, fromAgent) => Follows(s, 1, w, agent, Stale(m))
            /\ \A s : SampleFollows(s, fromAgent) => SampleFollows(s, m)
            /\ \A s : AckFollows(s, w, agent, fromAgent) => AckFollows(s, w, agent, m)
            /\ \A s : SampleFollows(s, Stale(m)) /\ AckFollows(s, w, agent, Stale(m))
            /\ Head(fromAgent) \in Answers /\ Head(fromAgent) = fromAgent[1]
            /\ 1 \in 1..Len(fromAgent)
  <1> DEFINE m == Tail(fromAgent)
  <1>1. /\ happened \in Nat /\ watched \in {0, happened} /\ agent \in Agents
        /\ fromAgent \in Seq(Answers) /\ Rises(happened, watched, agent, fromAgent)
    BY DEF EventsHold, EventTypes
  <1>2. /\ Head(fromAgent) = fromAgent[1] /\ 1 \in 1..Len(fromAgent) /\ m \in Seq(Answers)
        /\ 1 \in 1..Len(m) + 1
    BY <1>1
  <1>3. Head(fromAgent) \in Answers
    BY <1>1, <1>2, AnswerIs
  <1>4. /\ Rises(happened, watched, agent, m)
        /\ \A s : \A f \in Nat \ {0} :
             Follows(s, f + 1, watched, agent, fromAgent) => Follows(s, f, watched, agent, m)
        /\ \A s : Follows(s, 1, watched, agent, fromAgent) => Follows(s, 1, watched, agent, m)
        /\ \A s : SampleFollows(s, fromAgent) => SampleFollows(s, m)
        /\ \A s : AckFollows(s, watched, agent, fromAgent) => AckFollows(s, watched, agent, m)
    BY <1>1, Drops
  <1> HIDE DEF m
  <1>5. \A s : Follows(s, 2, watched, agent, fromAgent) => Follows(s, 1, watched, agent, m)
    <2>1. 1 \in Nat \ {0} /\ 1 + 1 = 2
      OBVIOUS
    <2> QED  BY <1>4, <2>1
  <1>6. /\ Stale(m) \in Seq(Answers) /\ Rises(happened, watched, agent, Stale(m))
        /\ \A s : \A f \in 1..Len(m) + 1 :
             Follows(s, f, watched, agent, m) => Follows(s, f, watched, agent, Stale(m))
        /\ \A s : SampleFollows(s, Stale(m)) /\ AckFollows(s, watched, agent, Stale(m))
    BY <1>1, <1>2, <1>4, Stales
  <1> QED  BY <1>2, <1>3, <1>4, <1>5, <1>6 DEF m

LEMMA GreetedStep ==
  ASSUME EventsHold, fromAgent # <<>>, fromAgent' = Stale(Tail(fromAgent)), Greeted,
         UNCHANGED console
  PROVE  EventsHold'
  <1>1. /\ EventTypes /\ UpTo(Told, happened) /\ EventsInOrder /\ fresh \in Trailers
        /\ toAgent \in Seq(Asked) /\ probing \in BOOLEAN
    BY DEF EventsHold, EventTypes
  <1>2. /\ link' = fresh /\ fresh' = NewLink /\ onCart' = FALSE /\ greeting' = FALSE
        /\ UNCHANGED <<probing, queue, shown, resampled, watched, happened, agent>>
    BY DEF Greeted, console
  <1>3. toAgent' \in Seq(Asked)
    BY <1>1, Asks DEF Greeted
  <1>4. EventTypes'
    BY <1>1, <1>2, <1>3, Heard, NewLinkIs DEF EventTypes
  <1>5. Told' = Told /\ EventsInOrder'
    BY <1>1, <1>2 DEF Told, EventsInOrder
  <1>6. /\ Rises(happened', watched', agent', fromAgent') /\ UpTo(Told', happened')
        /\ AckFollows(Told', watched', agent', fromAgent')
        /\ SampleFollows(Told', fromAgent')
    BY <1>1, <1>2, <1>5, Heard
  <1> QED  BY <1>2, <1>4, <1>5, <1>6 DEF EventsHold, WatchFollows

LEMMA ArmedStep ==
  ASSUME EventsHold, fromAgent # <<>>, fromAgent' = Stale(Tail(fromAgent)), Armed,
         ~Head(fromAgent).stale, Head(fromAgent).msg = "WATCH_ACK", UNCHANGED console
  PROVE  EventsHold'
  <1>1. /\ EventTypes /\ UpTo(Told, happened) /\ EventsInOrder /\ link \in Trailers
        /\ AckFollows(Told, watched, agent, fromAgent)
        /\ toAgent \in Seq(Asked)
    BY DEF EventsHold, EventTypes
  <1>2. /\ onCart' = TRUE /\ probing' = FALSE
        /\ UNCHANGED <<greeting, fresh, queue, shown, resampled, watched, happened, agent>>
    BY DEF Armed, console
  <1>3. toAgent' \in Seq(Asked)
    BY <1>1, Asks DEF Armed
  <1>4. link' \in Trailers /\ link'.events = <<>>
    <2>1. link' = [link EXCEPT !.events = <<>>, !.seen = 0]
      BY DEF Armed
    <2>2. /\ [link EXCEPT !.events = <<>>, !.seen = 0] \in Trailers
          /\ [link EXCEPT !.events = <<>>, !.seen = 0].events = <<>>
      BY <1>1, Heard, TrailerIs
    <2> QED  BY <2>1, <2>2
  <1>5. EventTypes'
    BY <1>1, <1>2, <1>3, <1>4, Heard DEF EventTypes
  <1>6. Told' = Told /\ EventsInOrder'
    BY <1>1, <1>2 DEF Told, EventsInOrder
  <1>7. /\ Rises(happened', watched', agent', fromAgent') /\ UpTo(Told', happened')
        /\ AckFollows(Told', watched', agent', fromAgent')
    BY <1>1, <1>2, <1>6, Heard
  <1>8. Follows(Told, 1, watched, agent, Stale(Tail(fromAgent)))
    <2>1. Follows(Told, 2, watched, agent, fromAgent)
      <3>1. 1 \in 1..Len(fromAgent) /\ Head(fromAgent) = fromAgent[1] /\ 1 + 1 = 2
        BY Heard
      <3> QED  BY <1>1, <3>1 DEF AckFollows
    <2> QED  BY <2>1, Heard
  <1>9. Follows(<<>>, 1, watched, agent, Stale(Tail(fromAgent)))
    BY DEF Follows, Before, Below
  <1>10. Rising(<<>>) /\ UpTo(<<>>, happened) /\ Before(Told, <<>>)
    BY DEF Rising, UpTo, Before
  <1>11. WatchFollows'
    <2>1. /\ Follows(Told', 1, watched', agent', fromAgent')
          /\ Follows(link'.events, 1, watched', agent', fromAgent')
      BY <1>2, <1>4, <1>6, <1>8, <1>9
    <2>2. Rising(link'.events) /\ UpTo(link'.events, happened') /\ Before(Told', link'.events)
      BY <1>2, <1>4, <1>6, <1>10
    <2> QED  BY <2>1, <2>2 DEF WatchFollows
  <1> QED  BY <1>2, <1>5, <1>6, <1>7, <1>11 DEF EventsHold

\* An answer that is not waited for: its trailer is kept.
LEMMA LateStep ==
  ASSUME EventsHold, fromAgent # <<>>, fromAgent' = Tail(fromAgent),
         \/ fresh' = KeepTrailer(fresh, Head(fromAgent)) /\ UNCHANGED link
         \/ link' = KeepTrailer(link, Head(fromAgent)) /\ UNCHANGED fresh,
         UNCHANGED <<console, toAgent, waiting, onCart, queue, shown, resampled>>
  PROVE  EventsHold'
  <1>1. /\ EventTypes /\ UpTo(Told, happened) /\ EventsInOrder
        /\ link \in Trailers /\ fresh \in Trailers
        /\ Rises(happened, watched, agent, fromAgent)
        /\ AckFollows(Told, watched, agent, fromAgent) /\ WatchFollows
        /\ (~onCart => SampleFollows(Told, fromAgent)) /\ (probing => ~onCart)
    BY DEF EventsHold, EventTypes
  <1>2. UNCHANGED <<watched, happened, agent, greeting, probing>>
    BY DEF console, waiting
  <1>3. /\ link' \in Trailers /\ fresh' \in Trailers
        /\ link'.events \in {link.events, link.events \o Head(fromAgent).events}
    <2>1. /\ KeepTrailer(link, Head(fromAgent)) \in Trailers
          /\ KeepTrailer(link, Head(fromAgent)).events = link.events \o Head(fromAgent).events
          /\ KeepTrailer(fresh, Head(fromAgent)) \in Trailers
      BY <1>1, Heard, TrailerIs
    <2> QED  BY <1>1, <2>1
  <1>4. EventTypes'
    BY <1>1, <1>2, <1>3, Heard DEF EventTypes
  <1>5. Told' = Told /\ EventsInOrder'
    BY <1>1 DEF Told, EventsInOrder
  <1>6. /\ Rises(happened', watched', agent', fromAgent') /\ UpTo(Told', happened')
        /\ AckFollows(Told', watched', agent', fromAgent')
        /\ (~onCart' => SampleFollows(Told', fromAgent')) /\ (probing' => ~onCart')
    BY <1>1, <1>2, <1>5, Heard
  <1>7. WatchFollows'
    <2>1. ASSUME onCart
          PROVE  /\ Rising(link'.events) /\ UpTo(link'.events, happened')
                 /\ Before(Told', link'.events)
                 /\ Follows(Told', 1, watched', agent', fromAgent')
                 /\ Follows(link'.events, 1, watched', agent', fromAgent')
      <3>1. /\ Rising(link.events) /\ UpTo(link.events, happened) /\ Before(Told, link.events)
            /\ Follows(Told, 1, watched, agent, fromAgent)
            /\ Follows(link.events, 1, watched, agent, fromAgent)
        BY <1>1, <2>1 DEF WatchFollows
      <3>2. /\ happened \in Nat /\ watched \in {0, happened} /\ agent \in Agents
            /\ fromAgent \in Seq(Answers) /\ link.events \in Seq(Nat) /\ Told \in Seq(Nat)
        BY <1>1, ToldIs DEF EventTypes
      <3>3. /\ Rising(link.events \o Head(fromAgent).events)
            /\ UpTo(link.events \o Head(fromAgent).events, happened)
            /\ Before(Told, link.events \o Head(fromAgent).events)
            /\ Follows(link.events \o Head(fromAgent).events, 1, watched, agent, Tail(fromAgent))
        BY <1>1, <3>1, <3>2, Keeps
      <3>4. /\ Follows(Told, 1, watched, agent, Tail(fromAgent))
            /\ Follows(link.events, 1, watched, agent, Tail(fromAgent))
        BY <3>1, Heard
      <3> QED  BY <1>2, <1>3, <1>5, <3>1, <3>3, <3>4
    <2> QED  BY <2>1 DEF WatchFollows
  <1> QED  BY <1>4, <1>5, <1>6, <1>7 DEF EventsHold

\* Events are queued for the connector.
LEMMA QueueStep ==
  ASSUME EventTypes, NEW es \in Seq(Nat), queue' = PushedAll(queue, es, HostQueue),
         UNCHANGED shown, Ordered(Told \o es, resampled')
  PROVE  queue' \in Seq(Nat) /\ Part(Told', Told \o es) /\ EventsInOrder'
  <1>1. queue \in Seq(Nat) /\ shown \in Nat /\ HostQueue \in Nat
    BY DEF EventTypes
  <1>2. Ordered((<<shown>> \o queue) \o es, resampled')
    BY DEF Told
  <1>3. /\ PushedAll(queue, es, HostQueue) \in Seq(Nat)
        /\ Part(<<shown>> \o PushedAll(queue, es, HostQueue), (<<shown>> \o queue) \o es)
        /\ Ordered(<<shown>> \o PushedAll(queue, es, HostQueue), resampled')
    BY <1>1, <1>2, Ends
  <1>4. EventsInOrder'
    <2>1. Ordered(<<shown'>> \o queue', resampled')
      BY <1>3
    <2> QED  BY <2>1 DEF EventsInOrder, Ordered
  <1>5. Told' = <<shown>> \o PushedAll(queue, es, HostQueue)
    BY DEF Told
  <1> QED  BY <1>3, <1>4, <1>5 DEF Told

LEMMA ToldOrdered == EventsInOrder <=> Ordered(Told, resampled)
BY DEF EventsInOrder, Ordered, Told

LEMMA OneIs ==
  ASSUME NEW v \in Nat
  PROVE  <<v>> \in Seq(Nat) /\ Rising(<<v>>) /\ \A n \in Nat : v <= n => UpTo(<<v>>, n)
BY DEF Rising, UpTo

\* A sample of the slot is not older than what the connector is shown.
LEMMA Sampled ==
  ASSUME NEW s \in Seq(Nat), NEW v \in Nat, NEW b, Ordered(s, b), UpTo(s, v)
  PROVE  Ordered(s \o <<v>>, TRUE)
  <1> DEFINE c == s \o <<v>>
  <1>1. /\ Len(c) = Len(s) + 1 /\ c[Len(s) + 1] = v /\ Len(s) \in Nat
        /\ \A i \in 1..Len(s) : c[i] = s[i] /\ s[i] \in Nat
    OBVIOUS
  <1> HIDE DEF c
  <1>2. ASSUME NEW i \in 1..Len(c), NEW j \in 1..Len(c), i < j
        PROVE  c[i] < c[j] \/ c[i] = c[j]
    <2>1. i \in 1..Len(s) /\ c[i] = s[i] /\ s[i] \in Nat
      BY <1>1, <1>2
    <2>2. CASE j \in 1..Len(s)
      BY <1>1, <1>2, <2>1, <2>2 DEF Ordered
    <2>3. CASE j = Len(s) + 1
      <3>1. s[i] <= v /\ c[j] = v
        BY <1>1, <2>1, <2>3 DEF UpTo
      <3> QED  BY <2>1, <3>1
    <2> QED  BY <1>1, <2>2, <2>3
  <1> QED  BY <1>2 DEF Ordered, c

\* The answer to a read that is waited for.
LEMMA ReadStep ==
  ASSUME EventsHold, fromAgent # <<>>, fromAgent' = Stale(Tail(fromAgent)),
         WasRead(Head(fromAgent)), UNCHANGED console
  PROVE  EventsHold'
  <1> DEFINE r == Head(fromAgent)
             kept == KeepTrailer(link, r)
             event == probing /\ sampled \notin {-1, r.sample} /\ r.sample # 0
             was == IF event THEN <<r.sample>> ELSE <<>>
             collects == asking # "sample" /\ onCart
             came == was \o (IF collects THEN kept.events ELSE <<>>)
  <1>1. /\ EventTypes /\ UpTo(Told, happened) /\ Ordered(Told, resampled)
        /\ link \in Trailers /\ fresh \in Trailers /\ onCart \in BOOLEAN
        /\ toAgent \in Seq(Asked) /\ happened \in Nat /\ watched \in {0, happened}
        /\ agent \in Agents /\ fromAgent \in Seq(Answers)
        /\ Rises(happened, watched, agent, fromAgent) /\ WatchFollows
        /\ (~onCart => SampleFollows(Told, fromAgent)) /\ (probing => ~onCart)
    BY ToldOrdered DEF EventsHold, EventTypes
  <1>2. Told \in Seq(Nat) /\ link.events \in Seq(Nat)
    BY <1>1, ToldIs
  <1>3. /\ r \in Answers /\ r = fromAgent[1] /\ 1 \in 1..Len(fromAgent)
    BY Heard
  <1>4. r.sample \in Nat /\ r.sample <= happened /\ r.events \in Seq(Nat)
    BY <1>1, <1>3, AnswerIs DEF Rises
  <1>5. /\ resampled' = (resampled \/ event)
        /\ queue' = PushedAll(queue, came, HostQueue)
        /\ link' = IF collects THEN [kept EXCEPT !.events = <<>>, !.new = 0] ELSE kept
        /\ probing' = FALSE /\ toAgent' = Stale(toAgent)
        /\ UNCHANGED <<greeting, fresh, onCart, shown>>
    BY Zenon DEF WasRead
  <1>6. /\ kept \in Trailers /\ kept.events = link.events \o r.events
        /\ [kept EXCEPT !.events = <<>>, !.new = 0] \in Trailers
        /\ [kept EXCEPT !.events = <<>>, !.new = 0].events = <<>>
    BY <1>1, <1>3, TrailerIs
  <1> HIDE DEF r, kept, event, was, collects, came
  <1>7. link' \in Trailers /\ toAgent' \in Seq(Asked)
    BY <1>1, <1>5, <1>6, AskedStale
  <1>8. UNCHANGED <<happened, watched, agent>>
    BY DEF console
  <1>9. SUFFICES ASSUME TRUE
                 PROVE  /\ queue' \in Seq(Nat) /\ EventsInOrder' /\ UpTo(Told', happened)
                        /\ onCart => /\ Rising(link'.events) /\ UpTo(link'.events, happened)
                                     /\ Before(Told', link'.events)
                                     /\ Follows(Told', 1, watched, agent, Stale(Tail(fromAgent)))
                                     /\ Follows(link'.events, 1, watched, agent,
                                                Stale(Tail(fromAgent)))
    <2>1. ASSUME queue' \in Seq(Nat) PROVE EventTypes'
      <3>1. fromAgent' \in Seq(Answers)
        BY Heard
      <3> QED  BY <1>1, <1>5, <1>7, <1>8, <2>1, <3>1 DEF EventTypes
    <2>2. /\ Rises(happened', watched', agent', fromAgent')
          /\ AckFollows(Told', watched', agent', fromAgent')
          /\ SampleFollows(Told', fromAgent')
      BY <1>8, Heard
    <2> QED  BY <1>5, <1>8, <2>1, <2>2 DEF EventsHold, WatchFollows
  <1>10. CASE ~onCart
    <2>1. ~collects
      BY <1>10 DEF collects
    <2>2. CASE event
      <3>1. came = <<r.sample>> /\ resampled' = TRUE /\ r.sample # 0
        <4>1. resampled' = TRUE
          BY <1>5, <2>2, Zenon
        <4>2. came = <<r.sample>> \o <<>>
          BY <2>1, <2>2 DEF came, was
        <4>3. r.sample # 0
          BY <2>2 DEF event
        <4> QED  BY <1>4, <4>1, <4>2, <4>3
      <3>2. UpTo(Told, r.sample)
        BY <1>1, <1>3, <1>10, <3>1 DEF SampleFollows
      <3>3. Ordered(Told \o <<r.sample>>, resampled')
        BY <1>1, <1>2, <1>4, <3>1, <3>2, Sampled
      <3>4. /\ queue' \in Seq(Nat) /\ Part(Told', Told \o <<r.sample>>) /\ EventsInOrder'
        BY <1>1, <1>4, <1>5, <3>1, <3>3, OneIs, QueueStep
      <3>5. UpTo(Told \o <<r.sample>>, happened) /\ Told \o <<r.sample>> \in Seq(Nat)
        BY <1>1, <1>2, <1>4, OneIs, Joins
      <3>6. UpTo(Told', happened)
        <4>1. Told' \in Seq(Nat)
          BY <1>1, <1>5, <3>4 DEF Told, EventTypes
        <4> QED  BY <3>4, <3>5, <4>1, PartKeeps
      <3> QED  BY <1>10, <3>4, <3>6
    <2>3. CASE ~event
      <3>1. came = <<>> /\ resampled' = resampled
        <4>1. resampled' = resampled
          BY <1>1, <1>5, <2>3 DEF EventTypes
        <4>2. came = <<>> \o <<>>
          BY <2>1, <2>3 DEF came, was
        <4> QED  BY <4>1, <4>2
      <3>2. Told \o <<>> = Told /\ <<>> \in Seq(Nat)
        BY <1>2
      <3>3. queue' \in Seq(Nat) /\ Part(Told', Told) /\ EventsInOrder'
        BY <1>1, <1>5, <3>1, <3>2, QueueStep
      <3>4. UpTo(Told', happened)
        <4>1. Told' \in Seq(Nat)
          BY <1>1, <1>5, <3>3 DEF Told, EventTypes
        <4> QED  BY <1>1, <1>2, <3>3, <4>1, PartKeeps
      <3> QED  BY <1>10, <3>3, <3>4
    <2> QED  BY <2>2, <2>3
  <1>11. CASE onCart
    <2>1. /\ ~event /\ was = <<>> /\ resampled' = resampled
      <3>1. ~probing
        BY <1>1, <1>11
      <3>2. ~event
        BY <3>1 DEF event
      <3>3. resampled' = resampled
        BY <1>1, <1>5, <3>2 DEF EventTypes
      <3> QED  BY <3>2, <3>3 DEF was
    <2> DEFINE k == kept.events
    <2>2. /\ Rising(link.events) /\ UpTo(link.events, happened) /\ Before(Told, link.events)
          /\ Follows(Told, 1, watched, agent, fromAgent)
          /\ Follows(link.events, 1, watched, agent, fromAgent)
      BY <1>1, <1>11 DEF WatchFollows
    <2>3. /\ k \in Seq(Nat) /\ Rising(k) /\ UpTo(k, happened) /\ Before(Told, k)
          /\ Follows(Told, 1, watched, agent, Tail(fromAgent))
          /\ Follows(k, 1, watched, agent, Tail(fromAgent))
      <3>1. link.events \o r.events \in Seq(Nat)
        BY <1>2, <1>4
      <3> QED  BY <1>1, <1>2, <1>6, <2>2, <3>1, Keeps DEF r
    <2>4. /\ Follows(Told, 1, watched, agent, Stale(Tail(fromAgent)))
          /\ Follows(k, 1, watched, agent, Stale(Tail(fromAgent)))
      BY <2>3, Heard
    <2> HIDE DEF k
    <2>5. CASE collects
      <3>1. came = k /\ link'.events = <<>>
        <4>1. came = <<>> \o k
          BY <2>1, <2>5 DEF came, k
        <4> QED  BY <1>5, <1>6, <2>3, <2>5, <4>1
      <3>2. /\ Told \o k \in Seq(Nat) /\ UpTo(Told \o k, happened)
            /\ Ordered(Told \o k, resampled')
            /\ Follows(Told \o k, 1, watched, agent, Stale(Tail(fromAgent)))
        BY <1>1, <1>2, <2>1, <2>3, <2>4, Joins
      <3>3. queue' \in Seq(Nat) /\ Part(Told', Told \o k) /\ EventsInOrder'
        BY <1>1, <1>5, <2>3, <3>1, <3>2, QueueStep
      <3>4. Told' \in Seq(Nat)
        BY <1>1, <1>5, <3>3 DEF Told, EventTypes
      <3>5. UpTo(Told', happened) /\ Follows(Told', 1, watched, agent, Stale(Tail(fromAgent)))
        BY <3>2, <3>3, <3>4, PartKeeps
      <3>6. /\ Rising(<<>>) /\ UpTo(<<>>, happened) /\ Before(Told', <<>>)
            /\ Follows(<<>>, 1, watched, agent, Stale(Tail(fromAgent)))
        BY DEF Rising, UpTo, Before, Below, Follows
      <3> QED  BY <3>1, <3>3, <3>5, <3>6
    <2>6. CASE ~collects
      <3>1. came = <<>> /\ link'.events = k
        BY <1>5, <2>1, <2>6 DEF came, k
      <3>2. Told \o <<>> = Told /\ <<>> \in Seq(Nat)
        BY <1>2
      <3>3. queue' \in Seq(Nat) /\ Part(Told', Told) /\ EventsInOrder'
        BY <1>1, <1>5, <2>1, <3>1, <3>2, QueueStep
      <3>4. Told' \in Seq(Nat)
        BY <1>1, <1>5, <3>3 DEF Told, EventTypes
      <3>5. /\ UpTo(Told', happened) /\ Before(Told', k)
            /\ Follows(Told', 1, watched, agent, Stale(Tail(fromAgent)))
        BY <1>1, <1>2, <2>3, <2>4, <3>3, <3>4, PartKeeps
      <3> QED  BY <2>3, <2>4, <3>1, <3>3, <3>5
    <2> QED  BY <2>5, <2>6
  <1> QED  BY <1>10, <1>11

LEMMA ReceiveStep ==
  ASSUME EventsHold, ReceiveReply
  PROVE  EventsHold'
  <1> DEFINE r == Head(fromAgent)
             awaited == ~r.stale /\ asking # "none"
  <1>1. fromAgent # <<>> /\ UNCHANGED console
    BY DEF ReceiveReply
  <1>2. r.msg \in {"HELLO_ACK", "WATCH_ACK", "PEEKV_RESP"}
    BY <1>1, Heard DEF Answers
  <1>3. CASE awaited
    <2>1. /\ fromAgent' = Stale(Tail(fromAgent))
          /\ CASE r.msg = "HELLO_ACK" -> Greeted
               [] r.msg = "WATCH_ACK" -> Armed
               [] r.msg = "PEEKV_RESP" -> WasRead(r)
      BY <1>3, Zenon DEF ReceiveReply
    <2>2. CASE r.msg = "HELLO_ACK"
      <3>1. Greeted
        BY <2>1, <2>2
      <3> QED  BY <1>1, <2>1, <3>1, GreetedStep
    <2>3. CASE r.msg = "WATCH_ACK"
      <3>1. Armed
        BY <2>1, <2>3
      <3> QED  BY <1>1, <1>3, <2>1, <2>3, <3>1, ArmedStep
    <2>4. CASE r.msg = "PEEKV_RESP"
      <3>1. WasRead(r)
        BY <2>1, <2>4
      <3> QED  BY <1>1, <2>1, <3>1, ReadStep
    <2> QED  BY <1>2, <2>2, <2>3, <2>4
  <1>4. CASE ~awaited
    <2>1. /\ fromAgent' = Tail(fromAgent)
          /\ IF greeting THEN fresh' = KeepTrailer(fresh, r) /\ UNCHANGED link
                         ELSE link' = KeepTrailer(link, r) /\ UNCHANGED fresh
          /\ UNCHANGED <<toAgent, waiting, onCart, queue, shown, resampled>>
      BY <1>4, Zenon DEF ReceiveReply
    <2>2. \/ fresh' = KeepTrailer(fresh, r) /\ UNCHANGED link
          \/ link' = KeepTrailer(link, r) /\ UNCHANGED fresh
      BY <2>1
    <2> QED  BY <1>1, <2>1, <2>2, LateStep
  <1> QED  BY <1>3, <1>4

\* The connector's read is shown the oldest event.
LEMMA TakeStep ==
  ASSUME EventsHold, TakeWatched
  PROVE  EventsHold'
  <1>1. /\ EventTypes /\ UpTo(Told, happened) /\ Ordered(Told, resampled)
        /\ Rises(happened, watched, agent, fromAgent)
        /\ AckFollows(Told, watched, agent, fromAgent) /\ WatchFollows
        /\ (~onCart => SampleFollows(Told, fromAgent)) /\ (probing => ~onCart)
    BY ToldOrdered DEF EventsHold
  <1>2. /\ UNCHANGED <<watched, happened, agent, toAgent, fromAgent, greeting, probing, link,
                       fresh, onCart, resampled>>
        /\ queue # <<>> /\ shown' = Head(queue) /\ queue' = Tail(queue)
    BY DEF TakeWatched, console, wire, waiting
  <1>3. queue \in Seq(Nat) /\ shown \in Nat
    BY <1>1 DEF EventTypes
  <1>4. queue' \in Seq(Nat) /\ shown' \in Nat
    BY <1>2, <1>3
  <1>5. EventTypes'
    BY <1>1, <1>2, <1>4 DEF EventTypes
  <1>6. Told' = queue
    BY <1>2, <1>3 DEF Told
  <1>7. /\ Told \in Seq(Nat) /\ Len(Told) = Len(queue) + 1 /\ Len(queue) \in Nat
        /\ \A i \in 1..Len(queue) : i + 1 \in 1..Len(Told) /\ queue[i] = Told[i + 1]
    BY <1>3 DEF Told
  <1>8. Part(queue, Told)
    BY <1>7 DEF Part
  <1>9. Ordered(queue, resampled)
    <2>1. ASSUME NEW i \in 1..Len(queue), NEW j \in 1..Len(queue), i < j
          PROVE  queue[i] < queue[j] \/ (queue[i] = queue[j] /\ resampled)
      <3>1. i + 1 < j + 1
        BY <2>1
      <3> QED  BY <1>1, <1>7, <3>1 DEF Ordered
    <2> QED  BY <2>1 DEF Ordered
  <1>10. /\ UpTo(queue, happened) /\ AckFollows(queue, watched, agent, fromAgent)
         /\ (~onCart => SampleFollows(queue, fromAgent))
    BY <1>1, <1>3, <1>7, <1>8, PartKeeps
  <1>11. ASSUME onCart
         PROVE  Before(queue, link.events) /\ Follows(queue, 1, watched, agent, fromAgent)
    BY <1>1, <1>3, <1>7, <1>8, <1>11, PartKeeps DEF WatchFollows
  <1>12. EventsInOrder'
    <2>1. Ordered(Told', resampled')
      BY <1>2, <1>6, <1>9
    <2> QED  BY <2>1 DEF EventsInOrder, Ordered, Told
  <1>13. WatchFollows'
    BY <1>1, <1>2, <1>6, <1>11 DEF WatchFollows
  <1>14. /\ Rises(happened', watched', agent', fromAgent') /\ UpTo(Told', happened')
         /\ AckFollows(Told', watched', agent', fromAgent')
         /\ (~onCart' => SampleFollows(Told', fromAgent')) /\ (probing' => ~onCart')
    BY <1>1, <1>2, <1>6, <1>10
  <1> QED  BY <1>5, <1>12, <1>13, <1>14 DEF EventsHold

-----------------------------------------------------------------------------
LEMMA EventsInitially == WatchInit => EventsHold
  <1> SUFFICES ASSUME WatchInit PROVE EventsHold
    OBVIOUS
  <1>1. EventTypes
    <2>1. /\ <<>> \in Seq(Asked) /\ <<>> \in Seq(Answers) /\ <<>> \in Seq(Nat) /\ 0 \in Nat
          /\ FALSE \in BOOLEAN /\ 0 \in {0, 0}
      OBVIOUS
    <2>2. /\ watched = 0 /\ happened = 0 /\ agent = NoWatch /\ toAgent = <<>> /\ fromAgent = <<>>
          /\ greeting = FALSE /\ probing = FALSE /\ onCart = FALSE
          /\ link = NewLink /\ fresh = NewLink /\ queue = <<>> /\ shown = 0 /\ resampled = FALSE
      BY DEF WatchInit
    <2> QED  BY <2>1, <2>2, NewAgents, NewLinkIs DEF EventTypes
  <1>2. Told = <<0>> /\ happened = 0 /\ agent = NoWatch /\ fromAgent = <<>> /\ ~onCart /\ ~probing
    BY DEF WatchInit, Told
  <1>3. Rises(happened, watched, agent, fromAgent)
    BY <1>2, NewAgents DEF Rises, Rising, UpTo, Due
  <1>4. UpTo(Told, happened) /\ Ordered(Told, resampled)
    BY <1>2 DEF UpTo, Ordered
  <1>5. AckFollows(Told, watched, agent, fromAgent) /\ SampleFollows(Told, fromAgent)
    BY <1>2 DEF AckFollows, SampleFollows
  <1> QED  BY <1>1, <1>2, <1>3, <1>4, <1>5, ToldOrdered DEF EventsHold, WatchFollows

LEMMA EventsKept ==
  ASSUME EventsHold, [WatchNext]_watchVars
  PROVE  EventsHold'
  <1>1. CASE GameWrites
    BY <1>1, GameStep
  <1>2. CASE WatchTick
    BY <1>2, TickStep
  <1>3. CASE HandleHello
    <2>1. /\ toAgent # <<>> /\ Respond("HELLO_ACK", <<>>, 0) /\ agent' = NoWatch
          /\ UNCHANGED <<watched, happened, waiting, seen>>
      BY <1>3 DEF HandleHello
    <2> QED  BY <2>1, AgentForgets
  <1>4. CASE HandleWatch
    <2>1. /\ toAgent # <<>> /\ Respond("WATCH_ACK", <<>>, 0)
          /\ agent' = [NoWatch EXCEPT !.watching = TRUE]
          /\ UNCHANGED <<watched, happened, waiting, seen>>
      BY <1>4 DEF HandleWatch
    <2> QED  BY <2>1, AgentForgets
  <1>5. CASE HandlePeek
    BY <1>5, PeekStep
  <1>6. CASE ConsoleReset \/ LoseMessage
    BY <1>6, LossStep
  <1>7. CASE Read \/ Alive \/ SampleWatch \/ QuickCopy \/ Resend \/ Reconnect \/ GiveUp
    BY <1>7, AskSteps
  <1>8. CASE ReceiveReply
    BY <1>8, ReceiveStep
  <1>9. CASE TakeWatched
    BY <1>9, TakeStep
  <1>10. CASE UNCHANGED watchVars
    <2>1. UNCHANGED <<watched, happened, agent, toAgent, fromAgent, greeting, probing, link,
                      fresh, onCart, queue, shown, resampled>>
      BY <1>10 DEF watchVars, console, wire, waiting, seen
    <2>2. EventTypes'
      BY <2>1 DEF EventsHold, EventTypes
    <2>3. /\ \A s \in Seq(Nat) : UpTo(s, happened) => UpTo(s, happened')
          /\ \A s \in Seq(Nat) : UpTo(s, happened) /\ Follows(s, 1, watched, agent, fromAgent)
                                   => Follows(s, 1, watched', agent', fromAgent')
      BY <2>1
    <2>4. /\ Rises(happened', watched', agent', fromAgent')
          /\ AckFollows(Told, watched', agent', fromAgent')
          /\ (~onCart => SampleFollows(Told, fromAgent')) /\ (probing' => ~onCart)
      BY <2>1 DEF EventsHold
    <2> QED  BY <2>1, <2>2, <2>3, <2>4, PathMoves
  <1> QED
    BY <1>1, <1>2, <1>3, <1>4, <1>5, <1>6, <1>7, <1>8, <1>9, <1>10 DEF WatchNext

\* The connector is shown the game's events in the order in which they
\* happened, and none twice unless one had to be sampled: however many events
\* there are, whatever the sizes of the two queues, and however many messages
\* are lost, copied or late, consoles reset and links made anew.
THEOREM EventsShownInOrder == WatchSpec => []EventsInOrder
  <1>1. EventsHold => EventsInOrder
    BY DEF EventsHold
  <1> QED  BY EventsInitially, EventsKept, <1>1, PTL DEF WatchSpec

-----------------------------------------------------------------------------
(* The events of a path of answers, counted from answer to answer.         *)

Lowest(I) == CHOOSE x \in I : \A y \in I : x <= y

\* A set of numbers that is not empty has a least one.
LEMMA LowestIs ==
  ASSUME NEW I, I \subseteq Nat, I # {}
  PROVE  Lowest(I) \in I /\ \A y \in I : Lowest(I) <= y
  <1> DEFINE Less == {ss \in Nat \X Nat : ss[1] < ss[2]}
  <1>1. IsWellFoundedOn(Less, Nat)
    BY NatLessThanWellFounded, Zenon DEF OpToRel
  <1> HIDE DEF Less
  <1>2. PICK x \in I : \A y \in I : ~ (<<y, x>> \in Less)
    BY <1>1, WFMin
  <1>3. ASSUME NEW y \in I PROVE x =< y
    <2>1. y \in Nat /\ x \in Nat
      OBVIOUS
    <2>2. y < x => <<y, x>> \in Less
      BY <2>1 DEF Less
    <2> QED  BY <1>2, <2>1, <2>2
  <1> QED  BY <1>3 DEF Lowest

\* f joins the first sequences of ss.
Joined(f, ss, n) == f[0] = <<>> /\ \A i \in 1..n : f[i] = f[i - 1] \o ss[i]

LEMMA JoinedExists ==
  ASSUME NEW ss \in Seq(Seq(Nat))
  PROVE  \E f \in [0..Len(ss) -> Seq(Nat)] : Joined(f, ss, Len(ss))
  <1> DEFINE n == Len(ss)
             none == {m \in 0..n : ~ \E f \in [0..m -> Seq(Nat)] : Joined(f, ss, m)}
  <1>1. n \in Nat /\ \A i \in 1..n : ss[i] \in Seq(Nat)
    OBVIOUS
  <1> HIDE DEF n
  <1>2. ASSUME none # {} PROVE FALSE
    <2> DEFINE m == Lowest(none)
    <2>1. m \in none /\ \A k \in none : m <= k
      <3>1. none \subseteq Nat
        BY <1>1
      <3> HIDE DEF none
      <3> QED  BY <1>2, <3>1, LowestIs
    <2> HIDE DEF m
    <2>2. m \in 0..n
      BY <2>1
    <2>3. CASE m = 0
      <3> DEFINE f == [i \in 0..0 |-> <<>>]
      <3>1. f \in [0..0 -> Seq(Nat)] /\ Joined(f, ss, 0)
        BY DEF Joined
      <3> QED  BY <2>1, <2>3, <3>1
    <2>4. CASE m > 0
      <3>1. m - 1 \in 0..n /\ m - 1 \notin none
        BY <1>1, <2>1, <2>2, <2>4
      <3>2. PICK f \in [0..m - 1 -> Seq(Nat)] : Joined(f, ss, m - 1)
        BY <3>1
      <3> DEFINE v == f[m - 1] \o ss[m]
                 g == [i \in 0..m |-> IF i = m THEN v ELSE f[i]]
      <3>3. f[m - 1] \in Seq(Nat) /\ ss[m] \in Seq(Nat)
        BY <1>1, <2>2, <2>4
      <3>4. v \in Seq(Nat)
        BY <3>3
      <3> HIDE DEF v
      <3>5. g \in [0..m -> Seq(Nat)]
        BY <2>2, <3>4
      <3>6. g[0] = <<>> /\ g[m] = v /\ \A i \in 0..m - 1 : g[i] = f[i]
        <4>1. f[0] = <<>>
          BY <3>2 DEF Joined
        <4>2. m \in Nat /\ m # 0 /\ 0 \in 0..m /\ m \in 0..m
          BY <2>2, <2>4
        <4> QED  BY <4>1, <4>2
      <3> HIDE DEF g
      <3>7. ASSUME NEW i \in 1..m PROVE g[i] = g[i - 1] \o ss[i]
        <4>1. CASE i = m
          <5>1. m - 1 \in 0..m - 1
            BY <2>2, <2>4
          <5> QED  BY <3>6, <4>1, <5>1 DEF v
        <4>2. CASE i # m
          <5>1. i \in 1..m - 1 /\ i \in 0..m - 1 /\ i - 1 \in 0..m - 1
            BY <2>2, <4>2
          <5> QED  BY <3>2, <3>6, <5>1 DEF Joined
        <4> QED  BY <4>1, <4>2
      <3>8. Joined(g, ss, m)
        BY <3>6, <3>7 DEF Joined
      <3> QED  BY <2>1, <3>5, <3>8
    <2> QED  BY <2>2, <2>3, <2>4
  <1>3. n \notin none
    BY <1>2
  <1> QED  BY <1>1, <1>3 DEF n

\* f counts the events of the first answers of m.
Sums(f, m) == f[0] = 0 /\ \A i \in 1..Len(m) : f[i] = f[i - 1] + Len(m[i].events)

\* The answers m bring n events.
Bring(m, n) == \E f \in [0..Len(m) -> Int] : Sums(f, m) /\ f[Len(m)] = n

\* What the answers bring is what their events, one after the other, are.
LEMMA BroughtIs ==
  ASSUME NEW m \in Seq(Answers), NEW n \in Int, Bring(m, n)
  PROVE  /\ FlattenSeq([i \in 1..Len(m) |-> m[i].events]) \in Seq(Nat)
         /\ Len(FlattenSeq([i \in 1..Len(m) |-> m[i].events])) = n
  <1> DEFINE ss == [i \in 1..Len(m) |-> m[i].events]
             l == Len(m)
             IsJoin(f) == f = [i \in 1..l |-> IF i = 1 THEN ss[i] ELSE f[i - 1] \o ss[i]]
             join == CHOOSE f : IsJoin(f)
  <1>1. PICK f \in [0..Len(m) -> Int] : Sums(f, m) /\ f[Len(m)] = n
    BY DEF Bring
  <1>2. /\ l \in Nat /\ Len(ss) = l /\ ss \in Seq(Seq(Nat))
        /\ \A i \in 1..l : ss[i] = m[i].events /\ ss[i] \in Seq(Nat)
    <2>1. \A i \in 1..Len(m) : m[i].events \in Seq(Nat)
      BY AnswerIs
    <2>2. Len(m) \in Nat
      OBVIOUS
    <2> QED  BY <2>1, <2>2
  <1>3. FlattenSeq(ss) = IF Len(ss) = 0 THEN ss ELSE join[Len(ss)]
    BY <1>2 DEF FlattenSeq
  <1> HIDE DEF ss, l, join
  <1>4. CASE l = 0
    <2>1. ss \in Seq(Nat)
      BY <1>2, <1>4
    <2> QED  BY <1>1, <1>2, <1>3, <1>4, <2>1 DEF Sums, l, ss
  <1>5. CASE l # 0
    <2>1. PICK h \in [0..l -> Seq(Nat)] : Joined(h, ss, l)
      BY <1>2, JoinedExists
    <2> DEFINE g == [i \in 1..l |-> h[i]]
    <2>2. IsJoin(g)
      <3>1. ASSUME NEW i \in 1..l
            PROVE  h[i] = IF i = 1 THEN ss[i] ELSE g[i - 1] \o ss[i]
        <4>1. h[i] = h[i - 1] \o ss[i]
          BY <2>1 DEF Joined
        <4>2. CASE i = 1
          <5>1. h[i - 1] = <<>> /\ ss[i] \in Seq(Nat)
            BY <1>2, <2>1, <4>2 DEF Joined
          <5> QED  BY <4>1, <4>2, <5>1
        <4>3. CASE i # 1
          <5>1. i - 1 \in 1..l
            BY <1>2, <4>3
          <5> QED  BY <4>1, <4>3, <5>1
        <4> QED  BY <4>2, <4>3
      <3> QED  BY <3>1
    <2>3. IsJoin(join)
      <3>1. \E j : IsJoin(j)
        BY <2>2
      <3> QED  BY <3>1, Zenon DEF join
    <2>4. join[1] = ss[1] /\ \A i \in 1..l : i # 1 => join[i] = join[i - 1] \o ss[i]
      <3>1. 1 \in 1..l
        BY <1>2, <1>5
      <3>2. join = [i \in 1..l |-> IF i = 1 THEN ss[i] ELSE join[i - 1] \o ss[i]]
        BY <2>3
      <3>3. \A i \in 1..l : join[i] = IF i = 1 THEN ss[i] ELSE join[i - 1] \o ss[i]
        BY <3>2, Zenon
      <3> QED  BY <3>1, <3>3
    <2> DEFINE odd == {i \in 1..l : ~(join[i] \in Seq(Nat) /\ Len(join[i]) = f[i])}
    <2>5. ASSUME odd # {} PROVE FALSE
      <3> DEFINE k == Lowest(odd)
      <3>1. k \in odd /\ \A i \in odd : k <= i
        <4>1. odd \subseteq Nat
          BY <1>2
        <4> HIDE DEF odd
        <4> QED  BY <2>5, <4>1, LowestIs
      <3> HIDE DEF k
      <3>2. k \in 1..l /\ ss[k] \in Seq(Nat) /\ f[k] = f[k - 1] + Len(ss[k])
        BY <1>1, <1>2, <3>1 DEF Sums, l
      <3>3. CASE k = 1
        <4>1. f[k - 1] = 0 /\ join[k] = ss[k]
          BY <1>1, <2>4, <3>3 DEF Sums
        <4>2. Len(ss[k]) \in Nat
          BY <3>2
        <4> QED  BY <3>1, <3>2, <4>1, <4>2
      <3>4. CASE k # 1
        <4>1. k - 1 \in 1..l /\ k - 1 \notin odd
          BY <1>2, <3>1, <3>2, <3>4
        <4>2. join[k - 1] \in Seq(Nat) /\ Len(join[k - 1]) = f[k - 1]
          BY <4>1
        <4>3. join[k] = join[k - 1] \o ss[k]
          BY <2>4, <3>2, <3>4
        <4>4. join[k] \in Seq(Nat) /\ Len(join[k]) = Len(join[k - 1]) + Len(ss[k])
          <5> DEFINE p == join[k - 1]
                     q == ss[k]
          <5>1. p \in Seq(Nat) /\ q \in Seq(Nat)
            BY <3>2, <4>2
          <5> HIDE DEF p, q
          <5>2. p \o q \in Seq(Nat) /\ Len(p \o q) = Len(p) + Len(q)
            BY <5>1
          <5> QED  BY <4>3, <5>2 DEF p, q
        <4> QED  BY <3>1, <3>2, <4>2, <4>4
      <3> QED  BY <3>3, <3>4
    <2>6. l \in 1..l /\ l \notin odd
      <3>1. l \in 1..l
        BY <1>2, <1>5
      <3>2. odd = {}
        BY <2>5
      <3> QED  BY <3>1, <3>2
    <2> QED  BY <1>1, <1>2, <1>3, <1>5, <2>6 DEF l, ss
  <1> QED  BY <1>4, <1>5

LEMMA BringNone == Bring(<<>>, 0)
  <1> DEFINE f == [i \in 0..0 |-> 0]
  <1>1. f \in [0..Len(<<>>) -> Int] /\ f[0] = 0 /\ Len(<<>>) = 0
    OBVIOUS
  <1> HIDE DEF f
  <1> QED  BY <1>1 DEF Bring, Sums

LEMMA BringMore ==
  ASSUME NEW m \in Seq(Answers), NEW n \in Int, Bring(m, n), NEW r \in Answers
  PROVE  Bring(Append(m, r), n + Len(r.events))
  <1>1. PICK f \in [0..Len(m) -> Int] : Sums(f, m) /\ f[Len(m)] = n
    BY DEF Bring
  <1> DEFINE l == Len(m)
             m2 == Append(m, r)
             k == Len(r.events)
             g == [i \in 0..l + 1 |-> IF i = l + 1 THEN n + k ELSE f[i]]
  <1>2. k \in Nat
    BY DEF Answers
  <1>3. /\ l \in Nat /\ Len(m2) = l + 1 /\ m2[l + 1] = r
        /\ \A i \in 1..l : m2[i] = m[i]
    OBVIOUS
  <1> HIDE DEF k
  <1>4. g \in [0..l + 1 -> Int] /\ g[l + 1] = n + k /\ \A i \in 0..l : g[i] = f[i]
    BY <1>1, <1>2, <1>3
  <1> HIDE DEF g, m2
  <1>5. ASSUME NEW i \in 1..l + 1 PROVE g[i] = g[i - 1] + Len(m2[i].events)
    <2>1. i - 1 \in 0..l
      BY <1>3
    <2>2. CASE i = l + 1
      <3>1. g[i - 1] = n
        <4>1. i - 1 = l /\ l \in 0..l
          BY <1>3, <2>2
        <4> QED  BY <1>1, <1>4, <4>1
      <3>2. Len(m2[i].events) = k
        BY <1>3, <2>2 DEF k
      <3> QED  BY <1>4, <2>2, <3>1, <3>2
    <2>3. CASE i \in 1..l
      <3>1. i \in 0..l
        BY <1>3, <2>3
      <3> QED  BY <1>1, <1>3, <1>4, <2>1, <2>3, <3>1 DEF Sums
    <2> QED  BY <1>3, <2>2, <2>3
  <1>6. Sums(g, m2)
    BY <1>1, <1>3, <1>4, <1>5 DEF Sums
  <1> QED  BY <1>3, <1>4, <1>6 DEF Bring, m2, k

LEMMA BringLess ==
  ASSUME NEW m \in Seq(Answers), NEW n \in Int, Bring(m, n), m # <<>>
  PROVE  Bring(Tail(m), n - Len(Head(m).events))
  <1>1. PICK f \in [0..Len(m) -> Int] : Sums(f, m) /\ f[Len(m)] = n
    BY DEF Bring
  <1> DEFINE l == Len(m)
             m2 == Tail(m)
             g == [i \in 0..l - 1 |-> f[i + 1] - f[1]]
  <1>2. /\ l \in Nat /\ l > 0 /\ Len(m2) = l - 1 /\ Head(m) = m[1]
        /\ \A i \in 1..l - 1 : m2[i] = m[i + 1]
    OBVIOUS
  <1>3. f[1] = Len(Head(m).events)
    <2>1. 1 \in 1..l /\ Head(m) \in Answers
      BY <1>2
    <2>2. Len(Head(m).events) \in Nat
      BY <2>1 DEF Answers
    <2>3. f[1] = f[0] + Len(m[1].events)
      BY <1>1, <2>1 DEF Sums
    <2> QED  BY <1>1, <1>2, <2>2, <2>3 DEF Sums
  <1> HIDE DEF l, m2
  <1>4. /\ g \in [0..l - 1 -> Int]
        /\ \A i \in 0..l - 1 : g[i] = f[i + 1] - f[1] /\ f[i + 1] \in Int
        /\ f[1] \in Int
    BY <1>1, <1>2 DEF l
  <1> HIDE DEF g
  <1>5. g[0] = 0 /\ g[l - 1] = n - f[1]
    BY <1>1, <1>2, <1>4 DEF l
  <1>6. ASSUME NEW i \in 1..l - 1 PROVE g[i] = g[i - 1] + Len(m2[i].events)
    <2>1. /\ i \in 0..l - 1 /\ i - 1 \in 0..l - 1 /\ i + 1 \in 1..l /\ (i - 1) + 1 = i
      BY <1>2
    <2>2. f[i + 1] = f[i] + Len(m[i + 1].events)
      BY <1>1, <2>1 DEF Sums, l
    <2>3. Len(m[i + 1].events) \in Nat
      <3>1. m[i + 1].events \in Seq(Nat)
        BY <2>1, AnswerIs DEF l
      <3> QED  BY <3>1
    <2>4. g[i] = f[i + 1] - f[1] /\ g[i - 1] = f[i] - f[1] /\ f[i] \in Int
      BY <1>4, <2>1
    <2>5. m2[i] = m[i + 1]
      BY <1>2
    <2> DEFINE a == f[i]
               b == f[1]
               c == Len(m[i + 1].events)
    <2>6. a \in Int /\ b \in Int /\ c \in Int
      BY <1>4, <2>1, <2>3, <2>4
    <2>7. g[i] = (a + c) - b /\ g[i - 1] = a - b /\ Len(m2[i].events) = c
      BY <2>2, <2>4, <2>5
    <2> HIDE DEF a, b, c
    <2> QED  BY <2>6, <2>7
  <1>7. Sums(g, m2)
    BY <1>2, <1>5, <1>6 DEF Sums
  <1> QED  BY <1>2, <1>3, <1>4, <1>5, <1>7 DEF Bring, m2

LEMMA BringStale ==
  ASSUME NEW m \in Seq(Answers), NEW n, Bring(m, n)
  PROVE  Bring(Stale(m), n)
  <1>1. /\ Len(Stale(m)) = Len(m)
        /\ \A i \in 1..Len(m) : Stale(m)[i].events = m[i].events
    <2>1. Stale(m) = [i \in 1..Len(m) |-> [m[i] EXCEPT !.stale = TRUE, !.sample = 0]]
      BY DEF Stale
    <2>2. Len(m) \in Nat
      OBVIOUS
    <2>3. ASSUME NEW i \in 1..Len(m) PROVE Stale(m)[i].events = m[i].events
      <3>1. Stale(m)[i] = [m[i] EXCEPT !.stale = TRUE, !.sample = 0] /\ m[i] \in Answers
        BY <2>1, AnswerIs
      <3> QED  BY <3>1, StaleIs
    <2>4. Len(Stale(m)) = Len(m)
      <3> DEFINE g(i) == [m[i] EXCEPT !.stale = TRUE, !.sample = 0]
      <3>1. Stale(m) = [i \in 1..Len(m) |-> g(i)]
        BY <2>1
      <3> HIDE DEF g
      <3> QED  BY <2>2, <3>1
    <2> QED  BY <2>3, <2>4
  <1> QED  BY <1>1 DEF Bring, Sums

-----------------------------------------------------------------------------
(* The books of the events.                                                *)

Eventless(r) == r.events = <<>> /\ r.dropped = 0
NoneIs(msg, ms) == \A i \in 1..Len(ms) : ms[i].msg # msg

\* The agent reported nothing before its first look at the slot...
Unwatched(ag, lk, m) ==
  ~ag.have => /\ ag.queue = <<>> /\ ag.dropped = 0 /\ lk.events = <<>> /\ lk.seen = 0
              /\ \A i \in 1..Len(m) : Eventless(m[i])

\* ...nor before it answered the WATCH.
AcksFirst(lk, m) ==
  \A k \in 1..Len(m) : m[k].msg = "WATCH_ACK" =>
     lk.events = <<>> /\ lk.seen = 0 /\ \A i \in 1..k : Eventless(m[i])

\* The numbers that must agree.
Agree(o, held, brought, ag, lk, sampling) ==
  ~sampling /\ ag.dropped < MaxDropped =>
    o = held + Len(lk.events) + brought + Len(ag.queue) + lk.new + (ag.dropped - lk.seen)

Balance(o, q, lk, m, ag, sampling) ==
  \E n \in Int : Bring(m, n) /\ Agree(o, Len(q), n, ag, lk, sampling)

Counted ==
  /\ owed \in Int
  /\ lossless => /\ ~greeting /\ NoneIs("HELLO", toAgent) /\ NoneIs("HELLO_ACK", fromAgent)
                 /\ Unwatched(agent, link, fromAgent) /\ AcksFirst(link, fromAgent)
                 /\ Balance(owed, queue, link, fromAgent, agent, resampled)

LEMMA NoneStale ==
  ASSUME NEW ms, Len(ms) \in Nat, NEW msg, NoneIs(msg, ms),
         \A i \in 1..Len(ms) : [ms[i] EXCEPT !.stale = TRUE, !.sample = 0].msg = ms[i].msg
  PROVE  NoneIs(msg, Stale(ms)) /\ Len(Stale(ms)) = Len(ms)
  <1> DEFINE g(i) == [ms[i] EXCEPT !.stale = TRUE, !.sample = 0]
  <1>1. Stale(ms) = [i \in 1..Len(ms) |-> g(i)] /\ \A i \in 1..Len(ms) : g(i).msg = ms[i].msg
    BY DEF Stale
  <1> HIDE DEF g
  <1> QED  BY <1>1 DEF NoneIs

\* No HELLO is sent but by a reconnect.
LEMMA NoHello ==
  ASSUME NEW ms \in Seq(Asked), NoneIs("HELLO", ms)
  PROVE  /\ NoneIs("HELLO", Stale(ms))
         /\ ms # <<>> => NoneIs("HELLO", Tail(ms))
         /\ \A msg \in {"WATCH", "PEEKV"} :
              /\ NoneIs("HELLO", Append(ms, Request(msg)))
              /\ NoneIs("HELLO", Append(Stale(ms), Request(msg)))
  <1>1. NoneIs("HELLO", Stale(ms)) /\ Stale(ms) \in Seq(Asked)
    <2>1. \A i \in 1..Len(ms) : [ms[i] EXCEPT !.stale = TRUE, !.sample = 0].msg = ms[i].msg
      <3>1. ASSUME NEW i \in 1..Len(ms)
            PROVE  [ms[i] EXCEPT !.stale = TRUE, !.sample = 0].msg = ms[i].msg
        <4>1. ms[i] \in Asked
          OBVIOUS
        <4> QED  BY <4>1 DEF Asked
      <3> QED  BY <3>1
    <2>2. Len(ms) \in Nat
      OBVIOUS
    <2> QED  BY <2>1, <2>2, NoneStale, AskedStale
  <1>2. ASSUME NEW s \in Seq(Asked), NoneIs("HELLO", s), NEW msg \in {"WATCH", "PEEKV"}
        PROVE  NoneIs("HELLO", Append(s, Request(msg)))
    <2> DEFINE r == Request(msg)
    <2>1. r.msg # "HELLO"
      BY DEF Request
    <2> HIDE DEF r
    <2>2. \A i \in 1..Len(Append(s, r)) :
             (i \in 1..Len(s) /\ Append(s, r)[i] = s[i]) \/ Append(s, r)[i] = r
      OBVIOUS
    <2>3. NoneIs("HELLO", Append(s, r))
      BY <1>2, <2>1, <2>2 DEF NoneIs
    <2> QED  BY <2>3 DEF r
  <1>3. ms # <<>> => NoneIs("HELLO", Tail(ms))
    <2>1. ASSUME ms # <<>>, NEW i \in 1..Len(Tail(ms))
          PROVE  Tail(ms)[i] = ms[i + 1] /\ i + 1 \in 1..Len(ms)
      BY <2>1
    <2> QED  BY <2>1 DEF NoneIs
  <1> QED  BY <1>1, <1>2, <1>3

\* What was answered stays so when nobody waits for it any more.
LEMMA StaleAnswers ==
  ASSUME NEW m \in Seq(Answers)
  PROVE  /\ Len(Stale(m)) = Len(m) /\ Len(m) \in Nat
         /\ \A i \in 1..Len(m) : /\ Stale(m)[i].msg = m[i].msg
                                 /\ Stale(m)[i].events = m[i].events
                                 /\ Stale(m)[i].dropped = m[i].dropped
  <1> DEFINE g(i) == [m[i] EXCEPT !.stale = TRUE, !.sample = 0]
  <1>1. ASSUME NEW i \in 1..Len(m)
        PROVE  g(i).msg = m[i].msg /\ g(i).events = m[i].events /\ g(i).dropped = m[i].dropped
    <2>1. m[i] \in Answers
      BY AnswerIs
    <2> QED  BY <2>1 DEF Answers
  <1>2. Stale(m) = [i \in 1..Len(m) |-> g(i)] /\ Len(m) \in Nat
    BY DEF Stale
  <1> HIDE DEF g
  <1> QED  BY <1>1, <1>2

LEMMA PathStale ==
  ASSUME NEW m \in Seq(Answers)
  PROVE  /\ NoneIs("HELLO_ACK", m) => NoneIs("HELLO_ACK", Stale(m))
         /\ \A ag, lk : Unwatched(ag, lk, m) => Unwatched(ag, lk, Stale(m))
         /\ \A lk : AcksFirst(lk, m) => AcksFirst(lk, Stale(m))
         /\ \A o, q, lk, ag, b : Balance(o, q, lk, m, ag, b) => Balance(o, q, lk, Stale(m), ag, b)
  <1>1. /\ Len(Stale(m)) = Len(m) /\ Len(m) \in Nat
        /\ \A i \in 1..Len(m) : /\ Stale(m)[i].msg = m[i].msg
                                 /\ Stale(m)[i].events = m[i].events
                                 /\ Stale(m)[i].dropped = m[i].dropped
    BY StaleAnswers
  <1>2. NoneIs("HELLO_ACK", m) => NoneIs("HELLO_ACK", Stale(m))
    BY <1>1 DEF NoneIs
  <1>3. ASSUME NEW ag, NEW lk, Unwatched(ag, lk, m) PROVE Unwatched(ag, lk, Stale(m))
    BY <1>1, <1>3 DEF Unwatched, Eventless
  <1>4. ASSUME NEW lk, AcksFirst(lk, m) PROVE AcksFirst(lk, Stale(m))
    <2>1. ASSUME NEW k \in 1..Len(m), Stale(m)[k].msg = "WATCH_ACK"
          PROVE  lk.events = <<>> /\ lk.seen = 0 /\ \A i \in 1..k : Eventless(Stale(m)[i])
      <3>1. lk.events = <<>> /\ lk.seen = 0 /\ \A i \in 1..k : Eventless(m[i]) /\ i \in 1..Len(m)
        BY <1>1, <1>4, <2>1 DEF AcksFirst
      <3> QED  BY <1>1, <3>1 DEF Eventless
    <2> QED  BY <1>1, <2>1 DEF AcksFirst
  <1>5. ASSUME NEW o, NEW q, NEW lk, NEW ag, NEW b, Balance(o, q, lk, m, ag, b)
        PROVE  Balance(o, q, lk, Stale(m), ag, b)
    BY <1>5, BringStale DEF Balance
  <1> QED  BY <1>2, <1>3, <1>4, <1>5

\* The front of the path is taken by AP64.
LEMMA PathLess ==
  ASSUME NEW m \in Seq(Answers), m # <<>>, NEW lk, NEW lk2,
         lk2.events = lk.events \o Head(m).events, lk.events \in Seq(Nat),
         lk.seen = 0 /\ Head(m).dropped = 0 => lk2.seen = 0
  PROVE  /\ NoneIs("HELLO_ACK", m) => NoneIs("HELLO_ACK", Tail(m))
         /\ \A ag : Unwatched(ag, lk, m) => Unwatched(ag, lk2, Tail(m))
         /\ AcksFirst(lk, m) => AcksFirst(lk2, Tail(m))
  <1> DEFINE m2 == Tail(m)
             r == Head(m)
  <1>1. /\ Len(m2) = Len(m) - 1 /\ Len(m) \in Nat /\ r = m[1] /\ 1 \in 1..Len(m)
        /\ \A i \in 1..Len(m2) : m2[i] = m[i + 1] /\ i + 1 \in 1..Len(m)
    OBVIOUS
  <1>2. Eventless(r) /\ lk.events = <<>> => lk2.events = <<>>
    BY DEF Eventless
  <1> HIDE DEF m2, r
  <1>3. NoneIs("HELLO_ACK", m) => NoneIs("HELLO_ACK", m2)
    BY <1>1 DEF NoneIs
  <1>4. ASSUME NEW ag, Unwatched(ag, lk, m) PROVE Unwatched(ag, lk2, m2)
    BY <1>1, <1>2, <1>4 DEF Unwatched, Eventless, r
  <1>5. ASSUME AcksFirst(lk, m) PROVE AcksFirst(lk2, m2)
    <2>1. ASSUME NEW k \in 1..Len(m2), m2[k].msg = "WATCH_ACK"
          PROVE  lk2.events = <<>> /\ lk2.seen = 0 /\ \A i \in 1..k : Eventless(m2[i])
      <3>1. lk.events = <<>> /\ lk.seen = 0 /\ \A i \in 1..k + 1 : Eventless(m[i])
        BY <1>1, <1>5, <2>1 DEF AcksFirst
      <3>2. Eventless(r) /\ \A i \in 1..k : m2[i] = m[i + 1] /\ i + 1 \in 1..k + 1
        BY <1>1, <2>1, <3>1
      <3> QED  BY <1>2, <3>1, <3>2 DEF Eventless, r
    <2> QED  BY <2>1 DEF AcksFirst
  <1> QED  BY <1>3, <1>4, <1>5 DEF m2

\* The agent answers, with what it sends.
LEMMA PathMore ==
  ASSUME NEW m \in Seq(Answers), NEW r \in Answers, NEW lk, NEW ag, NEW ag2,
         r.msg # "HELLO_ACK", Unwatched(ag, lk, m), AcksFirst(lk, m),
         ~ag2.have => ~ag.have /\ ag2.queue = <<>> /\ ag2.dropped = 0,
         ~ag.have => Eventless(r), r.msg = "WATCH_ACK" => ~ag.have
  PROVE  /\ NoneIs("HELLO_ACK", m) => NoneIs("HELLO_ACK", Append(m, r))
         /\ Unwatched(ag2, lk, Append(m, r)) /\ AcksFirst(lk, Append(m, r))
  <1> DEFINE m2 == Append(m, r)
  <1>1. /\ Len(m2) = Len(m) + 1 /\ m2[Len(m) + 1] = r /\ Len(m) \in Nat
        /\ \A i \in 1..Len(m) : m2[i] = m[i]
        /\ \A i \in 1..Len(m2) : i \in 1..Len(m) \/ i = Len(m) + 1
    OBVIOUS
  <1> HIDE DEF m2
  <1>2. NoneIs("HELLO_ACK", m) => NoneIs("HELLO_ACK", m2)
    BY <1>1 DEF NoneIs
  <1>3. ~ag.have => \A i \in 1..Len(m2) : Eventless(m2[i])
    BY <1>1 DEF Unwatched
  <1>4. Unwatched(ag2, lk, m2)
    BY <1>3 DEF Unwatched
  <1>5. ASSUME NEW k \in 1..Len(m2), m2[k].msg = "WATCH_ACK"
        PROVE  lk.events = <<>> /\ lk.seen = 0 /\ \A i \in 1..k : Eventless(m2[i])
    <2>1. CASE k \in 1..Len(m)
      <3>1. lk.events = <<>> /\ lk.seen = 0 /\ \A i \in 1..k : Eventless(m[i]) /\ i \in 1..Len(m)
        BY <1>1, <1>5, <2>1 DEF AcksFirst
      <3> QED  BY <1>1, <3>1
    <2>2. CASE k = Len(m) + 1
      <3>1. ~ag.have /\ \A i \in 1..k : i \in 1..Len(m2)
        BY <1>1, <1>5, <2>2
      <3> QED  BY <1>3, <3>1 DEF Unwatched
    <2> QED  BY <1>1, <2>1, <2>2
  <1> QED  BY <1>2, <1>4, <1>5 DEF AcksFirst, m2

-----------------------------------------------------------------------------
LEMMA CountedLook ==
  ASSUME EventTypes, Counted, WatchTick
  PROVE  Counted'
  <1>1. /\ agent \in Agents /\ agent.queue \in Seq(Nat) /\ agent.dropped \in Nat
        /\ agent.have \in BOOLEAN
    BY DEF EventTypes, Agents
  <1>2. UNCHANGED <<toAgent, fromAgent, greeting, link, queue, resampled, lossless>>
    BY DEF WatchTick, wire, waiting, seen, Owed
  <1> DEFINE event == agent.have /\ watched # agent.last /\ watched # 0
             full == Len(agent.queue) = AgentQueue
             q2 == IF event THEN Pushed(agent.queue, watched, AgentQueue) ELSE agent.queue
             d2 == IF event /\ full THEN Least(agent.dropped + 1, MaxDropped) ELSE agent.dropped
  <1>3. agent' = [agent EXCEPT !.have = TRUE, !.last = watched, !.queue = q2, !.dropped = d2]
    BY Zenon DEF WatchTick
  <1>4. agent'.have = TRUE /\ agent'.queue = q2 /\ agent'.dropped = d2
    <2> HIDE DEF q2, d2
    <2> QED  BY <1>1, <1>3 DEF Agents
  <1>5. owed' = IF lossless THEN owed + (IF event THEN 1 ELSE 0) ELSE 0
    BY Zenon DEF WatchTick, Owed
  <1>6. owed' \in Int
    BY <1>5 DEF Counted
  <1>7. ASSUME lossless PROVE Balance(owed', queue, link, fromAgent, agent', resampled)
    <2>1. Balance(owed, queue, link, fromAgent, agent, resampled)
      BY <1>7 DEF Counted
    <2>2. PICK n \in Int : /\ Bring(fromAgent, n)
                              /\ Agree(owed, Len(queue), n, agent, link, resampled)
      BY <2>1 DEF Balance
    <2>3. CASE ~event
      <3>1. agent'.queue = agent.queue /\ agent'.dropped = agent.dropped /\ owed' = owed
        BY <1>4, <1>5, <1>7, <2>3 DEF Counted
      <3>2. Agree(owed', Len(queue), n, agent', link, resampled)
        BY <2>2, <3>1 DEF Agree
      <3> QED  BY <2>2, <3>2 DEF Balance
    <2>4. CASE event
      <3> DEFINE c == Len(agent.queue)
      <3>1. c \in Nat /\ owed' = owed + 1
        BY <1>1, <1>5, <1>7, <2>4
      <3>2. CASE full
        <4>1. Len(q2) = c
          <5>1. agent.queue # <<>>
            <6>1. c = AgentQueue
              BY <3>2
            <6>2. AgentQueue # 0
              BY QueuesAssumption
            <6> QED  BY <1>1, <6>1, <6>2
          <5>2. Tail(agent.queue) \in Seq(Nat) /\ Len(Tail(agent.queue)) = c - 1
            BY <1>1, <5>1
          <5>3. q2 = Append(Tail(agent.queue), watched)
            BY <2>4, <3>2, Zenon DEF Pushed
          <5>4. watched \in Nat
            BY DEF EventTypes
          <5> QED  BY <3>1, <5>2, <5>3, <5>4
        <4>2. d2 = Least(agent.dropped + 1, MaxDropped)
          BY <2>4, <3>2
        <4>3. d2 < MaxDropped => d2 = agent.dropped + 1 /\ agent.dropped < MaxDropped
          <5> HIDE DEF d2
          <5>1. MaxDropped \in Nat
            BY QueuesAssumption
          <5> QED  BY <1>1, <4>2, <5>1 DEF Least
        <4> HIDE DEF q2, d2, event, full
        <4>4. Agree(owed', Len(queue), n, agent', link, resampled)
          <5>1. Len(queue) \in Nat /\ Len(link.events) \in Nat /\ link.new \in Nat /\ link.seen \in Nat
            BY DEF EventTypes, Trailers
          <5>2. owed \in Int
            BY DEF Counted
          <5>3. agent'.queue = q2 /\ agent'.dropped = d2
            BY <1>4
          <5>4. resampled \/ ~(d2 < MaxDropped)
                  \/ owed = Len(queue) + Len(link.events) + n + c + link.new + (agent.dropped - link.seen)
            BY <2>2, <4>3 DEF Agree
          <5> HIDE DEF c
          <5> SUFFICES ASSUME ~resampled, agent'.dropped < MaxDropped
                       PROVE  owed' = Len(queue) + Len(link.events) + n + Len(agent'.queue) + link.new
                                        + (agent'.dropped - link.seen)
            BY DEF Agree
          <5>5. owed = Len(queue) + Len(link.events) + n + c + link.new + (agent.dropped - link.seen)
            BY <5>3, <5>4
          <5>6. Len(agent'.queue) = c /\ agent'.dropped = agent.dropped + 1
            BY <4>1, <4>3, <5>3
          <5>7. /\ owed + 1 = Len(queue) + Len(link.events) + n + c + link.new
                                + ((agent.dropped + 1) - link.seen)
                /\ owed + 1 = Len(queue) + Len(link.events) + n + (c + 1) + link.new
                                + (agent.dropped - link.seen)
            <6>1. /\ Len(queue) \in Int /\ Len(link.events) \in Int /\ c \in Int
                  /\ link.new \in Int /\ agent.dropped \in Int /\ link.seen \in Int
              BY <1>1, <3>1, <5>1
            <6> DEFINE A == Len(queue)
                       B == Len(link.events)
                       D == link.new
                       E == agent.dropped
                       F == link.seen
            <6>2. A \in Int /\ B \in Int /\ c \in Int /\ D \in Int /\ E \in Int /\ F \in Int /\ n \in Int
              BY <6>1
            <6>3. owed = A + B + n + c + D + (E - F)
              BY <5>5
            <6> HIDE DEF A, B, D, E, F
            <6>4. /\ owed + 1 = A + B + n + c + D + ((E + 1) - F)
                  /\ owed + 1 = A + B + n + (c + 1) + D + (E - F)
              BY <5>2, <6>2, <6>3
            <6> QED  BY <6>4 DEF A, B, D, E, F
          <5> QED  BY <3>1, <5>6, <5>7
        <4> QED  BY <2>2, <4>4 DEF Balance
      <3>3. CASE ~full
        <4>1. Len(q2) = c + 1 /\ d2 = agent.dropped
          <5>1. q2 = Append(agent.queue, watched)
            BY <2>4, <3>3, Zenon DEF Pushed
          <5> QED  BY <1>1, <2>4, <3>1, <3>3, <5>1
        <4> HIDE DEF q2, d2, event, full
        <4>2. Agree(owed', Len(queue), n, agent', link, resampled)
          <5>1. Len(queue) \in Nat /\ Len(link.events) \in Nat /\ link.new \in Nat /\ link.seen \in Nat
            BY DEF EventTypes, Trailers
          <5>2. owed \in Int
            BY DEF Counted
          <5>3. agent'.queue = q2 /\ agent'.dropped = d2
            BY <1>4
          <5>4. resampled \/ ~(d2 < MaxDropped)
                  \/ owed = Len(queue) + Len(link.events) + n + c + link.new + (agent.dropped - link.seen)
            BY <2>2, <4>1 DEF Agree
          <5> HIDE DEF c
          <5> SUFFICES ASSUME ~resampled, agent'.dropped < MaxDropped
                       PROVE  owed' = Len(queue) + Len(link.events) + n + Len(agent'.queue) + link.new
                                        + (agent'.dropped - link.seen)
            BY DEF Agree
          <5>5. owed = Len(queue) + Len(link.events) + n + c + link.new + (agent.dropped - link.seen)
            BY <5>3, <5>4
          <5>6. Len(agent'.queue) = c + 1 /\ agent'.dropped = agent.dropped
            BY <4>1, <5>3
          <5>7. /\ owed + 1 = Len(queue) + Len(link.events) + n + c + link.new
                                + ((agent.dropped + 1) - link.seen)
                /\ owed + 1 = Len(queue) + Len(link.events) + n + (c + 1) + link.new
                                + (agent.dropped - link.seen)
            <6>1. /\ Len(queue) \in Int /\ Len(link.events) \in Int /\ c \in Int
                  /\ link.new \in Int /\ agent.dropped \in Int /\ link.seen \in Int
              BY <1>1, <3>1, <5>1
            <6> DEFINE A == Len(queue)
                       B == Len(link.events)
                       D == link.new
                       E == agent.dropped
                       F == link.seen
            <6>2. A \in Int /\ B \in Int /\ c \in Int /\ D \in Int /\ E \in Int /\ F \in Int /\ n \in Int
              BY <6>1
            <6>3. owed = A + B + n + c + D + (E - F)
              BY <5>5
            <6> HIDE DEF A, B, D, E, F
            <6>4. /\ owed + 1 = A + B + n + c + D + ((E + 1) - F)
                  /\ owed + 1 = A + B + n + (c + 1) + D + (E - F)
              BY <5>2, <6>2, <6>3
            <6> QED  BY <6>4 DEF A, B, D, E, F
          <5> QED  BY <3>1, <5>6, <5>7
        <4> QED  BY <2>2, <4>2 DEF Balance
      <3> QED  BY <3>2, <3>3
    <2> QED  BY <2>3, <2>4
  <1>8. Unwatched(agent', link, fromAgent)
    BY <1>4 DEF Unwatched
  <1> QED  BY <1>2, <1>6, <1>7, <1>8 DEF Counted

\* The agent answers: what it held goes out or stays.
LEMMA CountedAnswer ==
  ASSUME EventTypes, Counted, lossless, toAgent # <<>>,
         NEW msg \in {"WATCH_ACK", "PEEKV_RESP"}, NEW q \in Seq(Nat), NEW d \in Nat,
         Respond(msg, q, d), UNCHANGED <<waiting, seen>>, owed' = owed,
         agent'.queue \in Seq(Nat), Len(q) + Len(agent'.queue) = Len(agent.queue),
         agent'.dropped = agent.dropped,
         ~agent'.have => ~agent.have,
         ~agent.have => d = 0, msg = "WATCH_ACK" => ~agent.have
  PROVE  Counted'
  <1>1. UNCHANGED <<greeting, link, queue, resampled>>
    BY DEF waiting, seen
  <1>2. /\ toAgent \in Seq(Asked) /\ fromAgent \in Seq(Answers) /\ agent.queue \in Seq(Nat)
        /\ agent.dropped \in Nat
    BY DEF EventTypes, Agents
  <1>3. /\ NoneIs("HELLO", toAgent) /\ NoneIs("HELLO_ACK", fromAgent) /\ ~greeting
        /\ Unwatched(agent, link, fromAgent) /\ AcksFirst(link, fromAgent)
        /\ Balance(owed, queue, link, fromAgent, agent, resampled) /\ owed \in Int
    BY DEF Counted
  <1>4. NoneIs("HELLO", toAgent')
    BY <1>2, <1>3, NoHello DEF Respond
  <1> DEFINE r == [msg |-> msg, stale |-> Head(toAgent).stale, events |-> q, dropped |-> d,
                   sample |-> Head(toAgent).sample * watched]
  <1>5. r \in Answers /\ r.msg = msg /\ r.events = q /\ r.dropped = d
    <2>1. Head(toAgent) \in Asked
      BY <1>2
    <2>2. Head(toAgent).stale \in BOOLEAN /\ Head(toAgent).sample \in {0, 1} /\ watched \in Nat
      BY <2>1 DEF Asked, EventTypes
    <2>3. Head(toAgent).sample * watched \in Nat
      BY <2>2
    <2> QED  BY <2>2, <2>3 DEF Answers
  <1>6. fromAgent' = Append(fromAgent, r)
    BY DEF Respond
  <1> HIDE DEF r
  <1>7. ~agent.have => Eventless(r) /\ agent'.queue = <<>> /\ agent'.dropped = 0
    <2>1. ASSUME ~agent.have PROVE q = <<>> /\ agent'.queue = <<>> /\ agent'.dropped = 0 /\ d = 0
      <3>1. agent.queue = <<>> /\ agent.dropped = 0
        BY <1>3, <2>1 DEF Unwatched
      <3>2. Len(q) = 0 /\ Len(agent'.queue) = 0
        BY <3>1
      <3> QED  BY <2>1, <3>1, <3>2
    <2> QED  BY <1>5, <2>1 DEF Eventless
  <1>8. /\ NoneIs("HELLO_ACK", fromAgent') /\ Unwatched(agent', link, fromAgent')
        /\ AcksFirst(link, fromAgent')
    <2>1. r.msg # "HELLO_ACK" /\ (r.msg = "WATCH_ACK" => ~agent.have)
      BY <1>5
    <2>2. ~agent'.have => ~agent.have /\ agent'.queue = <<>> /\ agent'.dropped = 0
      BY <1>7
    <2> QED  BY <1>2, <1>3, <1>5, <1>6, <1>7, <2>1, <2>2, PathMore
  <1>9. Balance(owed, queue, link, fromAgent', agent', resampled)
    <2>1. PICK n \in Int : /\ Bring(fromAgent, n)
                              /\ Agree(owed, Len(queue), n, agent, link, resampled)
      BY <1>3 DEF Balance
    <2>2. Bring(fromAgent', n + Len(q)) /\ Len(q) \in Nat
      <3>1. Bring(Append(fromAgent, r), n + Len(r.events))
        BY <1>2, <1>5, <2>1, BringMore, Zenon
      <3> QED  BY <1>5, <1>6, <3>1
    <2>3. Len(queue) \in Nat /\ Len(link.events) \in Nat /\ link.new \in Nat /\ link.seen \in Nat
      BY DEF EventTypes, Trailers
    <2>4. n + Len(q) \in Int /\ Len(agent'.queue) \in Nat /\ Len(agent.queue) \in Nat
      BY <1>2, <2>2
    <2>5. Agree(owed, Len(queue), n + Len(q), agent', link, resampled)
      <3>1. owed \in Int
        BY <1>3
      <3>2. resampled \/ ~(agent.dropped < MaxDropped)
              \/ owed = Len(queue) + Len(link.events) + n + Len(agent.queue) + link.new
                           + (agent.dropped - link.seen)
        BY <2>1 DEF Agree
      <3> SUFFICES ASSUME ~resampled, agent'.dropped < MaxDropped
                   PROVE  owed = Len(queue) + Len(link.events) + (n + Len(q)) + Len(agent'.queue)
                                   + link.new + (agent'.dropped - link.seen)
        BY DEF Agree
      <3>3. owed = Len(queue) + Len(link.events) + n + Len(agent.queue) + link.new
                           + (agent.dropped - link.seen)
        BY <3>2
      <3>4. Len(q) + Len(agent'.queue) = Len(agent.queue) /\ agent'.dropped = agent.dropped
        OBVIOUS
      <3>5. /\ Len(queue) \in Int /\ Len(link.events) \in Int /\ Len(agent.queue) \in Int
            /\ link.new \in Int /\ agent.dropped \in Int /\ link.seen \in Int
            /\ Len(q) \in Int /\ Len(agent'.queue) \in Int
        BY <1>2, <2>2, <2>3, <2>4
      <3>6. owed = Len(queue) + Len(link.events) + (n + Len(q)) + Len(agent'.queue) + link.new
                     + (agent.dropped - link.seen)
        <4> DEFINE A == Len(queue)
                   B == Len(link.events)
                   C == Len(agent.queue)
                   D == link.new
                   E == agent.dropped
                   F == link.seen
                   K == Len(q)
                   L == Len(agent'.queue)
        <4>1. A \in Int /\ B \in Int /\ C \in Int /\ D \in Int /\ E \in Int /\ F \in Int
              /\ K \in Int /\ L \in Int /\ n \in Int
          BY <3>5
        <4>2. owed = A + B + n + C + D + (E - F) /\ K + L = C
          BY <3>3, <3>4
        <4> HIDE DEF A, B, C, D, E, F, K, L
        <4>3. owed = A + B + (n + K) + L + D + (E - F)
          BY <3>1, <4>1, <4>2
        <4> QED  BY <3>4, <4>3 DEF A, B, D, E, F, K, L
      <3> QED  BY <3>4, <3>6
    <2> QED  BY <2>2, <2>4, <2>5 DEF Balance
  <1> QED  BY <1>1, <1>3, <1>4, <1>8, <1>9 DEF Counted

LEMMA CountedConsole ==
  ASSUME EventTypes, Counted, HandleHello \/ HandleWatch \/ HandlePeek
  PROVE  Counted'
  <1>1. CASE HandleHello
    <2>1. toAgent # <<>> /\ Head(toAgent).msg = "HELLO" /\ UNCHANGED <<lossless, owed>>
      BY <1>1 DEF HandleHello, counts
    <2>2. ~NoneIs("HELLO", toAgent)
      <3>1. 1 \in 1..Len(toAgent) /\ Head(toAgent) = toAgent[1]
        BY <2>1 DEF EventTypes
      <3> QED  BY <2>1, <3>1 DEF NoneIs
    <2> QED  BY <2>1, <2>2 DEF Counted
  <1>2. CASE HandleWatch
    <2>1. /\ toAgent # <<>> /\ agent' = [NoWatch EXCEPT !.watching = TRUE]
          /\ lossless' = (lossless /\ ~agent.have)
          /\ owed' = (IF agent.have THEN 0 ELSE owed)
          /\ Respond("WATCH_ACK", <<>>, 0) /\ UNCHANGED <<waiting, seen>>
      BY <1>2 DEF HandleWatch
    <2>2. CASE ~lossless'
      <3>1. owed' \in Int
        BY <2>1 DEF Counted
      <3> QED  BY <2>2, <3>1 DEF Counted
    <2>3. CASE lossless'
      <3>1. lossless /\ ~agent.have /\ owed' = owed
        BY <2>1, <2>3
      <3>2. agent'.queue = <<>> /\ agent'.dropped = 0 /\ <<>> \in Seq(Nat) /\ 0 \in Nat
        BY <2>1 DEF NoWatch
      <3>3. agent.queue = <<>> /\ agent.dropped = 0
        BY <3>1 DEF Counted, Unwatched
      <3>4. agent'.queue \in Seq(Nat) /\ Len(<<>>) + Len(agent'.queue) = Len(agent.queue)
        BY <3>2, <3>3
      <3> QED  BY <2>1, <3>1, <3>2, <3>3, <3>4, CountedAnswer
    <2> QED  BY <2>2, <2>3
  <1>3. CASE HandlePeek
    <2>1. toAgent # <<>> /\ UNCHANGED <<waiting, seen, lossless, owed>>
      BY <1>3 DEF HandlePeek, counts
    <2>2. CASE ~lossless
      BY <2>1, <2>2 DEF Counted
    <2>3. CASE lossless
      <3>1. /\ agent \in Agents /\ agent.queue \in Seq(Nat) /\ agent.dropped \in Nat
            /\ <<>> \in Seq(Nat) /\ 0 \in Nat
        BY DEF EventTypes, Agents
      <3>2. CASE Respond("PEEKV_RESP", <<>>, 0) /\ UNCHANGED agent
        <4>1. agent'.queue \in Seq(Nat) /\ Len(<<>>) + Len(agent'.queue) = Len(agent.queue)
          BY <3>1, <3>2
        <4> QED  BY <2>1, <2>3, <3>1, <3>2, <4>1, CountedAnswer
      <3>3. ASSUME NEW n \in 0..Len(agent.queue),
                   Respond("PEEKV_RESP", SubSeq(agent.queue, 1, n), agent.dropped),
                   agent' = [agent EXCEPT !.queue = SubSeq(@, n + 1, Len(@))]
            PROVE  Counted'
        <4> DEFINE a == SubSeq(agent.queue, 1, n)
                   b == SubSeq(agent.queue, n + 1, Len(agent.queue))
        <4>1. a \in Seq(Nat) /\ b \in Seq(Nat) /\ Len(a) + Len(b) = Len(agent.queue)
          <5> DEFINE s == agent.queue
          <5>1. s \in Seq(Nat) /\ n \in 0..Len(s)
            BY <3>1
          <5> HIDE DEF s
          <5>2. /\ SubSeq(s, 1, n) \in Seq(Nat) /\ Len(SubSeq(s, 1, n)) = n
                /\ SubSeq(s, n + 1, Len(s)) \in Seq(Nat)
                /\ Len(SubSeq(s, n + 1, Len(s))) = Len(s) - n /\ Len(s) \in Nat /\ n \in Nat
            BY <5>1
          <5>3. Len(SubSeq(s, 1, n)) + Len(SubSeq(s, n + 1, Len(s))) = Len(s)
            <6> DEFINE x == Len(SubSeq(s, 1, n))
                       y == Len(SubSeq(s, n + 1, Len(s)))
                       l == Len(s)
            <6>1. x = n /\ y = l - n /\ l \in Nat /\ n \in Nat
              BY <5>2
            <6> HIDE DEF x, y, l
            <6>2. x + y = l
              BY <6>1
            <6> QED  BY <6>2 DEF x, y, l
          <5> QED  BY <5>2, <5>3 DEF s
        <4>2. Respond("PEEKV_RESP", a, agent.dropped) /\ agent' = [agent EXCEPT !.queue = b]
          BY <3>3
        <4> HIDE DEF a, b
        <4>3. agent'.queue = b /\ agent'.dropped = agent.dropped /\ agent'.have = agent.have
          BY <3>1, <4>2 DEF Agents
        <4>4. ~agent.have => agent.dropped = 0
          BY <2>3 DEF Counted, Unwatched
        <4> QED  BY <2>1, <2>3, <3>1, <4>1, <4>2, <4>3, <4>4, CountedAnswer
      <3> QED  BY <1>3, <3>2, <3>3 DEF HandlePeek
    <2> QED  BY <2>2, <2>3
  <1> QED  BY <1>1, <1>2, <1>3

LEMMA CountedAsk ==
  ASSUME EventTypes, Counted,
         Read \/ Alive \/ SampleWatch \/ QuickCopy \/ Resend \/ Reconnect \/ GiveUp
  PROVE  Counted'
  <1>1. toAgent \in Seq(Asked) /\ fromAgent \in Seq(Answers)
    BY DEF EventTypes
  <1>2. ASSUME UNCHANGED <<console, seen, counts>>, fromAgent' \in {fromAgent, Stale(fromAgent)},
               greeting' \in {greeting, FALSE}, 
               NoneIs("HELLO", toAgent) => NoneIs("HELLO", toAgent')
        PROVE  Counted'
    <2>1. UNCHANGED <<agent, link, queue, resampled, lossless, owed>>
      BY <1>2 DEF console, seen, counts
    <2>2. ASSUME lossless
          PROVE  /\ NoneIs("HELLO_ACK", fromAgent') /\ Unwatched(agent, link, fromAgent')
                 /\ AcksFirst(link, fromAgent')
                 /\ Balance(owed, queue, link, fromAgent', agent, resampled)
      <3>1. /\ NoneIs("HELLO_ACK", fromAgent) /\ Unwatched(agent, link, fromAgent)
            /\ AcksFirst(link, fromAgent)
            /\ Balance(owed, queue, link, fromAgent, agent, resampled)
        BY <2>2 DEF Counted
      <3> QED  BY <1>1, <1>2, <3>1, PathStale
    <2>3. owed' \in Int
      BY <2>1 DEF Counted
    <2>4. ASSUME lossless PROVE ~greeting' /\ NoneIs("HELLO", toAgent')
      <3>1. ~greeting /\ NoneIs("HELLO", toAgent)
        BY <2>4 DEF Counted
      <3>2. greeting' = greeting \/ greeting' = FALSE
        BY <1>2
      <3>3. ~greeting'
        BY <3>1, <3>2
      <3> QED  BY <1>2, <3>1, <3>3
    <2> QED  BY <2>1, <2>2, <2>3, <2>4 DEF Counted
  <1>3. ASSUME NEW what, NEW msg \in {"WATCH", "PEEKV"}, AskAgent(what, msg)
        PROVE  /\ fromAgent' = Stale(fromAgent) /\ greeting' = FALSE
               /\ NoneIs("HELLO", toAgent) => NoneIs("HELLO", toAgent')
    BY <1>1, <1>3, NoHello DEF AskAgent, SendRequest
  <1>4. CASE Read
    BY <1>2, <1>3, <1>4 DEF Read
  <1>5. CASE Alive
    BY <1>2, <1>3, <1>5 DEF Alive
  <1>6. CASE SampleWatch
    BY <1>2, <1>3, <1>6 DEF SampleWatch
  <1>7. CASE QuickCopy
    BY <1>1, <1>2, <1>7, NoHello DEF QuickCopy
  <1>8. CASE Resend
    BY <1>2, <1>3, <1>8 DEF Resend
  <1>9. CASE Reconnect
    BY <1>9 DEF Reconnect, Trouble, Counted
  <1>10. CASE GiveUp
    <2>1. CASE asking = "watch"
      BY <1>2, <1>3, <1>10, <2>1 DEF GiveUp
    <2>2. CASE asking # "watch"
      BY <1>1, <1>2, <1>10, <2>2, NoHello DEF GiveUp
    <2> QED  BY <2>1, <2>2
  <1> QED  BY <1>4, <1>5, <1>6, <1>7, <1>8, <1>9, <1>10

\* A trailer that is kept adds to the events that AP64 holds, and moves what
\* the agent dropped from what AP64 has not heard of to what it has.
LEMMA TrailerCounts ==
  ASSUME NEW t \in Trailers, NEW r \in Answers
  PROVE  /\ KeepTrailer(t, r) \in Trailers
         /\ KeepTrailer(t, r).events = t.events \o r.events
         /\ t.events \in Seq(Nat) /\ r.events \in Seq(Nat)
         /\ Len(t.events \o r.events) = Len(t.events) + Len(r.events)
         /\ KeepTrailer(t, r).new - KeepTrailer(t, r).seen = t.new - t.seen
         /\ t.seen = 0 /\ r.dropped = 0 => KeepTrailer(t, r).seen = 0
  <1>1. /\ KeepTrailer(t, r) \in Trailers
        /\ KeepTrailer(t, r).events = t.events \o r.events
        /\ t.events \in Seq(Nat) /\ r.events \in Seq(Nat)
    BY TrailerIs
  <1>2. t.seen \in Nat /\ t.new \in Nat /\ r.dropped \in Nat
    BY DEF Trailers, Answers
  <1>3. /\ KeepTrailer(t, r).seen = IF r.dropped > t.seen THEN r.dropped ELSE t.seen
        /\ KeepTrailer(t, r).new =
             t.new + (IF r.dropped > t.seen THEN r.dropped - t.seen ELSE 0)
    BY DEF KeepTrailer
  <1>4. Len(t.events \o r.events) = Len(t.events) + Len(r.events)
    BY <1>1
  <1>5. KeepTrailer(t, r).new - KeepTrailer(t, r).seen = t.new - t.seen
    BY <1>2, <1>3
  <1>6. t.seen = 0 /\ r.dropped = 0 => KeepTrailer(t, r).seen = 0
    BY <1>2, <1>3
  <1> QED  BY <1>1, <1>4, <1>5, <1>6

\* Taking the answer at the front of the path leaves the books square.
LEMMA BalanceKept ==
  ASSUME EventTypes, fromAgent # <<>>, NEW o \in Int,
         Balance(o, queue, link, fromAgent, agent, resampled)
  PROVE  Balance(o, queue, KeepTrailer(link, Head(fromAgent)), Tail(fromAgent), agent, resampled)
  <1> DEFINE r == Head(fromAgent)
             k == KeepTrailer(link, r)
  <1>1. /\ r \in Answers /\ link \in Trailers /\ fromAgent \in Seq(Answers)
        /\ agent.dropped \in Nat /\ agent.queue \in Seq(Nat) /\ queue \in Seq(Nat)
    BY DEF EventTypes, Agents
  <1>2. PICK n \in Int : Bring(fromAgent, n) /\ Agree(o, Len(queue), n, agent, link, resampled)
    BY DEF Balance
  <1>3. Bring(Tail(fromAgent), n - Len(r.events))
    BY <1>1, <1>2, BringLess
  <1>4. /\ k \in Trailers /\ k.events = link.events \o r.events
        /\ link.events \in Seq(Nat) /\ r.events \in Seq(Nat)
        /\ Len(link.events \o r.events) = Len(link.events) + Len(r.events)
        /\ k.new - k.seen = link.new - link.seen
    BY <1>1, TrailerCounts
  <1>5. /\ k.new \in Nat /\ k.seen \in Nat /\ link.new \in Nat /\ link.seen \in Nat
    BY <1>1, <1>4 DEF Trailers
  <1> HIDE DEF k, r
  <1> DEFINE A == Len(queue)
             B == Len(link.events)
             C == Len(agent.queue)
             D == link.new
             E == agent.dropped
             F == link.seen
             G == k.new
             H == k.seen
             K == Len(r.events)
             L == Len(k.events)
  <1>6. A \in Int /\ B \in Int /\ C \in Int /\ D \in Int /\ E \in Int /\ F \in Int
        /\ G \in Int /\ H \in Int /\ K \in Int /\ L \in Int /\ L = B + K /\ G - H = D - F
    <2>1. Len(link.events) \in Nat /\ Len(r.events) \in Nat
      BY <1>4
    <2> QED  BY <1>1, <1>4, <1>5, <2>1
  <1>7. n - K \in Int
    BY <1>6
  <1>8. Agree(o, A, n - K, agent, k, resampled)
    <2> SUFFICES ASSUME ~resampled, agent.dropped < MaxDropped
                 PROVE  o = A + L + (n - K) + C + G + (E - H)
      BY DEF Agree
    <2>1. o = A + B + n + C + D + (E - F)
      BY <1>2 DEF Agree
    <2> HIDE DEF A, B, C, D, E, F, G, H, K, L
    <2> QED  BY <1>6, <2>1
  <1>9. Balance(o, queue, k, Tail(fromAgent), agent, resampled)
    BY <1>3, <1>7, <1>8 DEF Balance
  <1> QED  BY <1>9 DEF k, r

\* The answer waited for: events are queued for the connector.
LEMMA CountedRead ==
  ASSUME EventTypes, Counted, lossless, fromAgent # <<>>,
         fromAgent' = Stale(Tail(fromAgent)),
         WasRead(Head(fromAgent)), UNCHANGED console
  PROVE  Counted'
  <1> DEFINE r == Head(fromAgent)
             kept == KeepTrailer(link, r)
             event == probing /\ sampled \notin {-1, r.sample} /\ r.sample # 0
             was == IF event THEN <<r.sample>> ELSE <<>>
             collects == asking # "sample" /\ onCart
             came == was \o (IF collects THEN kept.events ELSE <<>>)
  <1>1. /\ r \in Answers /\ link \in Trailers /\ fromAgent \in Seq(Answers)
        /\ toAgent \in Seq(Asked) /\ Tail(fromAgent) \in Seq(Answers)
        /\ agent.dropped \in Nat /\ agent.queue \in Seq(Nat) /\ queue \in Seq(Nat)
        /\ r.sample \in Nat
    <2>1. /\ r \in Answers /\ link \in Trailers /\ fromAgent \in Seq(Answers)
          /\ toAgent \in Seq(Asked) /\ Tail(fromAgent) \in Seq(Answers)
          /\ agent \in Agents /\ queue \in Seq(Nat)
      BY DEF EventTypes
    <2> QED  BY <2>1 DEF Agents, Answers
  <1>2. /\ resampled' = (resampled \/ event)
        /\ queue' = PushedAll(queue, came, HostQueue)
        /\ owed' = owed + (-DroppedBy(queue, came, HostQueue) - (IF collects THEN kept.new ELSE 0))
        /\ link' = (IF collects THEN [kept EXCEPT !.events = <<>>, !.new = 0] ELSE kept)
        /\ toAgent' = Stale(toAgent)
        /\ UNCHANGED <<greeting, agent, lossless>>
    <2>1. /\ resampled' = (resampled \/ event)
          /\ queue' = PushedAll(queue, came, HostQueue)
          /\ Owed(-DroppedBy(queue, came, HostQueue) - (IF collects THEN kept.new ELSE 0))
          /\ link' = (IF collects THEN [kept EXCEPT !.events = <<>>, !.new = 0] ELSE kept)
          /\ toAgent' = Stale(toAgent) /\ UNCHANGED greeting
      BY Zenon DEF WasRead
    <2> QED  BY <2>1 DEF Owed, console
  <1>3. /\ ~greeting /\ NoneIs("HELLO", toAgent) /\ NoneIs("HELLO_ACK", fromAgent)
        /\ Unwatched(agent, link, fromAgent) /\ AcksFirst(link, fromAgent)
        /\ Balance(owed, queue, link, fromAgent, agent, resampled) /\ owed \in Int
    BY DEF Counted
  <1>4. /\ kept \in Trailers /\ kept.events = link.events \o r.events
        /\ link.events \in Seq(Nat)
        /\ (link.seen = 0 /\ r.dropped = 0 => kept.seen = 0)
    BY <1>1, TrailerCounts
  <1>5. kept.events \in Seq(Nat) /\ kept.new \in Nat /\ kept.seen \in Nat
    BY <1>4 DEF Trailers
  <1>6. Balance(owed, queue, kept, Tail(fromAgent), agent, resampled)
    BY <1>3, BalanceKept
  <1>7. /\ NoneIs("HELLO_ACK", Tail(fromAgent)) /\ Unwatched(agent, kept, Tail(fromAgent))
        /\ AcksFirst(kept, Tail(fromAgent))
    BY <1>1, <1>3, <1>4, PathLess
  <1>8. /\ link'.seen = kept.seen
        /\ link'.events = (IF collects THEN <<>> ELSE kept.events)
        /\ link'.new = (IF collects THEN 0 ELSE kept.new)
    <2> HIDE DEF kept
    <2>1. CASE collects
      <3>1. link' = [kept EXCEPT !.events = <<>>, !.new = 0]
        BY <1>2, <2>1
      <3> QED  BY <1>4, <2>1, <3>1 DEF Trailers
    <2>2. CASE ~collects
      BY <1>2, <2>2
    <2> QED  BY <2>1, <2>2
  <1>9. came \in Seq(Nat) /\ (~event => Len(came) = IF collects THEN Len(kept.events) ELSE 0)
    <2> DEFINE held == IF collects THEN kept.events ELSE <<>>
    <2>1. held \in Seq(Nat) /\ Len(held) = IF collects THEN Len(kept.events) ELSE 0
      <3> HIDE DEF kept, collects
      <3> QED  BY <1>5
    <2>2. was \in Seq(Nat) /\ (~event => was = <<>>)
      <3>1. <<r.sample>> \in Seq(Nat) /\ <<>> \in Seq(Nat)
        BY <1>1
      <3> QED  BY <3>1
    <2> HIDE DEF held, was
    <2>3. was \o held \in Seq(Nat) /\ (~event => was \o held = held)
      BY <2>1, <2>2
    <2> QED  BY <2>1, <2>3 DEF held
  <1>10. queue' \in Seq(Nat)
    <2>1. came \in Seq(Nat) /\ queue \in Seq(Nat) /\ HostQueue \in Nat
      BY <1>1, <1>9, QueuesAssumption
    <2> HIDE DEF came
    <2> DEFINE all == queue \o came
               from == IF Len(all) > HostQueue THEN Len(all) - HostQueue + 1 ELSE 1
    <2>2. all \in Seq(Nat) /\ Len(all) \in Nat
      BY <2>1
    <2>3. from \in 1..Len(all) + 1
      BY <2>1, <2>2
    <2>4. queue' = SubSeq(all, from, Len(all))
      BY <1>2 DEF PushedAll
    <2> HIDE DEF all, from
    <2> QED  BY <2>2, <2>3, <2>4
  <1>11. owed' = owed + (Len(queue') - Len(queue) - Len(came)) - (IF collects THEN kept.new ELSE 0)
         /\ owed' \in Int
    <2> DEFINE a == Len(queue)
               b == Len(came)
               c == Len(queue')
               d == IF collects THEN kept.new ELSE 0
    <2>1. a \in Int /\ b \in Int /\ c \in Int /\ d \in Int /\ owed \in Int
      BY <1>1, <1>3, <1>5, <1>9, <1>10
    <2>2. owed' = owed + (-(a + b - c) - d)
      BY <1>2 DEF DroppedBy
    <2> HIDE DEF a, b, c, d
    <2>3. owed' = owed + (c - a - b) - d /\ owed' \in Int
      BY <2>1, <2>2
    <2> QED  BY <2>3 DEF a, b, c, d
  <1> HIDE DEF event, was, collects, came, kept
  <1>12. Balance(owed', queue', link', Tail(fromAgent), agent, resampled')
    <2>1. PICK n \in Int : /\ Bring(Tail(fromAgent), n)
                           /\ Agree(owed, Len(queue), n, agent, kept, resampled)
      BY <1>6 DEF Balance
    <2>2. Agree(owed', Len(queue'), n, agent, link', resampled')
      <3> SUFFICES ASSUME ~resampled', agent.dropped < MaxDropped
                   PROVE  owed' = Len(queue') + Len(link'.events) + n + Len(agent.queue) + link'.new
                                    + (agent.dropped - link'.seen)
        BY DEF Agree
      <3> DEFINE A == Len(queue)
                 B == Len(kept.events)
                 C == Len(agent.queue)
                 D == kept.new
                 E == agent.dropped
                 F == kept.seen
                 K == Len(queue')
                 L == Len(link'.events)
                 M == link'.new
                 J == Len(came)
      <3>1. A \in Int /\ B \in Int /\ C \in Int /\ D \in Int /\ E \in Int /\ F \in Int
            /\ K \in Int /\ n \in Int
        BY <1>1, <1>5, <1>10
      <3>2. owed = A + B + n + C + D + (E - F)
        BY <1>2, <2>1 DEF Agree
      <3>3. L = (IF collects THEN 0 ELSE B) /\ M = (IF collects THEN 0 ELSE D) /\ link'.seen = F
        BY <1>8
      <3>4. /\ J = (IF collects THEN B ELSE 0)
            /\ owed' = owed + (K - A - J) - (IF collects THEN D ELSE 0)
        BY <1>2, <1>9, <1>11
      <3>5. owed' = K + L + n + C + M + (E - F)
        <4> HIDE DEF A, B, C, D, E, F, K, L, M, J
        <4> QED  BY <1>3, <3>1, <3>2, <3>3, <3>4
      <3> QED  BY <3>3, <3>5
    <2> QED  BY <2>1, <2>2 DEF Balance
  <1>13. Unwatched(agent, link', Tail(fromAgent)) /\ AcksFirst(link', Tail(fromAgent))
    <2>1. kept.events = <<>> => link'.events = <<>>
      BY <1>8
    <2> QED  BY <1>7, <1>8, <2>1 DEF Unwatched, AcksFirst
  <1>14. /\ NoneIs("HELLO_ACK", fromAgent') /\ Unwatched(agent, link', fromAgent')
         /\ AcksFirst(link', fromAgent')
         /\ Balance(owed', queue', link', fromAgent', agent, resampled')
    BY <1>1, <1>7, <1>12, <1>13, PathStale
  <1>15. NoneIs("HELLO", toAgent')
    BY <1>1, <1>2, <1>3, NoHello
  <1> QED  BY <1>2, <1>3, <1>11, <1>14, <1>15 DEF Counted

LEMMA CountedArmed ==
  ASSUME EventTypes, Counted, lossless, fromAgent # <<>>,
         Head(fromAgent).msg = "WATCH_ACK", fromAgent' = Stale(Tail(fromAgent)),
         Armed, UNCHANGED console
  PROVE  Counted'
  <1> DEFINE r == Head(fromAgent)
             kept == KeepTrailer(link, r)
  <1>1. /\ r \in Answers /\ link \in Trailers /\ fromAgent \in Seq(Answers)
        /\ toAgent \in Seq(Asked) /\ Tail(fromAgent) \in Seq(Answers)
    BY DEF EventTypes
  <1>2. /\ ~greeting /\ NoneIs("HELLO", toAgent) /\ NoneIs("HELLO_ACK", fromAgent)
        /\ Unwatched(agent, link, fromAgent) /\ AcksFirst(link, fromAgent)
        /\ Balance(owed, queue, link, fromAgent, agent, resampled) /\ owed \in Int
    BY DEF Counted
  <1>3. /\ link' = [link EXCEPT !.events = <<>>, !.seen = 0]
        /\ toAgent' = Append(Stale(toAgent), Request("PEEKV"))
        /\ UNCHANGED <<greeting, queue, resampled, lossless, owed, agent>>
    BY DEF Armed, counts, console
  <1>4. link.events = <<>> /\ link.seen = 0 /\ Eventless(r)
    <2>1. 1 \in 1..Len(fromAgent) /\ r = fromAgent[1] /\ 1 \in 1..1
      BY <1>1
    <2> QED  BY <1>2, <2>1 DEF AcksFirst
  <1>5. /\ link'.events = <<>> /\ link'.seen = 0 /\ link'.new = link.new
    BY <1>1, <1>3 DEF Trailers
  <1>6. kept.events = <<>> /\ kept.seen = 0 /\ kept.new = link.new
    <2>1. kept.events = <<>>
      <3>1. kept.events = link.events \o r.events
        BY <1>1, TrailerCounts
      <3>2. link.events = <<>> /\ r.events = <<>>
        BY <1>4 DEF Eventless
      <3>3. <<>> \o <<>> = <<>>
        OBVIOUS
      <3> QED  BY <3>1, <3>2, <3>3
    <2>2. link.new \in Nat /\ link.seen \in Nat /\ r.dropped = 0
      BY <1>1, <1>4 DEF Trailers, Eventless
    <2>3. kept.seen = 0 /\ kept.new = link.new
      BY <1>4, <2>2 DEF KeepTrailer
    <2> QED  BY <2>1, <2>3
  <1>7. Balance(owed, queue, kept, Tail(fromAgent), agent, resampled)
    BY <1>2, BalanceKept
  <1>8. /\ NoneIs("HELLO_ACK", Tail(fromAgent)) /\ Unwatched(agent, kept, Tail(fromAgent))
        /\ AcksFirst(kept, Tail(fromAgent))
    <2>1. kept.events = link.events \o r.events /\ link.events \in Seq(Nat)
          /\ (link.seen = 0 /\ r.dropped = 0 => kept.seen = 0)
      BY <1>1, TrailerCounts
    <2> HIDE DEF kept
    <2> QED  BY <1>1, <1>2, <2>1, PathLess
  <1> HIDE DEF kept
  <1>9. /\ Unwatched(agent, link', Tail(fromAgent)) /\ AcksFirst(link', Tail(fromAgent))
        /\ Balance(owed, queue, link', Tail(fromAgent), agent, resampled)
    BY <1>5, <1>6, <1>7, <1>8 DEF Unwatched, AcksFirst, Balance, Agree
  <1>10. /\ NoneIs("HELLO_ACK", fromAgent') /\ Unwatched(agent, link', fromAgent')
         /\ AcksFirst(link', fromAgent')
         /\ Balance(owed, queue, link', fromAgent', agent, resampled)
    BY <1>1, <1>8, <1>9, PathStale
  <1>11. NoneIs("HELLO", toAgent')
    BY <1>1, <1>2, <1>3, NoHello
  <1> QED  BY <1>2, <1>3, <1>10, <1>11 DEF Counted

LEMMA CountedReceive ==
  ASSUME EventTypes, Counted, ReceiveReply
  PROVE  Counted'
  <1> DEFINE r == Head(fromAgent)
             awaited == ~r.stale /\ asking # "none"
  <1>1. fromAgent # <<>> /\ UNCHANGED console
    BY DEF ReceiveReply
  <1>2. /\ r \in Answers /\ r.msg \in {"HELLO_ACK", "WATCH_ACK", "PEEKV_RESP"}
        /\ fromAgent \in Seq(Answers) /\ Tail(fromAgent) \in Seq(Answers) /\ link \in Trailers
        /\ r = fromAgent[1] /\ 1 \in 1..Len(fromAgent)
    <2>1. /\ fromAgent \in Seq(Answers) /\ link \in Trailers
      BY DEF EventTypes
    <2>2. /\ r \in Answers /\ r = fromAgent[1] /\ 1 \in 1..Len(fromAgent)
          /\ Tail(fromAgent) \in Seq(Answers)
      BY <1>1, <2>1
    <2> QED  BY <2>1, <2>2 DEF Answers
  <1>3. CASE awaited
    <2>1. /\ fromAgent' = Stale(Tail(fromAgent))
          /\ (r.msg = "HELLO_ACK" => Greeted) /\ (r.msg = "WATCH_ACK" => Armed)
          /\ (r.msg = "PEEKV_RESP" => WasRead(r))
      BY <1>2, <1>3 DEF ReceiveReply
    <2>2. CASE r.msg = "HELLO_ACK"
      <3>1. ~lossless
        BY <1>2, <2>2 DEF Counted, NoneIs
      <3>2. UNCHANGED counts
        BY <2>1, <2>2 DEF Greeted
      <3> QED  BY <3>1, <3>2 DEF Counted, counts
    <2>3. CASE r.msg = "WATCH_ACK"
      <3>1. CASE lossless
        BY <1>1, <2>1, <2>3, <3>1, CountedArmed
      <3>2. CASE ~lossless
        <4>1. UNCHANGED counts
          BY <2>1, <2>3 DEF Armed
        <4> QED  BY <3>2, <4>1 DEF Counted, counts
      <3> QED  BY <3>1, <3>2
    <2>4. CASE r.msg = "PEEKV_RESP"
      <3>1. CASE lossless
        BY <1>1, <2>1, <2>4, <3>1, CountedRead
      <3>2. CASE ~lossless
        <4>1. lossless' = lossless /\ owed' = 0
          BY <2>1, <2>4, <3>2, Zenon DEF WasRead, Owed
        <4> QED  BY <3>2, <4>1 DEF Counted
      <3> QED  BY <3>1, <3>2
    <2> QED  BY <1>2, <2>2, <2>3, <2>4
  <1>4. CASE ~awaited
    <2>1. /\ fromAgent' = Tail(fromAgent)
          /\ IF greeting THEN fresh' = KeepTrailer(fresh, r) /\ UNCHANGED link
                         ELSE link' = KeepTrailer(link, r) /\ UNCHANGED fresh
          /\ UNCHANGED <<toAgent, waiting, onCart, armed, sampled, queue, shown,
                         resampled, counts>>
      BY <1>4, Zenon DEF ReceiveReply
    <2>2. UNCHANGED <<lossless, owed, greeting, agent, toAgent, queue, resampled>>
      BY <1>1, <2>1 DEF counts, waiting, console
    <2>3. CASE ~lossless
      BY <2>2, <2>3 DEF Counted
    <2>4. CASE lossless
      <3>1. /\ ~greeting /\ NoneIs("HELLO", toAgent) /\ NoneIs("HELLO_ACK", fromAgent)
            /\ Unwatched(agent, link, fromAgent) /\ AcksFirst(link, fromAgent)
            /\ Balance(owed, queue, link, fromAgent, agent, resampled) /\ owed \in Int
        BY <2>4 DEF Counted
      <3>2. link' = KeepTrailer(link, r)
        BY <2>1, <3>1
      <3>3. Balance(owed, queue, link', Tail(fromAgent), agent, resampled)
        BY <1>1, <3>1, <3>2, BalanceKept
      <3>4. /\ link'.events = link.events \o r.events /\ link.events \in Seq(Nat)
            /\ (link.seen = 0 /\ r.dropped = 0 => link'.seen = 0)
        BY <1>2, <3>2, TrailerCounts
      <3>5. /\ NoneIs("HELLO_ACK", Tail(fromAgent)) /\ Unwatched(agent, link', Tail(fromAgent))
            /\ AcksFirst(link', Tail(fromAgent))
        BY <1>1, <1>2, <3>1, <3>4, PathLess
      <3> QED  BY <2>1, <2>2, <3>1, <3>3, <3>5 DEF Counted
    <2> QED  BY <2>3, <2>4
  <1> QED  BY <1>3, <1>4

LEMMA CountedTake ==
  ASSUME EventTypes, Counted, TakeWatched
  PROVE  Counted'
  <1>1. /\ queue # <<>> /\ queue' = Tail(queue) /\ Owed(-1)
        /\ UNCHANGED <<agent, toAgent, fromAgent, greeting, link, resampled>>
    BY DEF TakeWatched, console, wire, waiting
  <1>2. lossless' = lossless /\ owed' = (IF lossless THEN owed - 1 ELSE 0) /\ owed \in Int
    BY <1>1 DEF Owed, Counted
  <1>3. ASSUME lossless PROVE Balance(owed', queue', link, fromAgent, agent, resampled)
    <2>1. PICK n \in Int : /\ Bring(fromAgent, n)
                           /\ Agree(owed, Len(queue), n, agent, link, resampled)
      BY <1>3 DEF Counted, Balance
    <2>2. Agree(owed', Len(queue'), n, agent, link, resampled)
      <3> SUFFICES ASSUME ~resampled, agent.dropped < MaxDropped
                   PROVE  owed' = Len(queue') + Len(link.events) + n + Len(agent.queue) + link.new
                                    + (agent.dropped - link.seen)
        BY DEF Agree
      <3> DEFINE A == Len(queue)
                 B == Len(link.events)
                 C == Len(agent.queue)
                 D == link.new
                 E == agent.dropped
                 F == link.seen
                 K == Len(queue')
      <3>1. A \in Int /\ B \in Int /\ C \in Int /\ D \in Int /\ E \in Int /\ F \in Int /\ n \in Int
        BY DEF EventTypes, Trailers, Agents
      <3>2. owed = A + B + n + C + D + (E - F)
        BY <2>1 DEF Agree
      <3>3. K = A - 1 /\ owed' = owed - 1
        BY <1>1, <1>2, <1>3 DEF EventTypes
      <3> HIDE DEF A, B, C, D, E, F, K
      <3>4. owed' = K + B + n + C + D + (E - F)
        BY <1>2, <3>1, <3>2, <3>3
      <3> QED  BY <3>4 DEF A, B, C, D, E, F, K
    <2> QED  BY <2>1, <2>2 DEF Balance
  <1> QED  BY <1>1, <1>2, <1>3 DEF Counted

-----------------------------------------------------------------------------
LEMMA CountedInitially == WatchInit => Counted
  <1> SUFFICES ASSUME WatchInit PROVE Counted
    OBVIOUS
  <1>1. /\ agent = NoWatch /\ toAgent = <<>> /\ fromAgent = <<>> /\ greeting = FALSE
        /\ link = NewLink /\ queue = <<>> /\ owed = 0
    BY DEF WatchInit
  <1>2. NoneIs("HELLO", toAgent) /\ NoneIs("HELLO_ACK", fromAgent) /\ AcksFirst(link, fromAgent)
    BY <1>1 DEF NoneIs, AcksFirst
  <1>3. Unwatched(agent, link, fromAgent)
    BY <1>1 DEF Unwatched, NoWatch, NewLink
  <1>4. Balance(owed, queue, link, fromAgent, agent, resampled)
    <2>1. Agree(owed, Len(queue), 0, agent, link, resampled)
      BY <1>1 DEF Agree, NoWatch, NewLink
    <2>2. Bring(fromAgent, 0) /\ 0 \in Int
      BY <1>1, BringNone
    <2> QED  BY <2>1, <2>2 DEF Balance
  <1> QED  BY <1>1, <1>2, <1>3, <1>4 DEF Counted

LEMMA CountedKept ==
  ASSUME EventTypes, Counted, [WatchNext]_watchVars
  PROVE  Counted'
  <1>1. ASSUME UNCHANGED <<agent, wire, waiting, seen, counts>> PROVE Counted'
    BY <1>1 DEF Counted, wire, waiting, seen, counts
  <1>2. CASE GameWrites
    BY <1>1, <1>2 DEF GameWrites
  <1>3. CASE WatchTick
    BY <1>3, CountedLook
  <1>4. CASE HandleHello \/ HandleWatch \/ HandlePeek
    BY <1>4, CountedConsole
  <1>5. CASE ConsoleReset \/ LoseMessage
    BY <1>5 DEF ConsoleReset, LoseMessage, Trouble, Counted
  <1>6. CASE Read \/ Alive \/ SampleWatch \/ QuickCopy \/ Resend \/ Reconnect \/ GiveUp
    BY <1>6, CountedAsk
  <1>7. CASE ReceiveReply
    BY <1>7, CountedReceive
  <1>8. CASE TakeWatched
    BY <1>8, CountedTake
  <1>9. CASE UNCHANGED watchVars
    BY <1>1, <1>9 DEF watchVars, console
  <1> QED  BY <1>2, <1>3, <1>4, <1>5, <1>6, <1>7, <1>8, <1>9 DEF WatchNext

\* Square books account for every event under way.
LEMMA CountedCounts ==
  ASSUME EventTypes, Counted
  PROVE  EventsCounted
  <1> SUFFICES ASSUME lossless, onCart, ~resampled, agent.dropped < MaxDropped
               PROVE  owed = Len(UnderWay) + link.new + (agent.dropped - link.seen)
    BY DEF EventsCounted
  <1>1. ~greeting /\ Balance(owed, queue, link, fromAgent, agent, resampled) /\ owed \in Int
    BY DEF Counted
  <1>2. PICK n \in Int : /\ Bring(fromAgent, n)
                         /\ Agree(owed, Len(queue), n, agent, link, resampled)
    BY <1>1 DEF Balance
  <1> DEFINE answered == FlattenSeq([i \in 1..Len(fromAgent) |-> fromAgent[i].events])
  <1>3. UnderWay = queue \o link.events \o answered \o agent.queue
    BY <1>1 DEF UnderWay
  <1>4. fromAgent \in Seq(Answers)
    BY DEF EventTypes
  <1>5. Len(answered) = n /\ answered \in Seq(Nat)
    BY <1>2, <1>4, BroughtIs
  <1>6. queue \in Seq(Nat) /\ link.events \in Seq(Nat) /\ agent.queue \in Seq(Nat)
    BY DEF EventTypes, Trailers, Agents
  <1> HIDE DEF answered
  <1>7. Len(UnderWay) = Len(queue) + Len(link.events) + n + Len(agent.queue)
    <2>1. \A s, t \in Seq(Nat) : s \o t \in Seq(Nat) /\ Len(s \o t) = Len(s) + Len(t)
      OBVIOUS
    <2>2. /\ queue \o link.events \in Seq(Nat)
          /\ Len(queue \o link.events) = Len(queue) + Len(link.events)
      BY <1>6, <2>1
    <2>3. /\ (queue \o link.events) \o answered \in Seq(Nat)
          /\ Len((queue \o link.events) \o answered) = Len(queue) + Len(link.events) + n
      BY <1>5, <2>1, <2>2
    <2>4. Len(((queue \o link.events) \o answered) \o agent.queue)
            = Len(queue) + Len(link.events) + n + Len(agent.queue)
      BY <1>6, <2>1, <2>3
    <2> QED  BY <1>3, <2>4
  <1> DEFINE A == Len(queue)
             B == Len(link.events)
             C == Len(agent.queue)
             D == link.new
             E == agent.dropped
             F == link.seen
             U == Len(UnderWay)
  <1>8. A \in Int /\ B \in Int /\ C \in Int /\ D \in Int /\ E \in Int /\ F \in Int /\ n \in Int
    BY <1>6 DEF EventTypes, Trailers, Agents
  <1>9. owed = A + B + n + C + D + (E - F) /\ U = A + B + n + C
    BY <1>2, <1>7 DEF Agree
  <1> HIDE DEF A, B, C, D, E, F, U
  <1>10. owed = U + D + (E - F)
    BY <1>1, <1>8, <1>9
  <1> QED  BY <1>10 DEF D, E, F, U

\* While no message is lost, every event that the agent saw was shown to the
\* connector, is on its way, or is counted as dropped: whatever the sizes of
\* the two queues that overflow, wherever the agent's count saturates, and
\* however late answers come and however often AP64 asks.
THEOREM NoEventUncounted == WatchSpec => []EventsCounted
  <1>1. EventsHold => EventTypes
    BY DEF EventsHold
  <1>2. EventTypes /\ Counted => EventsCounted
    BY CountedCounts
  <1>3. WatchInit => EventsHold /\ Counted
    BY EventsInitially, CountedInitially
  <1>4. EventsHold /\ Counted /\ [WatchNext]_watchVars => EventsHold' /\ Counted'
    BY <1>1, EventsKept, CountedKept
  <1> QED  BY <1>1, <1>2, <1>3, <1>4, PTL DEF WatchSpec
=============================================================================
