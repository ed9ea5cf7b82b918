------------------------------ MODULE XferProofs ------------------------------
(***************************************************************************)
(* Proofs about Xfer64's bridge pause and its close guard: for any number  *)
(* of operations that overlap in any way, for any number of windows, any   *)
(* bound on their reports and any number of closes that force the exit.    *)
(***************************************************************************)
EXTENDS BridgePause, CloseGuard, FiniteSetTheorems, SequenceTheorems, TLAPS

-----------------------------------------------------------------------------
(* The notes of the pauses agree with them, and the bridge is given back.  *)

Request == [from : SUBSET Operations, what : {"release", "resume"}]
Noted == {o \in Operations : paused[o]}

\* What an operation does tells whether it has a pause noted.
PlacesPaused ==
  \A o \in Operations :
    /\ doing[o] \in {"noted", "releasing"} => paused[o]
    /\ doing[o] = "re-releasing" => paused[o] \/ crossed
    /\ doing[o] \in {"none", "probed", "ending", "resuming"} => ~paused[o]

\* Who waits for a request waits for its kind, and for one only.
Expected(what) == IF what = "resume" THEN {"resuming"} ELSE {"releasing", "re-releasing"}

RequestsOwned ==
  /\ \A i \in 1..Len(requests) : \A o \in requests[i].from :
       /\ doing[o] \in Expected(requests[i].what)
       /\ \A j \in 1..Len(requests) : o \in requests[j].from => i = j

\* Only the request being served may have lost its client.
RequestsAttended == \A i \in 2..Len(requests) : requests[i].from # {}

\* Someone is still to resume, or nobody can be expected to.
WillResume ==
  \/ crossed \/ untaken
  \/ \E o \in Operations : paused[o] \/ doing[o] = "ending"
  \/ \E i \in 1..Len(requests) : requests[i].what = "resume"

ReleasesAnswered ==
  bridge = "released" \/ (requests # <<>> /\ requests[1].what = "release") => WillResume

\* The notes are counted right; they can be counted at all.
NotesCounted == IsFiniteSet(Noted) /\ PausesNoted

Kept == PlacesPaused /\ RequestsOwned /\ RequestsAttended /\ ReleasesAnswered

PauseIInv == PauseTypeOK /\ NotesCounted /\ Kept

-----------------------------------------------------------------------------
(* The queue.                                                              *)

LEMMA DropAt ==
  ASSUME NEW S, NEW q \in Seq(S), NEW k \in 1..Len(q),
         NEW r, r = SubSeq(q, 1, k - 1) \o SubSeq(q, k + 1, Len(q))
  PROVE  /\ r \in Seq(S) /\ Len(r) = Len(q) - 1
         /\ \A i \in 1..Len(r) : r[i] = IF i < k THEN q[i] ELSE q[i + 1]
<1> DEFINE s == SubSeq(q, 1, k - 1)
           t == SubSeq(q, k + 1, Len(q))
<1>1. /\ s \in Seq(S) /\ Len(s) = k - 1
      /\ \A i \in 1..(k - 1) : s[i] = q[i]
  <2>1. \A i \in 1..(k - 1) : q[i] \in S
    OBVIOUS
  <2> QED BY <2>1, SubSeqProperties
<1>2. /\ t \in Seq(S) /\ Len(t) = Len(q) - k
      /\ \A i \in 1..(Len(q) - k) : t[i] = q[k + i]
  <2>1. \A i \in (k + 1)..Len(q) : q[i] \in S
    OBVIOUS
  <2> QED BY <2>1, SubSeqProperties
<1> HIDE DEF s, t
<1>3. r = s \o t
  BY DEF s, t
<1>4. /\ s \o t \in Seq(S) /\ Len(s \o t) = Len(s) + Len(t)
      /\ \A i \in 1..Len(s) + Len(t) :
            (s \o t)[i] = IF i <= Len(s) THEN s[i] ELSE t[i - Len(s)]
  BY <1>1, <1>2, ConcatProperties
<1>5. Len(q) \in Nat /\ k \in Nat /\ k >= 1 /\ k <= Len(q)
  OBVIOUS
<1>6. Len(r) = Len(q) - 1 /\ Len(s) + Len(t) = Len(q) - 1
  <2>1. (k - 1) + (Len(q) - k) = Len(q) - 1
    BY <1>5
  <2>2. Len(s) + Len(t) = (k - 1) + (Len(q) - k)
    BY <1>1, <1>2, Zenon
  <2>3. Len(r) = Len(s) + Len(t)
    BY <1>3, <1>4, Zenon
  <2> QED BY <2>1, <2>2, <2>3
<1>7. ASSUME NEW i \in 1..Len(r) PROVE r[i] = IF i < k THEN q[i] ELSE q[i + 1]
  <2>1. r[i] = IF i <= k - 1 THEN s[i] ELSE t[i - (k - 1)]
    BY <1>1, <1>3, <1>4, <1>6
  <2>2. CASE i < k
    <3>1. i <= k - 1 /\ i \in 1..(k - 1)
      BY <1>5, <1>6, <2>2
    <3> QED BY <1>1, <2>1, <2>2, <3>1
  <2>3. CASE ~(i < k)
    <3>1. i - (k - 1) \in 1..(Len(q) - k) /\ k + (i - (k - 1)) = i + 1 /\ ~(i <= k - 1)
      <4>1. i \in 1..(Len(q) - 1)
        BY <1>6, Zenon
      <4> QED BY <1>5, <2>3, <4>1
    <3>2. t[i - (k - 1)] = q[k + (i - (k - 1))]
      BY <1>2, <3>1
    <3> QED BY <2>1, <2>3, <3>1, <3>2
  <2> QED BY <2>2, <2>3
<1> QED BY <1>3, <1>4, <1>6, <1>7

LEMMA ReplaceHead ==
  ASSUME NEW S, NEW q \in Seq(S), q # <<>>, NEW e \in S, NEW r, r = <<e>> \o Tail(q)
  PROVE  /\ r \in Seq(S) /\ Len(r) = Len(q) /\ r[1] = e
         /\ \A i \in 2..Len(r) : r[i] = q[i]
<1>1. /\ Tail(q) \in Seq(S) /\ Len(Tail(q)) = Len(q) - 1
      /\ \A i \in 1..(Len(q) - 1) : Tail(q)[i] = q[i + 1]
  BY HeadTailProperties
<1>2. <<e>> \in Seq(S) /\ Len(<<e>>) = 1 /\ <<e>>[1] = e
  OBVIOUS
<1> DEFINE h == <<e>>  t == Tail(q)
<1> HIDE DEF h, t
<1>3. /\ h \o t \in Seq(S) /\ Len(h \o t) = Len(h) + Len(t)
      /\ \A i \in 1..Len(h) + Len(t) :
            (h \o t)[i] = IF i <= Len(h) THEN h[i] ELSE t[i - Len(h)]
  BY <1>1, <1>2, ConcatProperties DEF h, t
<1>4. r = h \o t
  BY DEF h, t
<1>5. Len(q) \in Nat /\ Len(q) >= 1
  BY EmptySeq, <1>1
<1>6. r[1] = e /\ Len(r) = Len(q)
  BY <1>1, <1>2, <1>3, <1>4, <1>5 DEF h, t
<1>7. ASSUME NEW i \in 2..Len(r) PROVE r[i] = q[i]
  <2>1. r[i] = t[i - 1] /\ i - 1 \in 1..(Len(q) - 1)
    BY <1>1, <1>2, <1>3, <1>4, <1>5, <1>6 DEF h, t
  <2>2. t[i - 1] = q[(i - 1) + 1] /\ (i - 1) + 1 = i
    BY <1>1, <2>1 DEF t
  <2> QED BY <2>1, <2>2
<1> QED BY <1>3, <1>4, <1>6, <1>7

-----------------------------------------------------------------------------
(* The notes.                                                              *)

LEMMA NotesAlone ==
  ASSUME NotesCounted, UNCHANGED <<pauses, paused>> PROVE NotesCounted'
BY DEF NotesCounted, PausesNoted, Noted

LEMMA NoteTaken ==
  ASSUME PauseTypeOK, NotesCounted, NEW o \in Operations, ~paused[o],
         pauses' = pauses + 1, paused' = [paused EXCEPT ![o] = TRUE]
  PROVE  NotesCounted'
<1>1. Noted' = Noted \cup {o} /\ o \notin Noted
  BY DEF Noted, PauseTypeOK
<1>2. IsFiniteSet(Noted') /\ Cardinality(Noted') = Cardinality(Noted) + 1
  BY <1>1, FS_AddElement DEF NotesCounted
<1> QED BY <1>2 DEF NotesCounted, PausesNoted, Noted

LEMMA NoteGivenBack ==
  ASSUME PauseTypeOK, NotesCounted, NEW o \in Operations, paused[o],
         pauses' = pauses - 1, paused' = [paused EXCEPT ![o] = FALSE]
  PROVE  NotesCounted' /\ pauses' \in Nat
<1>1. Noted' = Noted \ {o} /\ o \in Noted
  BY DEF Noted, PauseTypeOK
<1>2. IsFiniteSet(Noted') /\ Cardinality(Noted') = Cardinality(Noted) - 1
  BY <1>1, FS_RemoveElement DEF NotesCounted
<1>3. Cardinality(Noted') \in Nat
  BY <1>2, FS_CardinalityType
<1> QED BY <1>2, <1>3 DEF NotesCounted, PausesNoted, Noted

-----------------------------------------------------------------------------
(* Steps of an operation that leave the bridge and its queue alone.        *)

LEMMA FromOperations ==
  ASSUME PauseTypeOK
  PROVE  \A i \in 1..Len(requests) : requests[i].from \subseteq Operations
<1>1. requests \in Seq(Request)
  BY DEF PauseTypeOK, Request
<1>2. \A i \in 1..Len(requests) : requests[i] \in Request
  BY <1>1, ElementOfSeq
<1> QED BY <1>2 DEF Request

LEMMA MovesOn ==
  ASSUME PauseTypeOK, Kept, NEW o \in Operations, NEW what \in Doings \ Waiting,
         doing[o] \notin Waiting, Become(o, what),
         UNCHANGED <<bridge, requests, crossed>>,
         untaken => untaken', untaken' \in BOOLEAN,
         paused' \in [Operations -> BOOLEAN],
         \A p \in Operations \ {o} : paused'[p] = paused[p],
         what = "noted" => paused'[o],
         what \in {"none", "probed", "ending"} => ~paused'[o],
         paused[o] \/ doing[o] = "ending" => paused'[o] \/ what = "ending" \/ untaken',
         pauses' \in Nat
  PROVE  PauseTypeOK' /\ Kept'
<1>1. doing'[o] = what /\ \A p \in Operations \ {o} : doing'[p] = doing[p]
  BY DEF PauseTypeOK, Become
<1>2. PauseTypeOK'
  BY DEF PauseTypeOK, Become
<1>3. PlacesPaused'
  BY <1>1 DEF Kept, PlacesPaused, Waiting
<1>4. RequestsOwned'
  <2>1. \A i \in 1..Len(requests) : o \notin requests[i].from
    BY DEF Kept, RequestsOwned, Expected, Waiting
  <2>2. \A i \in 1..Len(requests) : requests[i].from \subseteq Operations
    BY FromOperations
  <2> QED BY <1>1, <2>1, <2>2 DEF Kept, RequestsOwned
<1>5. RequestsAttended'
  BY DEF Kept, RequestsAttended
<1>6. ReleasesAnswered'
  BY <1>1 DEF Kept, ReleasesAnswered, WillResume
<1> QED BY <1>2, <1>3, <1>4, <1>5, <1>6 DEF Kept

\* An operation that asks: it waits at the queue's end, or it hears at once
\* that there is no bridge.
LEMMA Asks ==
  ASSUME PauseTypeOK, Kept, NEW o \in Operations, NEW what \in {"release", "resume"},
         NEW waiting \in Expected(what), Ask(o, what, waiting),
         doing[o] \notin Waiting, UNCHANGED <<bridge, pauses, paused>>,
         crossed => crossed', crossed' \in BOOLEAN,
         waiting = "releasing" => paused[o],
         waiting = "re-releasing" => paused[o] \/ crossed',
         what = "resume" => ~paused[o],
         what = "release" => doing[o] # "ending"
  PROVE  PauseTypeOK' /\ Kept'
<1>1. CASE bridge = "down"
  <2> DEFINE next == IF what = "resume" THEN "none" ELSE "failed"
  <2>1. /\ doing' = [doing EXCEPT ![o] = next] /\ UNCHANGED requests
        /\ untaken' = (what = "resume" \/ untaken)
    BY <1>1 DEF Ask, Become
  <2>2. doing'[o] = next /\ \A p \in Operations \ {o} : doing'[p] = doing[p]
    BY <2>1 DEF PauseTypeOK
  <2>3. PauseTypeOK'
    BY <2>1 DEF PauseTypeOK, Doings
  <2>4. PlacesPaused'
    BY <2>2 DEF Kept, PlacesPaused
  <2>5. RequestsOwned'
    <3>1. \A i \in 1..Len(requests) : o \notin requests[i].from
      BY DEF Kept, RequestsOwned, Expected, Waiting
    <3>2. \A i \in 1..Len(requests) : requests[i].from \subseteq Operations
      BY FromOperations
    <3> QED BY <2>1, <2>2, <3>1, <3>2 DEF Kept, RequestsOwned
  <2>6. RequestsAttended'
    BY <2>1 DEF Kept, RequestsAttended
  <2>7. ReleasesAnswered'
    BY <2>1, <2>2 DEF Kept, ReleasesAnswered, WillResume
  <2> QED BY <2>3, <2>4, <2>5, <2>6, <2>7 DEF Kept
<1>2. CASE bridge # "down"
  <2> DEFINE new == [from |-> {o}, what |-> what]
             n == Len(requests)
  <2>1. /\ doing' = [doing EXCEPT ![o] = waiting] /\ requests' = Append(requests, new)
        /\ UNCHANGED untaken
    BY <1>2 DEF Ask, Become
  <2>2. doing'[o] = waiting /\ \A p \in Operations \ {o} : doing'[p] = doing[p]
    BY <2>1 DEF PauseTypeOK
  <2>3. new \in Request /\ new.from = {o} /\ new.what = what
    BY DEF Request
  <2>4. requests \in Seq(Request) /\ n \in Nat
    BY DEF PauseTypeOK, Request
  <2> HIDE DEF new
  <2>5. /\ requests' \in Seq(Request) /\ Len(requests') = n + 1
        /\ requests'[n + 1] = new
        /\ \A i \in 1..n : requests'[i] = requests[i]
    BY <2>1, <2>3, <2>4, AppendProperties
  <2>6. PauseTypeOK'
    <3>1. waiting \in Doings
      BY DEF Expected, Doings, Waiting
    <3>2. requests' \in Seq([from : SUBSET Operations, what : {"release", "resume"}])
      BY <2>5 DEF Request
    <3> QED BY <2>1, <3>1, <3>2 DEF PauseTypeOK
  <2>7. PlacesPaused'
    BY <2>2 DEF Kept, PlacesPaused, Expected
  <2>8. RequestsOwned'
    <3>1. \A i \in 1..n : o \notin requests[i].from
      BY DEF Kept, RequestsOwned, Expected, Waiting
    <3>2. \A i \in 1..n : requests[i].from \subseteq Operations
      BY FromOperations
    <3>3. ASSUME NEW i \in 1..n, NEW p \in requests[i].from
          PROVE  /\ p # o /\ doing'[p] \in Expected(requests'[i].what)
                 /\ \A j \in 1..(n + 1) : p \in requests'[j].from => i = j
      <4>1. p # o /\ p \in Operations
        BY <3>1, <3>2
      <4>2. doing[p] \in Expected(requests[i].what)
        BY DEF Kept, RequestsOwned
      <4>3. \A j \in 1..n : p \in requests[j].from => i = j
        BY DEF Kept, RequestsOwned
      <4>4. \A j \in 1..(n + 1) : j \in 1..n \/ j = n + 1
        BY <2>4
      <4> QED BY <2>2, <2>3, <2>5, <4>1, <4>2, <4>3, <4>4
    <3>4. \A j \in 1..(n + 1) : o \in requests'[j].from => j = n + 1
      <4>1. \A j \in 1..(n + 1) : j \in 1..n \/ j = n + 1
        BY <2>4
      <4> QED BY <2>5, <3>1, <4>1
    <3>5. ASSUME NEW i \in 1..(n + 1), NEW p \in requests'[i].from
          PROVE  /\ doing'[p] \in Expected(requests'[i].what)
                 /\ \A j \in 1..(n + 1) : p \in requests'[j].from => i = j
      <4>1. CASE i \in 1..n
        BY <2>5, <3>3, <4>1
      <4>2. CASE i = n + 1
        <5>1. p = o /\ requests'[i].what = what
          BY <2>3, <2>5, <4>2
        <5> QED BY <2>2, <3>4, <4>2, <5>1
      <4> QED BY <2>4, <4>1, <4>2
    <3> QED BY <2>5, <3>5 DEF RequestsOwned
  <2>9. RequestsAttended'
    <3> SUFFICES ASSUME NEW i \in 2..(n + 1) PROVE requests'[i].from # {}
      BY <2>5 DEF RequestsAttended
    <3>1. CASE i = n + 1
      BY <2>3, <2>5, <3>1
    <3>2. CASE i # n + 1
      <4>1. i \in 2..n /\ i \in 1..n
        BY <2>4, <3>2
      <4> QED BY <2>5, <4>1 DEF Kept, RequestsAttended
    <3> QED BY <3>1, <3>2
  <2>10. ReleasesAnswered'
    <3> SUFFICES ASSUME bridge = "released" \/ requests'[1].what = "release"
                 PROVE  WillResume'
      BY <2>5 DEF ReleasesAnswered
    <3>1. CASE what = "resume"
      <4>1. n + 1 \in 1..Len(requests') /\ requests'[n + 1].what = "resume"
        BY <2>3, <2>4, <2>5, <3>1
      <4> QED BY <4>1 DEF WillResume
    <3>2. CASE what = "release" /\ (paused[o] \/ crossed')
      BY <3>2 DEF WillResume
    <3>3. what = "release" => paused[o] \/ crossed'
      BY DEF Expected
    <3> QED BY <3>1, <3>2, <3>3
  <2> QED BY <2>6, <2>7, <2>8, <2>9, <2>10 DEF Kept
<1> QED BY <1>1, <1>2

-----------------------------------------------------------------------------
(* The bridge's steps, and a client that gives up.                         *)

\* What the head of the queue was waiting for is answered, and the queue moves
\* up: its next request was attended, and a release that is next is somebody's
\* who has a pause.
LEMMA QueueMovesUp ==
  ASSUME PauseTypeOK, Kept, requests # <<>>, NEW ok \in BOOLEAN,
         requests' = Tail(requests), Answer(Head(requests), ok),
         bridge' \in {"down", "faulted", "active", "released"},
         untaken' \in BOOLEAN, UNCHANGED <<pauses, paused, crossed>>,
         bridge' = "released" =>
            untaken' \/ (requests[1].what = "release" /\ untaken' = untaken)
  PROVE  PauseTypeOK' /\ Kept'
<1> DEFINE n == Len(requests)
<1>1. requests \in Seq(Request) /\ n \in Nat /\ n >= 1 /\ Head(requests) = requests[1]
  <2>1. requests \in Seq(Request)
    BY DEF PauseTypeOK, Request
  <2> QED BY <2>1, EmptySeq
<1>2. /\ requests' \in Seq(Request) /\ Len(requests') = n - 1
      /\ \A i \in 1..(n - 1) : requests'[i] = requests[i + 1]
  BY <1>1, HeadTailProperties
<1>3. \A i \in 1..n : requests[i] \in Request
  BY <1>1, ElementOfSeq
<1>4. /\ requests[1].from \subseteq Operations
      /\ \A o \in requests[1].from : doing[o] \in Waiting /\ doing'[o] = AfterAnswer(o, ok)
      /\ \A o \in Operations \ requests[1].from : doing'[o] = doing[o]
  <2>1. requests[1].from \subseteq Operations
    BY <1>1, FromOperations
  <2>2. \A o \in requests[1].from : doing[o] \in Waiting
    BY <1>1 DEF Kept, RequestsOwned, Expected, Waiting
  <2> QED BY <1>1, <2>1, <2>2 DEF Answer
<1>5. \A o \in requests[1].from :
        AfterAnswer(o, ok) \in {"working", "failed", "last try", "retrying", "none"}
        /\ (AfterAnswer(o, ok) = "none" <=> doing[o] = "resuming")
  BY <1>4 DEF AfterAnswer, Waiting
<1>6. PauseTypeOK'
  <2>1. doing' \in [Operations -> Doings]
    BY <1>1, <1>4, <1>5 DEF Answer, Doings, PauseTypeOK
  <2>2. requests' \in Seq([from : SUBSET Operations, what : {"release", "resume"}])
    BY <1>2 DEF Request
  <2> QED BY <2>1, <2>2 DEF PauseTypeOK
<1>7. PlacesPaused'
  BY <1>4, <1>5 DEF Kept, PlacesPaused
<1>8. RequestsOwned'
  <2> SUFFICES ASSUME NEW i \in 1..(n - 1), NEW o \in requests'[i].from
               PROVE  /\ doing'[o] \in Expected(requests'[i].what)
                      /\ \A j \in 1..(n - 1) : o \in requests'[j].from => i = j
    BY <1>2 DEF RequestsOwned
  <2>1. i + 1 \in 1..n /\ 1 \in 1..n /\ i + 1 # 1
    BY <1>1
  <2>2. requests'[i] = requests[i + 1] /\ o \in requests[i + 1].from
    BY <1>2
  <2>3. o \in Operations /\ o \notin requests[1].from
    BY <2>1, <2>2, FromOperations DEF Kept, RequestsOwned
  <2>4. doing'[o] = doing[o] /\ doing[o] \in Expected(requests[i + 1].what)
    BY <1>4, <2>1, <2>2, <2>3 DEF Kept, RequestsOwned
  <2>5. ASSUME NEW j \in 1..(n - 1), o \in requests'[j].from PROVE i = j
    <3>1. j + 1 \in 1..n /\ o \in requests[j + 1].from
      BY <1>1, <1>2, <2>5
    <3>2. i + 1 = j + 1
      BY <2>1, <2>2, <3>1 DEF Kept, RequestsOwned
    <3> QED BY <1>1, <3>2
  <2> QED BY <2>2, <2>4, <2>5
<1>9. RequestsAttended'
  <2> SUFFICES ASSUME NEW i \in 2..(n - 1) PROVE requests'[i].from # {}
    BY <1>2 DEF RequestsAttended
  <2>1. i + 1 \in 2..n /\ i \in 1..(n - 1)
    BY <1>1
  <2> QED BY <1>2, <2>1 DEF Kept, RequestsAttended
<1>10. ReleasesAnswered'
  <2>1. ASSUME bridge' = "released" PROVE WillResume'
    <3>1. CASE untaken'
      BY <3>1 DEF WillResume
    <3>2. CASE requests[1].what = "release" /\ untaken' = untaken
      <4>1. WillResume
        BY <3>2 DEF Kept, ReleasesAnswered
      <4>2. CASE crossed \/ untaken
        BY <3>2, <4>2 DEF WillResume
      <4>3. CASE \E o \in Operations : paused[o] \/ doing[o] = "ending"
        BY <1>4, <4>3 DEF WillResume, Waiting
      <4>4. CASE \E i \in 1..n : requests[i].what = "resume"
        <5>1. PICK i \in 1..n : requests[i].what = "resume"
          BY <4>4
        <5>2. i - 1 \in 1..(n - 1) /\ (i - 1) + 1 = i
          <6>1. i # 1
            BY <3>2, <5>1
          <6> QED BY <1>1, <6>1
        <5>3. requests'[i - 1] = requests[i]
          BY <1>2, <5>2
        <5> QED BY <1>2, <5>1, <5>2, <5>3 DEF WillResume
      <4> QED BY <4>1, <4>2, <4>3, <4>4 DEF WillResume
    <3> QED BY <2>1, <3>1, <3>2
  <2>2. ASSUME requests' # <<>>, requests'[1].what = "release" PROVE WillResume'
    <3>1. n - 1 >= 1 /\ 1 \in 1..(n - 1) /\ 2 \in 1..n /\ 2 \in 2..n
      BY <1>1, <1>2, <2>2, EmptySeq
    <3>2. requests'[1] = requests[2]
      BY <1>2, <3>1
    <3>3. PICK o \in requests[2].from : TRUE
      BY <3>1 DEF Kept, RequestsAttended
    <3>4. o \in Operations /\ doing[o] \in {"releasing", "re-releasing"}
      BY <2>2, <3>1, <3>2, <3>3, FromOperations DEF Kept, RequestsOwned, Expected
    <3>5. paused[o] \/ crossed
      BY <3>4 DEF Kept, PlacesPaused
    <3> QED BY <3>4, <3>5 DEF WillResume
  <2> QED BY <2>1, <2>2 DEF ReleasesAnswered
<1> QED BY <1>6, <1>7, <1>8, <1>9, <1>10 DEF Kept

\* Who gives up waits for one request: it goes, or stays without its client
\* when it is being served.
LEMMA GivesUp ==
  ASSUME PauseTypeOK, Kept, NEW o \in Operations, GiveUpWaiting(o)
  PROVE  PauseTypeOK' /\ Kept'
<1> DEFINE n == Len(requests)
           next == AfterAnswer(o, FALSE)
<1>1. /\ doing[o] \in Waiting /\ doing' = [doing EXCEPT ![o] = next]
      /\ untaken' = (doing[o] = "resuming" \/ untaken)
      /\ UNCHANGED <<bridge, pauses, paused, crossed>>
  BY DEF GiveUpWaiting, Become
<1>2. PICK k \in 1..n :
        /\ o \in requests[k].from
        /\ requests' =
             IF k = 1 THEN <<[from |-> {}, what |-> requests[1].what]>> \o Tail(requests)
             ELSE SubSeq(requests, 1, k - 1) \o SubSeq(requests, k + 1, n)
  BY DEF GiveUpWaiting
<1>3. requests \in Seq(Request) /\ n \in Nat /\ n >= 1 /\ requests # <<>>
  <2>1. requests \in Seq(Request)
    BY DEF PauseTypeOK, Request
  <2> QED BY <1>2, <2>1
<1>4. /\ next \in {"failed", "retrying", "none"}
      /\ next = "none" <=> doing[o] = "resuming"
  BY <1>1 DEF AfterAnswer, Waiting
<1>5. doing'[o] = next /\ \A p \in Operations \ {o} : doing'[p] = doing[p]
  BY <1>1 DEF PauseTypeOK
<1>6. PlacesPaused'
  BY <1>1, <1>4, <1>5 DEF Kept, PlacesPaused
<1>7. doing' \in [Operations -> Doings] /\ untaken' \in BOOLEAN
  BY <1>1, <1>4 DEF PauseTypeOK, Doings
<1>8. \A i \in 1..n : o \in requests[i].from => i = k
  BY <1>2 DEF Kept, RequestsOwned
<1>9. doing[o] = "resuming" <=> requests[k].what = "resume"
  <2>1. doing[o] \in Expected(requests[k].what)
    BY <1>2 DEF Kept, RequestsOwned
  <2> QED BY <2>1 DEF Expected
<1>10. \A i \in 1..n : requests[i] \in Request /\ requests[i].from \subseteq Operations
  BY <1>3, ElementOfSeq, FromOperations
\* The requests that stay, and whose they were.
<1>11. ASSUME NEW m \in [1..Len(requests') -> 1..n],
              \A i, j \in 1..Len(requests') : m[i] = m[j] => i = j,
              \A i \in 1..Len(requests') :
                 /\ requests'[i].what = requests[m[i]].what
                 /\ requests'[i].from \subseteq requests[m[i]].from \ {o}
       PROVE  RequestsOwned'
  <2> SUFFICES ASSUME NEW i \in 1..Len(requests'), NEW p \in requests'[i].from
               PROVE  /\ doing'[p] \in Expected(requests'[i].what)
                      /\ \A j \in 1..Len(requests') : p \in requests'[j].from => i = j
    BY DEF RequestsOwned
  <2>1. m[i] \in 1..n /\ p \in requests[m[i]].from /\ p \in Operations \ {o}
    BY <1>10, <1>11
  <2>2. doing'[p] = doing[p] /\ doing[p] \in Expected(requests[m[i]].what)
    BY <1>5, <2>1 DEF Kept, RequestsOwned
  <2>3. ASSUME NEW j \in 1..Len(requests'), p \in requests'[j].from PROVE i = j
    <3>1. m[j] \in 1..n /\ p \in requests[m[j]].from
      BY <1>11, <2>3
    <3>2. m[i] = m[j]
      BY <2>1, <3>1 DEF Kept, RequestsOwned
    <3> QED BY <1>11, <3>2
  <2> QED BY <1>11, <2>2, <2>3
<1>12. CASE k = 1
  <2> DEFINE e == [from |-> {}, what |-> requests[1].what]
  <2>1. e \in Request /\ e.from = {} /\ e.what = requests[1].what
    BY <1>2, <1>10, <1>12 DEF Request
  <2> HIDE DEF e
  <2>2. /\ requests' \in Seq(Request) /\ Len(requests') = n /\ requests'[1] = e
        /\ \A i \in 2..n : requests'[i] = requests[i]
    <3>1. requests' = <<e>> \o Tail(requests)
      BY <1>2, <1>12 DEF e
    <3> QED BY <1>3, <2>1, <3>1, ReplaceHead
  <2>3. \A i \in 1..n : i = 1 \/ i \in 2..n
    BY <1>3
  <2>4. \A i \in 1..n : /\ requests'[i].what = requests[i].what
                        /\ requests'[i].from \subseteq requests[i].from \ {o}
    BY <1>8, <1>12, <2>1, <2>2, <2>3
  <2>5. RequestsOwned'
    <3> DEFINE m == [i \in 1..n |-> i]
    <3>1. m \in [1..Len(requests') -> 1..n] /\ \A i \in 1..n : m[i] = i
      BY <2>2
    <3> HIDE DEF m
    <3> QED BY <1>11, <2>2, <2>4, <3>1
  <2>6. RequestsAttended'
    BY <2>2 DEF Kept, RequestsAttended
  <2>7. ReleasesAnswered'
    <3>1. requests'[1].what = requests[1].what /\ Len(requests') = n
      BY <1>3, <2>2, <2>4
    <3> SUFFICES ASSUME WillResume PROVE WillResume'
      BY <1>1, <1>3, <3>1 DEF Kept, ReleasesAnswered
    <3>2. CASE crossed \/ untaken
      BY <1>1, <3>2 DEF WillResume
    <3>3. CASE \E p \in Operations : paused[p] \/ doing[p] = "ending"
      BY <1>1, <1>5, <3>3 DEF WillResume, Waiting
    <3>4. CASE \E i \in 1..n : requests[i].what = "resume"
      BY <2>4, <3>1, <3>4 DEF WillResume
    <3> QED BY <3>2, <3>3, <3>4 DEF WillResume
  <2>8. PauseTypeOK'
    BY <1>1, <1>7, <2>2 DEF PauseTypeOK, Request
  <2> QED BY <1>6, <2>5, <2>6, <2>7, <2>8 DEF Kept
<1>13. CASE k # 1
  <2>1. /\ requests' \in Seq(Request) /\ Len(requests') = n - 1
        /\ \A i \in 1..(n - 1) : requests'[i] = IF i < k THEN requests[i] ELSE requests[i + 1]
    <3>1. requests' = SubSeq(requests, 1, k - 1) \o SubSeq(requests, k + 1, Len(requests))
      BY <1>2, <1>13
    <3> HIDE DEF n
    <3>2. /\ requests' \in Seq(Request) /\ Len(requests') = Len(requests) - 1
          /\ \A i \in 1..Len(requests') :
                requests'[i] = IF i < k THEN requests[i] ELSE requests[i + 1]
      BY <1>3, <1>2, <3>1, DropAt DEF n
    <3>3. Len(requests') = n - 1
      BY <3>2 DEF n
    <3> QED BY <3>2, <3>3, Zenon
  <2>5. RequestsOwned'
    <3> DEFINE m == [i \in 1..(n - 1) |-> IF i < k THEN i ELSE i + 1]
    <3>1. m \in [1..(n - 1) -> 1..n]
      BY <1>2, <1>3
    <3>2. \A i \in 1..(n - 1) : m[i] = IF i < k THEN i ELSE i + 1
      OBVIOUS
    <3> HIDE DEF m
    <3>3. \A i, j \in 1..(n - 1) : m[i] = m[j] => i = j
      BY <1>2, <1>3, <3>2
    <3>4. ASSUME NEW i \in 1..(n - 1)
          PROVE  m[i] # k /\ m[i] \in 1..n /\ requests'[i] = requests[m[i]]
      <4>1. m[i] # k /\ m[i] \in 1..n
        BY <1>3, <3>1, <3>2
      <4>2. CASE i < k
        <5>1. m[i] = i
          BY <3>2, <4>2
        <5>2. requests'[i] = requests[i]
          BY <2>1, <4>2
        <5> QED BY <4>1, <5>1, <5>2
      <4>3. CASE ~(i < k)
        <5>1. m[i] = i + 1
          BY <3>2, <4>3
        <5>2. requests'[i] = requests[i + 1]
          BY <2>1, <4>3
        <5> QED BY <4>1, <5>1, <5>2
      <4> QED BY <4>2, <4>3
    <3>5. \A i \in 1..(n - 1) : o \notin requests[m[i]].from
      BY <1>8, <3>4
    <3>6. \A i \in 1..(n - 1) : /\ requests'[i].what = requests[m[i]].what
                                /\ requests'[i].from \subseteq requests[m[i]].from \ {o}
      BY <3>4, <3>5
    <3>7. Len(requests') = n - 1
      BY <2>1
    <3> HIDE DEF n
    <3> QED BY <1>11, <3>1, <3>3, <3>6, <3>7
  <2>6. RequestsAttended'
    <3> SUFFICES ASSUME NEW i \in 2..(n - 1) PROVE requests'[i].from # {}
      BY <2>1 DEF RequestsAttended
    <3>1. i \in 1..(n - 1) /\ i \in 2..n /\ i + 1 \in 2..n
      BY <1>3
    <3> QED BY <2>1, <3>1 DEF Kept, RequestsAttended
  <2>7. ReleasesAnswered'
    <3> SUFFICES ASSUME bridge = "released"
                        \/ (requests' # <<>> /\ requests'[1].what = "release")
                 PROVE  WillResume'
      BY <1>1 DEF ReleasesAnswered
    <3>1. CASE doing[o] = "resuming"
      BY <1>1, <3>1 DEF WillResume
    <3>2. CASE doing[o] # "resuming"
      <4>1. requests' # <<>> => requests'[1] = requests[1]
        <5> SUFFICES ASSUME requests' # <<>> PROVE requests'[1] = requests[1]
          OBVIOUS
        <5>1. 1 \in 1..(n - 1) /\ 1 < k
          BY <1>2, <1>3, <1>13, <2>1, EmptySeq
        <5> QED BY <2>1, <5>1
      <4>2. WillResume
        BY <1>3, <4>1 DEF Kept, ReleasesAnswered
      <4>3. CASE crossed \/ untaken
        BY <1>1, <4>3 DEF WillResume
      <4>4. CASE \E p \in Operations : paused[p] \/ doing[p] = "ending"
        BY <1>1, <1>5, <4>4 DEF WillResume, Waiting
      <4>5. CASE \E i \in 1..n : requests[i].what = "resume"
        <5>1. PICK i \in 1..n : requests[i].what = "resume"
          BY <4>5
        <5>2. i # k
          BY <1>9, <3>2, <5>1
        <5> DEFINE j == IF i < k THEN i ELSE i - 1
        <5>3. j \in 1..(n - 1) /\ (j < k => j = i) /\ (~(j < k) => j + 1 = i)
          BY <1>2, <1>3, <5>2
        <5> HIDE DEF j
        <5>4. requests'[j].what = "resume" /\ j \in 1..Len(requests')
          BY <2>1, <5>1, <5>3
        <5> QED BY <5>4 DEF WillResume
      <4> QED BY <4>2, <4>3, <4>4, <4>5 DEF WillResume
    <3> QED BY <3>1, <3>2
  <2>8. PauseTypeOK'
    BY <1>1, <1>7, <2>1 DEF PauseTypeOK, Request
  <2> QED BY <1>6, <2>5, <2>6, <2>7, <2>8 DEF Kept
<1> QED BY <1>12, <1>13

LEMMA Dies ==
  ASSUME PauseTypeOK, Kept, BridgeDies PROVE PauseTypeOK' /\ Kept'
<1>1. /\ bridge' = "down" /\ requests' = <<>> /\ untaken' = FALSE
      /\ UNCHANGED <<pauses, paused, crossed>>
      /\ doing' = [o \in Operations |->
                     IF doing[o] \in Waiting THEN AfterAnswer(o, FALSE) ELSE doing[o]]
  BY DEF BridgeDies
<1>2. ASSUME NEW o \in Operations
      PROVE  /\ doing'[o] \in Doings
             /\ doing[o] \notin Waiting => doing'[o] = doing[o]
             /\ doing[o] = "resuming" => doing'[o] = "none"
             /\ doing[o] \in {"releasing", "re-releasing"} => doing'[o] \in {"failed", "retrying"}
  BY <1>1 DEF AfterAnswer, Waiting, Doings, PauseTypeOK
<1>3. PauseTypeOK'
  <2>1. doing' \in [Operations -> Doings]
    BY <1>1, <1>2
  <2>2. <<>> \in Seq([from : SUBSET Operations, what : {"release", "resume"}])
    OBVIOUS
  <2> QED BY <1>1, <2>1, <2>2 DEF PauseTypeOK
<1>4. PlacesPaused'
  BY <1>1, <1>2 DEF Kept, PlacesPaused, Waiting
<1>5. RequestsOwned' /\ RequestsAttended' /\ ReleasesAnswered'
  BY <1>1 DEF RequestsOwned, RequestsAttended, ReleasesAnswered
<1> QED BY <1>3, <1>4, <1>5 DEF Kept

LEMMA ComesUp ==
  ASSUME PauseTypeOK, Kept, BridgeStarts \/ BridgeReopens PROVE PauseTypeOK' /\ Kept'
<1>1. /\ bridge' \in {"faulted", "active"}
      /\ UNCHANGED <<requests, pauses, doing, paused, untaken, crossed>>
  BY DEF BridgeStarts, BridgeReopens
<1>2. PauseTypeOK'
  BY <1>1 DEF PauseTypeOK
<1>3. PlacesPaused' /\ RequestsOwned' /\ RequestsAttended'
  BY <1>1 DEF Kept, PlacesPaused, RequestsOwned, RequestsAttended
<1>4. ReleasesAnswered'
  BY <1>1 DEF Kept, ReleasesAnswered, WillResume
<1> QED BY <1>2, <1>3, <1>4 DEF Kept

LEMMA Serves ==
  ASSUME PauseTypeOK, Kept, ServeRelease \/ ServeResume PROVE PauseTypeOK' /\ Kept'
<1>0. requests # <<>> => Head(requests) = requests[1]
  OBVIOUS
<1>1. CASE ServeRelease
  <2>1. /\ requests # <<>> /\ requests[1].what = "release" /\ bridge' = "released"
        /\ requests' = Tail(requests) /\ Answer(Head(requests), TRUE)
        /\ UNCHANGED <<pauses, paused, untaken, crossed>>
    BY <1>0, <1>1 DEF ServeRelease
  <2>2. untaken' \in BOOLEAN
    BY <2>1 DEF PauseTypeOK
  <2> QED BY <2>1, <2>2, QueueMovesUp
<1>2. CASE ServeResume
  <2>1. /\ requests # <<>> /\ requests' = Tail(requests)
        /\ UNCHANGED <<pauses, paused, crossed>>
    BY <1>2 DEF ServeResume
  <2>2. PICK opens \in {bridge = "active", PortFree, FALSE} :
          /\ bridge' = IF opens THEN "active" ELSE bridge
          /\ untaken' = ~opens
          /\ Answer(Head(requests), opens)
    BY <1>2 DEF ServeResume
  <2>3. opens \in BOOLEAN
    BY DEF PortFree
  <2>4. /\ bridge' \in {"down", "faulted", "active", "released"} /\ untaken' \in BOOLEAN
        /\ bridge' = "released" => untaken'
    BY <2>2, <2>3 DEF PauseTypeOK
  <2> QED BY <2>1, <2>2, <2>3, <2>4, QueueMovesUp
<1> QED BY <1>1, <1>2

LEMMA Operates ==
  ASSUME PauseIInv, NEW o \in Operations,
         \/ ProbeBridge(o) \/ Decline(o) \/ NoteRelease(o) \/ SendRelease(o)
         \/ OpenCart(o) \/ CloseCart(o) \/ LookForPause(o) \/ ReleaseAgain(o)
         \/ NoRetry(o) \/ NoteResume(o) \/ SendResume(o)
  PROVE  PauseIInv'
<1> USE DEF PauseIInv
<1>1. pauses \in Nat /\ paused \in [Operations -> BOOLEAN] /\ untaken \in BOOLEAN
  BY DEF PauseTypeOK
<1>2. /\ doing[o] \in {"noted", "releasing"} => paused[o]
      /\ doing[o] \in {"none", "probed", "ending", "resuming"} => ~paused[o]
  BY DEF Kept, PlacesPaused
\* The steps that note nothing and ask nothing.
<1>3. ASSUME NEW from \in Doings, doing[o] = from, NEW what \in Doings \ Waiting,
             Become(o, what), from \notin Waiting \cup {"ending"}, what # "noted",
             what = "ending" => FALSE,
             what \in {"none", "probed"} => from \in {"none", "probed"},
             UNCHANGED <<bridge, requests, pauses, paused, untaken, crossed>>
      PROVE  PauseIInv'
  <2>1. PauseTypeOK' /\ Kept'
    BY <1>1, <1>2, <1>3, MovesOn
  <2> QED BY <1>3, <2>1, NotesAlone
<1>4. CASE ProbeBridge(o)
  <2>1. \E what \in {"probed", "working"} : Become(o, what)
    BY <1>4 DEF ProbeBridge
  <2> QED BY <1>3, <1>4, <2>1 DEF ProbeBridge, Doings, Waiting
<1>5. CASE Decline(o)
  BY <1>3, <1>5 DEF Decline, Doings, Waiting
<1>6. CASE NoteRelease(o)
  <2>1. /\ doing[o] = "probed" /\ Become(o, "noted") /\ pauses' = pauses + 1
        /\ paused' = [paused EXCEPT ![o] = TRUE]
        /\ UNCHANGED <<bridge, requests, untaken, crossed>>
    BY <1>6 DEF NoteRelease
  <2>2. /\ paused' \in [Operations -> BOOLEAN] /\ paused'[o] /\ pauses' \in Nat
        /\ \A p \in Operations \ {o} : paused'[p] = paused[p]
    BY <1>1, <2>1
  <2>3. PauseTypeOK' /\ Kept'
    BY <1>1, <2>1, <2>2, MovesOn DEF Doings, Waiting
  <2> QED BY <1>2, <2>1, <2>3, NoteTaken
<1>7. CASE SendRelease(o)
  <2>1. PauseTypeOK' /\ Kept'
    BY <1>1, <1>2, <1>7, Asks DEF SendRelease, Expected, Waiting, PauseTypeOK
  <2> QED BY <1>7, <2>1, NotesAlone DEF SendRelease
<1>8. CASE OpenCart(o)
  <2>1. \E what \in {"in session", "refused", "failed"} : Become(o, what)
    BY <1>8 DEF OpenCart
  <2> QED BY <1>3, <1>8, <2>1 DEF OpenCart, Doings, Waiting
<1>9. CASE CloseCart(o)
  BY <1>3, <1>9 DEF CloseCart, Doings, Waiting
<1>10. CASE LookForPause(o)
  <2>1. \E what \in {"asking", "retrying"} : Become(o, what)
    BY <1>10 DEF LookForPause
  <2> QED BY <1>3, <1>10, <2>1 DEF LookForPause, Doings, Waiting
<1>11. CASE ReleaseAgain(o)
  <2>1. CASE bridge = "active"
    <3>1. /\ doing[o] = "asking" /\ Ask(o, "release", "re-releasing")
          /\ crossed' = (crossed \/ ~paused[o])
          /\ UNCHANGED <<bridge, pauses, paused>>
      BY <1>11, <2>1 DEF ReleaseAgain
    <3>2. crossed' \in BOOLEAN
      BY <1>1, <3>1 DEF PauseTypeOK
    <3>3. PauseTypeOK' /\ Kept'
      BY <3>1, <3>2, Asks DEF Expected, Waiting
    <3> QED BY <3>1, <3>3, NotesAlone
  <2>2. CASE bridge # "active"
    BY <1>3, <1>11, <2>2 DEF ReleaseAgain, Doings, Waiting
  <2> QED BY <2>1, <2>2
<1>12. CASE NoRetry(o)
  BY <1>3, <1>12 DEF NoRetry, Doings, Waiting
<1>13. CASE NoteResume(o)
  <2>1. /\ doing[o] \in {"working", "failed"} /\ paused' = [paused EXCEPT ![o] = FALSE]
        /\ UNCHANGED <<bridge, requests, untaken, crossed>>
    BY <1>13 DEF NoteResume
  <2>2. /\ paused' \in [Operations -> BOOLEAN] /\ ~paused'[o]
        /\ \A p \in Operations \ {o} : paused'[p] = paused[p]
    BY <1>1, <2>1
  <2>3. CASE paused[o]
    <3>1. pauses' = pauses - 1 /\ Become(o, "ending")
      BY <1>13, <2>3 DEF NoteResume
    <3>2. NotesCounted' /\ pauses' \in Nat
      BY <2>1, <2>3, <3>1, NoteGivenBack
    <3>3. PauseTypeOK' /\ Kept'
      BY <1>1, <2>1, <2>2, <3>1, <3>2, MovesOn DEF Doings, Waiting
    <3> QED BY <3>2, <3>3
  <2>4. CASE ~paused[o]
    <3>1. UNCHANGED <<pauses, paused>> /\ Become(o, "none")
      BY <1>1, <1>13, <2>1, <2>4 DEF NoteResume
    <3>2. PauseTypeOK' /\ Kept'
      BY <1>1, <2>1, <2>2, <2>4, <3>1, MovesOn DEF Doings, Waiting
    <3> QED BY <3>1, <3>2, NotesAlone
  <2> QED BY <2>3, <2>4
<1>14. CASE SendResume(o)
  <2>1. PauseTypeOK' /\ Kept'
    BY <1>1, <1>2, <1>14, Asks DEF SendResume, Expected, Waiting, PauseTypeOK
  <2> QED BY <1>14, <2>1, NotesAlone DEF SendResume
<1> QED BY <1>4, <1>5, <1>6, <1>7, <1>8, <1>9, <1>10, <1>11, <1>12, <1>13, <1>14

-----------------------------------------------------------------------------
LEMMA PauseInitHolds == PauseInit => PauseIInv
<1> SUFFICES ASSUME PauseInit PROVE PauseIInv
  OBVIOUS
<1>1. PauseTypeOK
  <2>1. requests \in Seq([from : SUBSET Operations, what : {"release", "resume"}])
    BY DEF PauseInit
  <2> QED BY <2>1 DEF PauseInit, PauseTypeOK, Doings
<1>2. NotesCounted
  <2>1. Noted = {}
    BY DEF PauseInit, Noted
  <2> QED BY <2>1, FS_EmptySet DEF NotesCounted, PausesNoted, Noted, PauseInit
<1>3. Kept
  BY DEF PauseInit, Kept, PlacesPaused, RequestsOwned, RequestsAttended, ReleasesAnswered
<1> QED BY <1>1, <1>2, <1>3 DEF PauseIInv

LEMMA PauseStepKeeps == PauseIInv /\ [PauseNext]_pauseVars => PauseIInv'
<1> SUFFICES ASSUME PauseIInv, [PauseNext]_pauseVars PROVE PauseIInv'
  OBVIOUS
<1>1. ASSUME ServeRelease \/ ServeResume \/ BridgeDies \/ BridgeStarts \/ BridgeReopens
      PROVE  PauseIInv'
  <2>1. PauseTypeOK' /\ Kept'
    BY <1>1, Serves, Dies, ComesUp DEF PauseIInv
  <2>2. UNCHANGED <<pauses, paused>>
    BY <1>1 DEF ServeRelease, ServeResume, BridgeDies, BridgeStarts, BridgeReopens
  <2> QED BY <2>1, <2>2, NotesAlone DEF PauseIInv
<1>2. ASSUME NEW o \in Operations, GiveUpWaiting(o) PROVE PauseIInv'
  <2>1. UNCHANGED <<pauses, paused>>
    BY <1>2 DEF GiveUpWaiting
  <2> QED BY <1>2, <2>1, GivesUp, NotesAlone DEF PauseIInv
<1>3. ASSUME NEW o \in Operations,
             \/ ProbeBridge(o) \/ Decline(o) \/ NoteRelease(o) \/ SendRelease(o)
             \/ OpenCart(o) \/ CloseCart(o) \/ LookForPause(o) \/ ReleaseAgain(o)
             \/ NoRetry(o) \/ NoteResume(o) \/ SendResume(o)
      PROVE  PauseIInv'
  BY <1>3, Operates
<1>4. CASE UNCHANGED pauseVars
  BY <1>4 DEF pauseVars, PauseIInv, PauseTypeOK, NotesCounted, Noted, PausesNoted, Kept,
              PlacesPaused, RequestsOwned, RequestsAttended, ReleasesAnswered, WillResume
<1> QED BY <1>1, <1>2, <1>3, <1>4 DEF PauseNext

\* Every behaviour keeps the inductive invariant.
THEOREM PauseInvariant == PauseSpec => []PauseIInv
BY PauseInitHolds, PauseStepKeeps, PTL DEF PauseSpec

\* The queue, the notes and every operation keep their types.
THEOREM PauseTypesHold == PauseSpec => []PauseTypeOK
<1>1. PauseIInv => PauseTypeOK
  BY DEF PauseIInv
<1> QED BY PauseInvariant, <1>1, PTL

\* multi64d_pause_note: there are as many notes as operations in a pause.
THEOREM NotesAgree == PauseSpec => []PausesNoted
<1>1. PauseIInv => PausesNoted
  BY DEF PauseIInv, NotesCounted
<1> QED BY PauseInvariant, <1>1, PTL

\* withDaemonPaused: a release is answered for by a resume that follows it.
THEOREM GivenBack == PauseSpec => []BridgeGivenBack
<1>1. PauseIInv => BridgeGivenBack
  <2> SUFFICES ASSUME PauseIInv, \A o \in Operations : doing[o] = "none", requests = <<>>
               PROVE  bridge # "released" \/ untaken \/ crossed
    BY DEF BridgeGivenBack
  <2>1. \A o \in Operations : ~paused[o]
    BY DEF PauseIInv, Kept, PlacesPaused
  <2> QED BY <2>1 DEF PauseIInv, Kept, ReleasesAnswered, WillResume
<1> QED BY PauseInvariant, <1>1, PTL

-----------------------------------------------------------------------------
(* The close guard.                                                        *)

\* A report on its way is no newer than its window's last, and the last one
\* says what the window does.
ReportsTrue ==
  \A r \in reports :
    /\ r.seq <= seq[r.window]
    /\ r.seq = seq[r.window] => r.busy = Working(r.window)

\* The backend has heard a window's last report, or the report is on its way.
LatestOrComing ==
  \A w \in Windows :
    /\ latest[w].seq <= seq[w]
    /\ IF latest[w].seq = seq[w] THEN latest[w].busy = Working(w)
       ELSE \E r \in reports : r.window = w /\ r.seq = seq[w]

\* The exit for idleness came when the backend knew of no work.
IdleThen == exited = "idle" => ~GuardBusy

CloseIInv == CloseTypeOK /\ ReportsTrue /\ LatestOrComing /\ IdleThen /\ CloseNotForgotten

LEMMA CloseInitHolds == CloseInit => CloseIInv
<1> SUFFICES ASSUME CloseInit PROVE CloseIInv
  OBVIOUS
<1>1. /\ reading \in [Windows -> BOOLEAN] /\ operating \in [Windows -> BOOLEAN]
      /\ seq \in [Windows -> Nat] /\ reports = {} /\ told = {} /\ closing = FALSE
      /\ held = 0 /\ exited = "no"
  BY DEF CloseInit
<1>2. latest = [w \in Windows |-> [seq |-> 0, busy |-> FALSE]]
  BY DEF CloseInit
<1>3. CloseTypeOK
  <2>1. latest \in [Windows -> [seq : Nat, busy : BOOLEAN]]
    BY <1>2
  <2>2. held \in 0..ForceAfter /\ held < ForceAfter
    BY <1>1, ForceAfterAssumption
  <2>3. reports \subseteq [window : Windows, seq : Nat, busy : BOOLEAN]
    BY <1>1
  <2> QED BY <1>1, <2>1, <2>2, <2>3 DEF CloseTypeOK
<1>4. ReportsTrue /\ LatestOrComing
  <2> DEFINE first == [seq |-> 0, busy |-> FALSE]
  <2>1. ASSUME NEW w \in Windows
        PROVE  /\ latest[w].seq <= seq[w] /\ latest[w].seq = seq[w]
               /\ latest[w].busy = FALSE /\ Working(w) = FALSE
    <3>1. latest[w] = first /\ seq[w] = 0
      BY <1>2 DEF CloseInit
    <3>2. first.seq = 0 /\ first.busy = FALSE
      OBVIOUS
    <3>3. Working(w) = FALSE
      BY DEF CloseInit, Working
    <3> HIDE DEF first
    <3> QED BY <3>1, <3>2, <3>3
  <2> QED BY <1>1, <2>1, Zenon DEF ReportsTrue, LatestOrComing
<1>5. IdleThen /\ CloseNotForgotten
  BY DEF CloseInit, IdleThen, CloseNotForgotten, GuardBusy
<1> QED BY <1>3, <1>4, <1>5 DEF CloseIInv

\* A window whose work changes, in what it tells and what it is: the four
\* actions of a window's work differ in the work only.
WindowWorks(w) ==
  /\ exited = "no"
  /\ reading' \in [Windows -> BOOLEAN] /\ operating' \in [Windows -> BOOLEAN]
  /\ \A v \in Windows \ {w} : reading'[v] = reading[v] /\ operating'[v] = operating[v]
  /\ Report(w)
  /\ UNCHANGED guardVars

LEMMA WorkIsWindowWorks ==
  ASSUME CloseTypeOK, NEW w \in Windows,
         BeginRead(w) \/ EndRead(w) \/ BeginOperation(w) \/ EndOperation(w)
  PROVE  WindowWorks(w)
BY DEF CloseTypeOK, BeginRead, EndRead, BeginOperation, EndOperation, WindowWorks

\* The number of a new report is above all before it, so the reports on their
\* way stay no newer than the last, and the new one says what the window does.
LEMMA WindowWorksKeeps ==
  ASSUME CloseIInv, NEW w \in Windows, WindowWorks(w)
  PROVE  CloseIInv'
<1> USE DEF CloseIInv
<1>1. CASE Working(w)' = Working(w)
  <2>1. UNCHANGED <<seq, reports, guardVars>>
    BY <1>1 DEF WindowWorks, Report
  <2>2. \A v \in Windows : Working(v)' = Working(v)
    BY <1>1 DEF WindowWorks, Working
  <2>3. CloseTypeOK'
    BY <2>1 DEF WindowWorks, CloseTypeOK, guardVars
  <2>4. ReportsTrue'
    BY <2>1, <2>2 DEF ReportsTrue, CloseTypeOK
  <2>5. LatestOrComing'
    BY <2>1, <2>2 DEF LatestOrComing, guardVars
  <2>6. IdleThen' /\ CloseNotForgotten'
    BY <2>1 DEF IdleThen, CloseNotForgotten, GuardBusy, guardVars
  <2> QED BY <2>3, <2>4, <2>5, <2>6
<1>2. CASE Working(w)' # Working(w)
  <2> DEFINE new == [window |-> w, seq |-> seq[w] + 1, busy |-> Working(w)']
  <2>1. /\ seq' = [seq EXCEPT ![w] = @ + 1]
        /\ reports' = reports \cup {new}
        /\ UNCHANGED guardVars
    BY <1>2 DEF WindowWorks, Report
  <2>2. \A v \in Windows \ {w} : Working(v)' = Working(v) /\ seq'[v] = seq[v]
    BY <2>1 DEF WindowWorks, Working, CloseTypeOK
  <2>3. seq'[w] = seq[w] + 1 /\ seq[w] \in Nat
    BY <2>1 DEF CloseTypeOK
  <2>4. Working(w)' \in BOOLEAN
    BY DEF Working
  <2>5. CloseTypeOK'
    <3>1. new \in [window : Windows, seq : Nat, busy : BOOLEAN]
      BY <2>3, <2>4
    <3>2. seq' \in [Windows -> Nat]
      BY <2>1, <2>3 DEF CloseTypeOK
    <3> QED BY <2>1, <3>1, <3>2 DEF CloseTypeOK, WindowWorks, guardVars
  <2>6. ReportsTrue'
    <3> SUFFICES ASSUME NEW r \in reports'
                 PROVE  /\ r.seq <= seq'[r.window]
                        /\ r.seq = seq'[r.window] => r.busy = Working(r.window)'
      BY DEF ReportsTrue
    <3>1. CASE r = new
      BY <3>1, <2>3
    <3>2. CASE r \in reports /\ r.window = w
      <4>1. r.seq <= seq[w] /\ r.seq \in Nat
        BY <3>2 DEF ReportsTrue, CloseTypeOK
      <4> QED BY <3>2, <4>1, <2>3
    <3>3. CASE r \in reports /\ r.window # w
      <4>1. r.window \in Windows \ {w}
        BY <3>3 DEF CloseTypeOK
      <4> QED BY <3>3, <4>1, <2>2 DEF ReportsTrue
    <3> QED BY <3>1, <3>2, <3>3, <2>1
  <2>7. LatestOrComing'
    <3> SUFFICES ASSUME NEW v \in Windows
                 PROVE  /\ latest'[v].seq <= seq'[v]
                        /\ IF latest'[v].seq = seq'[v]
                           THEN latest'[v].busy = Working(v)'
                           ELSE \E r \in reports' : r.window = v /\ r.seq = seq'[v]
      BY DEF LatestOrComing
    <3>1. latest'[v] = latest[v] /\ latest[v].seq \in Nat /\ latest[v].seq <= seq[v]
      BY <2>1 DEF guardVars, CloseTypeOK, LatestOrComing
    <3>2. CASE v = w
      <4>1. latest'[v].seq < seq'[v]
        BY <3>1, <3>2, <2>3
      <4>2. new \in reports' /\ new.window = v /\ new.seq = seq'[v]
        BY <3>2, <2>1, <2>3
      <4> QED BY <4>1, <4>2, <3>1, <3>2, <2>3
    <3>3. CASE v # w
      BY <3>1, <3>3, <2>1, <2>2 DEF LatestOrComing
    <3> QED BY <3>2, <3>3
  <2>8. IdleThen' /\ CloseNotForgotten'
    BY <2>1 DEF IdleThen, CloseNotForgotten, GuardBusy, guardVars
  <2> QED BY <2>5, <2>6, <2>7, <2>8
<1> QED BY <1>1, <1>2

\* A report that is taken is newer than the last heard, so when it is the
\* window's last it is the one that was missing; an older one was not.
LEMMA SetBusyKeeps ==
  ASSUME CloseIInv, NEW r \in reports, SetBusy(r)
  PROVE  CloseIInv'
<1> USE DEF CloseIInv
<1> DEFINE w == r.window
<1>1. /\ exited = "no" /\ reports' = reports \ {r}
      /\ UNCHANGED <<reading, operating, seq, closing, told>>
  BY DEF SetBusy
<1>2. w \in Windows /\ r.seq \in Nat /\ r.busy \in BOOLEAN
  BY DEF CloseTypeOK
<1>3. \A v \in Windows : Working(v)' = Working(v)
  BY <1>1 DEF Working
<1>4. ReportsTrue'
  BY <1>1, <1>3 DEF ReportsTrue, CloseTypeOK
<1>5. CASE r.seq <= latest[w].seq
  <2>1. UNCHANGED <<latest, held, exited>>
    BY <1>5 DEF SetBusy
  <2>2. CloseTypeOK'
    BY <1>1, <2>1 DEF CloseTypeOK
  <2>3. LatestOrComing'
    <3> SUFFICES ASSUME NEW v \in Windows
                 PROVE  /\ latest[v].seq <= seq[v]
                        /\ IF latest[v].seq = seq[v]
                           THEN latest[v].busy = Working(v)
                           ELSE \E p \in reports' : p.window = v /\ p.seq = seq[v]
      BY <1>1, <1>3, <2>1 DEF LatestOrComing
    <3>1. CASE latest[v].seq = seq[v]
      BY <3>1 DEF LatestOrComing
    <3>2. CASE latest[v].seq # seq[v]
      <4>1. PICK p \in reports : p.window = v /\ p.seq = seq[v]
        BY <3>2 DEF LatestOrComing
      <4>2. p # r
        <5>1. latest[v].seq \in Nat /\ seq[v] \in Nat /\ latest[v].seq <= seq[v]
          BY DEF CloseTypeOK, LatestOrComing
        <5> QED BY <3>2, <4>1, <5>1, <1>2, <1>5
      <4>3. p \in reports'
        BY <1>1, <4>2
      <4>4. latest[v].seq <= seq[v]
        BY DEF LatestOrComing
      <4> QED BY <3>2, <4>1, <4>3, <4>4
    <3> QED BY <3>1, <3>2
  <2>4. IdleThen' /\ CloseNotForgotten'
    BY <1>1, <2>1 DEF IdleThen, CloseNotForgotten, GuardBusy
  <2> QED BY <1>4, <2>2, <2>3, <2>4
<1>6. CASE ~(r.seq <= latest[w].seq)
  <2> DEFINE heard == [seq |-> r.seq, busy |-> r.busy]
             idle == ~r.busy /\ ~(\E v \in Windows \ {w} : latest[v].busy)
  <2>1. /\ latest' = [latest EXCEPT ![w] = heard]
        /\ held' = IF idle THEN 0 ELSE held
        /\ exited' = IF closing /\ idle THEN "idle" ELSE "no"
    BY <1>6 DEF SetBusy
  <2>2. heard \in [seq : Nat, busy : BOOLEAN] /\ heard.seq = r.seq /\ heard.busy = r.busy
    BY <1>2
  <2> HIDE DEF heard
  <2>3. latest'[w] = heard /\ \A v \in Windows \ {w} : latest'[v] = latest[v]
    BY <1>2, <2>1 DEF CloseTypeOK
  <2>4. GuardBusy' <=> ~idle
    BY <1>2, <2>2, <2>3 DEF GuardBusy
  <2>5. CloseTypeOK'
    <3>1. latest' \in [Windows -> [seq : Nat, busy : BOOLEAN]]
      BY <2>1, <2>2 DEF CloseTypeOK
    <3>2. held' \in 0..ForceAfter /\ held' < ForceAfter
      BY <1>1, <2>1, ForceAfterAssumption DEF CloseTypeOK
    <3>3. exited' \in {"no", "idle", "forced"}
      BY <2>1
    <3>4. reports' \subseteq [window : Windows, seq : Nat, busy : BOOLEAN]
      BY <1>1 DEF CloseTypeOK
    <3> QED BY <1>1, <3>1, <3>2, <3>3, <3>4 DEF CloseTypeOK
  <2>6. LatestOrComing'
    <3> SUFFICES ASSUME NEW v \in Windows
                 PROVE  /\ latest'[v].seq <= seq[v]
                        /\ IF latest'[v].seq = seq[v]
                           THEN latest'[v].busy = Working(v)
                           ELSE \E p \in reports' : p.window = v /\ p.seq = seq[v]
      BY <1>1, <1>3 DEF LatestOrComing
    <3>1. CASE v = w
      <4>1. latest'[v].seq = r.seq /\ latest'[v].busy = r.busy
        BY <2>2, <2>3, <3>1
      <4>2. r.seq <= seq[v]
        BY <3>1 DEF ReportsTrue
      <4>3. CASE r.seq = seq[v]
        <5>1. r.busy = Working(v)
          BY <3>1, <4>3 DEF ReportsTrue
        <5> QED BY <4>1, <4>2, <4>3, <5>1
      <4>4. CASE r.seq # seq[v]
        <5>1. latest[v].seq # seq[v]
          <6>1. latest[v].seq \in Nat /\ seq[v] \in Nat
            BY DEF CloseTypeOK
          <6> QED BY <6>1, <1>2, <1>6, <3>1, <4>2
        <5>2. PICK p \in reports : p.window = v /\ p.seq = seq[v]
          BY <5>1 DEF LatestOrComing
        <5>3. p \in reports'
          BY <1>1, <4>4, <5>2
        <5> QED BY <4>1, <4>2, <4>4, <5>2, <5>3
      <4> QED BY <4>3, <4>4
    <3>2. CASE v # w
      <4>1. latest'[v] = latest[v] /\ latest[v].seq <= seq[v]
        BY <2>3, <3>2 DEF LatestOrComing
      <4>2. CASE latest[v].seq = seq[v]
        BY <4>1, <4>2 DEF LatestOrComing
      <4>3. CASE latest[v].seq # seq[v]
        <5>1. PICK p \in reports : p.window = v /\ p.seq = seq[v]
          BY <4>3 DEF LatestOrComing
        <5>2. p \in reports'
          BY <1>1, <3>2, <5>1
        <5> QED BY <4>1, <4>3, <5>1, <5>2
      <4> QED BY <4>2, <4>3
    <3> QED BY <3>1, <3>2
  <2>7. IdleThen' /\ CloseNotForgotten'
    BY <1>1, <2>1, <2>4 DEF IdleThen, CloseNotForgotten
  <2> QED BY <1>4, <2>5, <2>6, <2>7
<1> QED BY <1>5, <1>6

\* Closes and what is told of them leave the windows and their reports alone.
LEMMA ClosesKeep ==
  ASSUME CloseIInv,
         \/ \E w \in Windows : CloseClicked(w) \/ HearClose(w)
         \/ PickerCloses
  PROVE  CloseIInv'
<1> USE DEF CloseIInv
<1>1. exited = "no" /\ UNCHANGED <<reading, operating, seq, reports, latest>>
  BY DEF CloseClicked, HearClose, PickerCloses
<1>2. \A v \in Windows : Working(v)' = Working(v)
  BY <1>1 DEF Working
<1>3. GuardBusy' <=> GuardBusy
  BY <1>1 DEF GuardBusy
<1>4. ReportsTrue' /\ LatestOrComing'
  BY <1>1, <1>2 DEF ReportsTrue, LatestOrComing, CloseTypeOK
<1>5. ASSUME NEW w \in Windows, CloseClicked(w)
      PROVE  CloseTypeOK' /\ IdleThen' /\ CloseNotForgotten'
  <2>1. CASE ~GuardBusy
    BY <1>1, <1>3, <1>5, <2>1
    DEF CloseClicked, CloseTypeOK, IdleThen, CloseNotForgotten
  <2>2. CASE GuardBusy
    <3>1. held' = held + 1 /\ closing' = closing
      BY <1>5, <2>2 DEF CloseClicked
    <3>2. held' \in 0..ForceAfter
      BY <1>1, <3>1, ForceAfterAssumption DEF CloseTypeOK
    <3>3. /\ exited' \in {"no", "forced"} /\ told' \subseteq Windows
          /\ exited' = "no" => held' < ForceAfter
      BY <1>1, <1>5, <2>2, <3>1, <3>2, ForceAfterAssumption DEF CloseClicked, CloseTypeOK
    <3>4. CloseTypeOK'
      BY <1>1, <3>1, <3>2, <3>3 DEF CloseTypeOK
    <3> QED BY <3>3, <3>4, <1>3, <2>2 DEF IdleThen, CloseNotForgotten
  <2> QED BY <2>1, <2>2
<1>6. ASSUME NEW w \in Windows, HearClose(w)
      PROVE  CloseTypeOK' /\ IdleThen' /\ CloseNotForgotten'
  <2>1. told' \subseteq Windows /\ held' = held
    BY <1>6 DEF HearClose, CloseTypeOK
  <2>2. \/ UNCHANGED <<closing, exited>>
        \/ closing' = TRUE /\ exited' = IF GuardBusy THEN exited ELSE "idle"
    BY <1>6 DEF HearClose, CloseWhenIdle
  <2>3. CloseTypeOK'
    BY <1>1, <2>1, <2>2 DEF CloseTypeOK
  <2>4. IdleThen' /\ CloseNotForgotten'
    <3>1. CASE GuardBusy
      BY <1>1, <1>3, <2>1, <2>2, <3>1 DEF IdleThen, CloseNotForgotten
    <3>2. CASE ~GuardBusy
      BY <1>1, <1>3, <2>1, <2>2, <3>2 DEF IdleThen, CloseNotForgotten
    <3> QED BY <3>1, <3>2
  <2> QED BY <2>3, <2>4
<1>7. ASSUME PickerCloses
      PROVE  CloseTypeOK' /\ IdleThen' /\ CloseNotForgotten'
  BY <1>1, <1>3, <1>7
  DEF PickerCloses, CloseWhenIdle, CloseTypeOK, IdleThen, CloseNotForgotten
<1> QED BY <1>4, <1>5, <1>6, <1>7

LEMMA CloseStepKeeps == CloseIInv /\ [CloseNext]_closeVars => CloseIInv'
<1> SUFFICES ASSUME CloseIInv, [CloseNext]_closeVars PROVE CloseIInv'
  OBVIOUS
<1>1. ASSUME NEW w \in Windows,
             BeginRead(w) \/ EndRead(w) \/ BeginOperation(w) \/ EndOperation(w)
      PROVE  CloseIInv'
  BY <1>1, WorkIsWindowWorks, WindowWorksKeeps DEF CloseIInv
<1>2. ASSUME NEW r \in reports, SetBusy(r) PROVE CloseIInv'
  BY <1>2, SetBusyKeeps
<1>3. ASSUME (\E w \in Windows : CloseClicked(w) \/ HearClose(w)) \/ PickerCloses
      PROVE  CloseIInv'
  BY <1>3, ClosesKeep
<1>4. CASE UNCHANGED closeVars
  BY <1>4 DEF closeVars, CloseIInv, CloseTypeOK, ReportsTrue, LatestOrComing, IdleThen,
              CloseNotForgotten, GuardBusy, Working
<1> QED BY <1>1, <1>2, <1>3, <1>4 DEF CloseNext

\* Every behaviour keeps the inductive invariant.
THEOREM CloseInvariant == CloseSpec => []CloseIInv
BY CloseInitHolds, CloseStepKeeps, PTL DEF CloseSpec

\* The guard's types: in particular a close is held fewer than FORCE_AFTER
\* times while Xfer64 runs.
THEOREM CloseTypesHold == CloseSpec => []CloseTypeOK
<1>1. CloseIInv => CloseTypeOK
  BY DEF CloseIInv
<1> QED BY CloseInvariant, <1>1, PTL

\* set_busy and close_when_idle exit on idleness only when no window works
\* whose report has arrived.
THEOREM ExitWaitsForWork == CloseSpec => []ExitsWhenIdle
<1>1. CloseIInv => ExitsWhenIdle
  <2> SUFFICES ASSUME CloseIInv, exited = "idle", NEW w \in Windows, Working(w)
               PROVE  \E r \in reports : r.window = w /\ r.seq = seq[w] /\ r.busy
    BY DEF ExitsWhenIdle
  <2>1. ~latest[w].busy
    BY DEF CloseIInv, IdleThen, GuardBusy
  <2>2. latest[w].seq # seq[w]
    BY <2>1 DEF CloseIInv, LatestOrComing
  <2>3. PICK r \in reports : r.window = w /\ r.seq = seq[w]
    BY <2>2 DEF CloseIInv, LatestOrComing
  <2>4. r.busy = Working(w)
    BY <2>3 DEF CloseIInv, ReportsTrue
  <2> QED BY <2>3, <2>4
<1> QED BY CloseInvariant, <1>1, PTL

\* The backend knows who works once all reports have come, whatever order
\* explorer_set_busy heard them in.
THEOREM GuardKnows == CloseSpec => []GuardCatchesUp
<1>1. CloseIInv => GuardCatchesUp
  BY DEF CloseIInv, LatestOrComing, GuardCatchesUp
<1> QED BY CloseInvariant, <1>1, PTL

\* A close that waits is not left waiting, and held closes do not add up over
\* spells of work.
THEOREM CloseRemembered == CloseSpec => []CloseNotForgotten
<1>1. CloseIInv => CloseNotForgotten
  BY DEF CloseIInv
<1> QED BY CloseInvariant, <1>1, PTL
=============================================================================
