-------------------------- MODULE SerialLinkProofs --------------------------
(***************************************************************************)
(* Proofs about SerialLink: for any number of WebSocket and HTTP clients,  *)
(* any cart and any backoff ceiling.                                       *)
(***************************************************************************)
EXTENDS SerialLink, SequenceTheorems, TLAPS

LOCAL INSTANCE SequencesExt

USE TasksAssumption, ProAssumption, CapAssumption

\* The types of the lock's own variables.
LockTypes ==
  /\ holder \in Tasks \cup {None}
  /\ queue \in Seq(Tasks)
  /\ phase \in [Tasks -> Holding \cup {"idle", "queued"}]

\* What a task's step may do to the phases of the others: hand one of them
\* the lock, nothing else.
OthersWait(t) ==
  \A x \in Tasks \ {t} :
     \/ phase'[x] = phase[x]
     \/ phase[x] = "queued" /\ phase'[x] = "granted"

\* Queueing for the lock keeps the lock and its queue in agreement.
LEMMA LockStep ==
  ASSUME LockTypes, HolderInside, QueueExact,
         NEW t \in Tasks, phase[t] = "idle", Lock(t)
  PROVE  /\ LockTypes' /\ HolderInside' /\ QueueExact'
         /\ phase'[t] \in {"queued", "granted"}
         /\ \A x \in Tasks \ {t} : phase'[x] = phase[x]
<1>1. CASE holder = None
  BY <1>1 DEF LockTypes, HolderInside, QueueExact, Lock, Tasks, Holding
<1>2. CASE holder # None
  <2>1. /\ queue' = Append(queue, t) /\ holder' = holder
        /\ phase' = [phase EXCEPT ![t] = "queued"]
    BY <1>2 DEF Lock
  <2>2. /\ queue' \in Seq(Tasks) /\ Len(queue') = Len(queue) + 1
        /\ queue'[Len(queue) + 1] = t
        /\ \A i \in 1..Len(queue) : queue'[i] = queue[i]
    BY <2>1 DEF LockTypes
  <2>3. LockTypes' /\ HolderInside'
    BY <2>1, <2>2 DEF LockTypes, HolderInside, Holding
  <2>4. QueueExact'
    BY <1>2, <2>1, <2>2 DEF LockTypes, QueueExact
  <2>5. QED
    BY <2>1, <2>3, <2>4 DEF LockTypes
<1>3. QED
  BY <1>1, <1>2

\* Releasing the lock hands it to the head of the queue.
LEMMA UnlockStep ==
  ASSUME LockTypes, HolderInside, QueueExact,
         NEW t \in Tasks, phase[t] \in Holding, Unlock(t)
  PROVE  /\ LockTypes' /\ HolderInside' /\ QueueExact'
         /\ phase'[t] = "idle"
         /\ OthersWait(t)
<1>1. CASE queue = <<>>
  BY <1>1 DEF LockTypes, HolderInside, QueueExact, Unlock, OthersWait, Holding
<1>2. CASE queue # <<>>
  <2>1. /\ holder' = Head(queue) /\ queue' = Tail(queue)
        /\ phase' = [phase EXCEPT ![t] = "idle", ![Head(queue)] = "granted"]
    BY <1>2 DEF Unlock
  <2>2. /\ Len(queue) \in Nat \ {0} /\ Head(queue) = queue[1] /\ queue[1] \in Tasks
        /\ queue' \in Seq(Tasks) /\ Len(queue') = Len(queue) - 1
        /\ \A i \in 1..Len(queue') : queue'[i] = queue[i + 1]
    BY <1>2, <2>1 DEF LockTypes
  <2>3. phase[queue[1]] = "queued" /\ queue[1] # t
    BY <2>2 DEF QueueExact, Holding
  <2>4. LockTypes' /\ HolderInside'
    BY <2>1, <2>2, <2>3 DEF LockTypes, HolderInside, Holding
  <2>5. QueueExact'
    <3>1. ASSUME NEW x \in Tasks
          PROVE  phase'[x] = "queued" <=> \E i \in 1..Len(queue') : queue'[i] = x
      <4>1. phase'[x] = "queued" <=> phase[x] = "queued" /\ x # queue[1]
        BY <2>1, <2>2, <2>3 DEF LockTypes, Holding
      <4>2. phase[x] = "queued" /\ x # queue[1] <=> \E i \in 2..Len(queue) : queue[i] = x
        BY <2>2 DEF QueueExact
      <4>3. (\E i \in 2..Len(queue) : queue[i] = x) <=> \E i \in 1..Len(queue') : queue'[i] = x
        <5>1. ASSUME NEW i \in 2..Len(queue), queue[i] = x
              PROVE  \E j \in 1..Len(queue') : queue'[j] = x
          <6>1. i - 1 \in 1..Len(queue') /\ queue'[i - 1] = x
            BY <5>1, <2>2
          <6>2. QED
            BY <6>1
        <5>2. QED
          BY <5>1, <2>2
      <4>4. QED
        BY <4>1, <4>2, <4>3
    <3>2. \A i, j \in 1..Len(queue') : queue'[i] = queue'[j] => i = j
      BY <2>2 DEF QueueExact
    <3>3. holder' # None
      BY <2>1, <2>2
    <3>4. QED
      BY <3>1, <3>2, <3>3 DEF QueueExact
  <2>6. QED
    BY <2>1, <2>2, <2>3, <2>4, <2>5 DEF LockTypes, OthersWait, Holding
<1>3. QED
  BY <1>1, <1>2

\* A waiter that gives up leaves nothing of itself in the queue.
LEMMA LeaveStep ==
  ASSUME LockTypes, HolderInside, QueueExact,
         NEW t \in Tasks, LeaveQueue(t)
  PROVE  /\ LockTypes' /\ HolderInside' /\ QueueExact'
         /\ phase'[t] = "idle"
         /\ \A x \in Tasks \ {t} : phase'[x] = phase[x]
<1>1. PICK k \in 1..Len(queue) : queue[k] = t /\ queue' = RemoveAt(queue, k)
  BY DEF LeaveQueue
<1>2. phase[t] = "queued" /\ phase' = [phase EXCEPT ![t] = "idle"] /\ holder' = holder
  BY DEF LeaveQueue
<1>3. /\ queue' \in Seq(Tasks) /\ Len(queue') = Len(queue) - 1
      /\ \A i \in 1..Len(queue') : queue'[i] = IF i < k THEN queue[i] ELSE queue[i + 1]
  <2>1. queue' = SubSeq(queue, 1, k - 1) \o SubSeq(queue, k + 1, Len(queue))
    BY <1>1 DEF RemoveAt
  <2>2. queue \in Seq(Tasks) /\ Len(queue) \in Nat
    BY DEF LockTypes
  <2>3. /\ SubSeq(queue, 1, k - 1) \in Seq(Tasks)
        /\ Len(SubSeq(queue, 1, k - 1)) = k - 1
        /\ \A i \in 1..(k - 1) : SubSeq(queue, 1, k - 1)[i] = queue[i]
    BY <2>2
  <2>4. /\ SubSeq(queue, k + 1, Len(queue)) \in Seq(Tasks)
        /\ Len(SubSeq(queue, k + 1, Len(queue))) = Len(queue) - k
        /\ \A i \in 1..(Len(queue) - k) : SubSeq(queue, k + 1, Len(queue))[i] = queue[i + k]
    BY <2>2
  <2> DEFINE a == SubSeq(queue, 1, k - 1)
             b == SubSeq(queue, k + 1, Len(queue))
  <2> HIDE DEF a, b
  <2>5. a \in Seq(Tasks) /\ b \in Seq(Tasks) /\ Len(a) = k - 1 /\ Len(b) = Len(queue) - k
    BY <2>3, <2>4 DEF a, b
  <2>6. /\ queue' \in Seq(Tasks) /\ Len(queue') = Len(a) + Len(b)
        /\ \A i \in 1..(Len(a) + Len(b)) :
              queue'[i] = IF i <= Len(a) THEN a[i] ELSE b[i - Len(a)]
    <3>1. queue' = a \o b
      BY <2>1 DEF a, b
    <3>2. QED
      BY <3>1, <2>5, ConcatProperties
  <2>7. Len(queue') = Len(queue) - 1
    BY <2>2, <2>5, <2>6
  <2>8. ASSUME NEW i \in 1..Len(queue')
        PROVE  queue'[i] = IF i < k THEN queue[i] ELSE queue[i + 1]
    <3>1. CASE i < k
      <4>1. queue'[i] = a[i]
        BY <3>1, <2>2, <2>5, <2>6, <2>7
      <4>2. QED
        BY <3>1, <4>1, <2>3 DEF a
    <3>2. CASE i >= k
      <4>1. queue'[i] = b[i - (k - 1)]
        BY <3>2, <2>2, <2>5, <2>6, <2>7
      <4>2. i - (k - 1) \in 1..(Len(queue) - k) /\ (i - (k - 1)) + k = i + 1
        BY <3>2, <2>2, <2>7
      <4>3. QED
        BY <3>2, <4>1, <4>2, <2>4 DEF a, b
    <3>3. QED
      BY <3>1, <3>2, <2>2, <2>7
  <2>9. QED
    BY <2>6, <2>7, <2>8
<1>4. LockTypes' /\ HolderInside'
  BY <1>2, <1>3 DEF LockTypes, HolderInside, Holding
<1>5. QueueExact'
  <2>1. ASSUME NEW x \in Tasks, x # t
        PROVE  (\E i \in 1..Len(queue) : queue[i] = x) <=> \E i \in 1..Len(queue') : queue'[i] = x
    <3>1. ASSUME NEW i \in 1..Len(queue), queue[i] = x
          PROVE  \E j \in 1..Len(queue') : queue'[j] = x
      <4>1. CASE i < k
        <5>1. i \in 1..Len(queue') /\ queue'[i] = x
          BY <3>1, <4>1, <1>3 DEF LockTypes
        <5>2. QED
          BY <5>1
      <4>2. CASE i > k
        <5>1. i - 1 \in 1..Len(queue') /\ queue'[i - 1] = x
          BY <3>1, <4>2, <1>3 DEF LockTypes
        <5>2. QED
          BY <5>1
      <4>3. QED
        BY <4>1, <4>2, <3>1, <2>1, <1>1
    <3>2. ASSUME NEW i \in 1..Len(queue'), queue'[i] = x
          PROVE  \E j \in 1..Len(queue) : queue[j] = x
      <4>1. i \in 1..Len(queue) /\ i + 1 \in 1..Len(queue)
        BY <3>2, <1>3 DEF LockTypes
      <4>2. QED
        BY <3>2, <4>1, <1>3
    <3>3. QED
      BY <3>1, <3>2
  <2>2. ~ \E i \in 1..Len(queue') : queue'[i] = t
    <3>1. ASSUME NEW i \in 1..Len(queue'), queue'[i] = t
          PROVE  FALSE
      <4>1. i \in 1..Len(queue) /\ i + 1 \in 1..Len(queue)
        BY <3>1, <1>3 DEF LockTypes
      <4>2. QED
        BY <3>1, <4>1, <1>1, <1>3 DEF QueueExact
    <3>2. QED
      BY <3>1
  <2>3. ASSUME NEW i \in 1..Len(queue'), NEW j \in 1..Len(queue'), queue'[i] = queue'[j]
        PROVE  i = j
    <3>1. /\ i \in 1..Len(queue) /\ i + 1 \in 1..Len(queue)
          /\ j \in 1..Len(queue) /\ j + 1 \in 1..Len(queue)
      BY <1>3 DEF LockTypes
    <3>2. QED
      BY <2>3, <3>1, <1>3 DEF QueueExact
  <2>4. \A x \in Tasks : x # t => phase'[x] = phase[x]
    BY <1>2 DEF LockTypes
  <2>5. holder' = None => queue' = <<>>
    BY <1>1, <1>2, <1>3 DEF QueueExact
  <2>6. phase'[t] = "idle"
    BY <1>2 DEF LockTypes
  <2>7. QED
    BY <2>1, <2>2, <2>3, <2>4, <2>5, <2>6 DEF QueueExact
<1>6. QED
  BY <1>2, <1>4, <1>5 DEF LockTypes

\* Moving on inside the lock disturbs nobody.
LEMMA ToStep ==
  ASSUME LockTypes, HolderInside, QueueExact,
         NEW t \in Tasks, phase[t] \in Holding, NEW p \in Holding, To(t, p)
  PROVE  /\ LockTypes' /\ HolderInside' /\ QueueExact'
         /\ phase'[t] = p
         /\ \A x \in Tasks \ {t} : phase'[x] = phase[x]
BY DEF LockTypes, HolderInside, QueueExact, To, Holding

-----------------------------------------------------------------------------
(* The inductive invariant.                                                *)

LEMMA InitIInv == Init => IInv
<1> SUFFICES ASSUME Init PROVE IInv
  OBVIOUS
<1>1. TypeOK
  BY DEF Init, TypeOK, Ops, Answers, Holding, Tasks
<1>2. LockDiscipline
  BY DEF Init, LockDiscipline, HolderInside, QueueExact, OpWhileBusy, Holding, Tasks
<1>3. PhasesByTask /\ PhasesAndPipe /\ PipeExplained
  BY DEF Init, PhasesByTask, PhasesAndPipe, PipeExplained, NoMixedStream, Tasks
<1>4. QED
  BY <1>1, <1>2, <1>3 DEF IInv

LEMMA IInvLock ==
  ASSUME IInv
  PROVE  LockTypes /\ HolderInside /\ QueueExact
BY DEF IInv, TypeOK, LockDiscipline, LockTypes

\* Whoever is inside the lock is alone there.
LEMMA Alone ==
  ASSUME IInv, NEW t \in Tasks, phase[t] \in Holding
  PROVE  \A x \in Tasks \ {t} : phase[x] \in {"idle", "queued"}
BY DEF IInv, TypeOK, LockDiscipline, HolderInside

\* What is left to show of a step once its lock part is understood: t is the
\* task that moves, and the others keep their phases or are handed the lock.
LEMMA PhasesKept ==
  ASSUME IInv, NEW t \in Tasks, OthersWait(t), phase'[t] \in {"idle", "queued", "granted"},
         UNCHANGED pipeVars, phase[t] \in {"idle", "queued", "granted"},
         UNCHANGED op \/ (t \in Clients /\ \A c \in Clients \ {t} : op'[c] = op[c])
  PROVE  PhasesByTask' /\ PhasesAndPipe' /\ PipeExplained'
<1> USE DEF pipeVars
<1>1. \A x \in Tasks : \A p \in {"closing", "opening", "faulting"} : phase'[x] = p <=> phase[x] = p
  BY DEF OthersWait
<1>2. PhasesByTask'
  BY <1>1 DEF IInv, PhasesByTask, Tasks
<1>3. PhasesAndPipe'
  BY <1>1 DEF IInv, PhasesAndPipe, Tasks
<1>4. PipeExplained'
  BY <1>1 DEF IInv, PipeExplained, NoMixedStream
<1>5. QED
  BY <1>2, <1>3, <1>4

\* A turn that ends leaves every task outside, but perhaps for the next holder.
LEMMA TurnEnds ==
  ASSUME IInv, NEW t \in Tasks, phase[t] \in Holding, Unlock(t)
  PROVE  /\ LockTypes' /\ HolderInside' /\ QueueExact' /\ OthersWait(t)
         /\ phase'[t] = "idle"
         /\ \A x \in Tasks : phase'[x] \in {"idle", "queued", "granted"}
<1>1. /\ LockTypes' /\ HolderInside' /\ QueueExact' /\ OthersWait(t)
      /\ phase'[t] = "idle"
  BY IInvLock, UnlockStep
<1>2. QED
  BY <1>1, Alone DEF OthersWait

\* A turn that goes on leaves the others where they wait.
LEMMA TurnGoesOn ==
  ASSUME IInv, NEW t \in Tasks, phase[t] \in Holding, NEW p \in Holding, To(t, p)
  PROVE  /\ LockTypes' /\ HolderInside' /\ QueueExact'
         /\ phase'[t] = p
         /\ \A x \in Tasks \ {t} : phase'[x] = phase[x] /\ phase[x] \in {"idle", "queued"}
BY IInvLock, ToStep, Alone

LEMMA NextIInv == IInv /\ [Next]_vars => IInv'
<1> SUFFICES ASSUME IInv, [Next]_vars PROVE IInv'
  OBVIOUS
<1>a. LockTypes /\ HolderInside /\ QueueExact
  BY IInvLock
<1>b. Reader \in Tasks /\ Writers \subseteq Tasks /\ Clients \subseteq Tasks
  BY DEF Tasks
<1>c. /\ Reader \notin Clients /\ Reader \notin Writers
      /\ \A w \in Writers : w \notin Clients
  OBVIOUS
<1> USE DEF pipeVars, requestVars, backoffVars, worldVars
<1>1. ASSUME ReaderPass
      PROVE  IInv'
  <2>1. phase[Reader] = "idle" /\ Lock(Reader)
    BY <1>1 DEF ReaderPass
  <2>2. /\ LockTypes' /\ HolderInside' /\ QueueExact' /\ OthersWait(Reader)
        /\ phase'[Reader] \in {"queued", "granted"}
        /\ \A x \in Tasks \ {Reader} : phase'[x] = phase[x]
    BY <1>a, <1>b, <2>1, LockStep DEF OthersWait
  <2>3. TypeOK'
    BY <1>1, <2>2 DEF ReaderPass, Ops, Answers, IInv, TypeOK, LockTypes
  <2>4. OpWhileBusy'
    BY <1>1, <1>b, <1>c, <2>2 DEF ReaderPass, Ops, IInv, TypeOK, LockDiscipline, OpWhileBusy
  <2>5. PhasesByTask' /\ PhasesAndPipe' /\ PipeExplained'
    BY <1>1, <1>b, <2>1, <2>2, PhasesKept DEF ReaderPass, IInv, TypeOK
  <2>6. QED
    BY <2>2, <2>3, <2>4, <2>5 DEF IInv, LockDiscipline
<1>2. ASSUME ReaderReleased \/ ReaderBackingOff \/ ReaderNoPort \/ ReaderReads
      PROVE  IInv'
  <2>1. phase[Reader] = "granted" /\ Unlock(Reader)
    BY <1>2 DEF ReaderReleased, ReaderBackingOff, ReaderNoPort, ReaderReads, ReaderGranted
  <2>2. /\ LockTypes' /\ HolderInside' /\ QueueExact' /\ OthersWait(Reader)
        /\ phase'[Reader] = "idle"
    BY <1>b, <2>1, TurnEnds DEF Holding
  <2>3. TypeOK'
    BY <1>2, <2>2 DEF ReaderReleased, ReaderBackingOff, ReaderNoPort, ReaderReads, ReaderGranted, BackoffReset, BackoffFailed, Least, Reply, Answers, Ops, IInv, TypeOK, LockTypes
  <2>4. OpWhileBusy'
    BY <1>2, <1>b, <1>c, <2>2 DEF ReaderReleased, ReaderBackingOff, ReaderNoPort, ReaderReads, ReaderGranted, Reply, IInv, TypeOK, LockDiscipline, OpWhileBusy, OthersWait
  <2>5. PhasesByTask' /\ PhasesAndPipe' /\ PipeExplained'
    BY <1>2, <1>b, <2>1, <2>2, PhasesKept DEF ReaderReleased, ReaderBackingOff, ReaderNoPort, ReaderReads, ReaderGranted, Reply, IInv, TypeOK
  <2>6. QED
    BY <2>2, <2>3, <2>4, <2>5 DEF IInv, LockDiscipline
<1>3. ASSUME ReaderOpen
      PROVE  IInv'
  <2>1. phase[Reader] = "granted" /\ To(Reader, "opening")
    BY <1>3 DEF ReaderOpen, OpenPort, ReaderGranted
  <2>2. /\ LockTypes' /\ HolderInside' /\ QueueExact'
        /\ phase'[Reader] = "opening"
        /\ \A x \in Tasks \ {Reader} : phase'[x] = phase[x] /\ phase[x] \in {"idle", "queued"}
    BY <1>b, <2>1, TurnGoesOn DEF Holding
  <2>3. TypeOK'
    BY <1>3, <2>2 DEF ReaderOpen, OpenPort, ReaderGranted, IInv, TypeOK, LockTypes
  <2>4. OpWhileBusy'
    BY <1>3, <1>b, <1>c, <2>1, <2>2 DEF ReaderOpen, OpenPort, ReaderGranted, IInv, TypeOK, LockDiscipline, OpWhileBusy
  <2>5. PhasesByTask' /\ PhasesAndPipe' /\ PipeExplained'
    <3>1. PhasesByTask'
      BY <1>3, <1>b, <1>c, <2>2 DEF ReaderOpen, OpenPort, ReaderGranted, PhasesByTask, Tasks
    <3>2. PhasesAndPipe'
      BY <1>3, <1>b, <1>c, <2>2 DEF ReaderOpen, OpenPort, ReaderGranted, PhasesAndPipe, Tasks
    <3>3. PipeExplained'
      BY <1>3, <1>b, <2>1, <2>2 DEF ReaderOpen, OpenPort, ReaderGranted, IInv, TypeOK, PipeExplained, NoMixedStream
    <3>4. QED
      BY <3>1, <3>2, <3>3
  <2>6. QED
    BY <2>2, <2>3, <2>4, <2>5 DEF IInv, LockDiscipline
<1>4. ASSUME ReaderReopened
      PROVE  IInv'
  <2>1. phase[Reader] = "opening" /\ Unlock(Reader)
    BY <1>4 DEF ReaderReopened, OpenSucceeds
  <2>2. /\ LockTypes' /\ HolderInside' /\ QueueExact' /\ OthersWait(Reader)
        /\ phase'[Reader] = "idle"
        /\ \A x \in Tasks : phase'[x] \in {"idle", "queued", "granted"}
    BY <1>b, <2>1, TurnEnds DEF Holding
  <2>3. TypeOK'
    BY <1>4, <2>2 DEF ReaderReopened, OpenSucceeds, BackoffReset, BackoffFailed, Least, Reply, Answers, IInv, TypeOK, LockTypes
  <2>4. OpWhileBusy'
    BY <1>4, <1>b, <1>c, <2>2 DEF ReaderReopened, OpenSucceeds, Reply, IInv, TypeOK, LockDiscipline, OpWhileBusy, OthersWait
  <2>5. PhasesByTask' /\ PhasesAndPipe' /\ PipeExplained'
    <3>1. \A x \in Tasks \ {Reader} : phase[x] \in {"idle", "queued"}
      BY <1>b, <2>1, Alone DEF Holding
    <3>2. PhasesByTask' /\ PhasesAndPipe'
      BY <1>b, <2>2 DEF PhasesByTask, PhasesAndPipe
    <3>3. PipeExplained'
      BY <1>4, <1>b, <2>1, <2>2, <3>1
         DEF ReaderReopened, OpenSucceeds, IInv, TypeOK, PhasesAndPipe, PipeExplained, NoMixedStream
    <3>4. QED
      BY <3>2, <3>3
  <2>6. QED
    BY <2>2, <2>3, <2>4, <2>5 DEF IInv, LockDiscipline
<1>5. ASSUME ReaderRetryOpen
      PROVE  IInv'
  <2>1. phase[Reader] = "opening" /\ Unlock(Reader)
    BY <1>5 DEF ReaderRetryOpen, OpenFails
  <2>2. /\ LockTypes' /\ HolderInside' /\ QueueExact' /\ OthersWait(Reader)
        /\ phase'[Reader] = "idle"
        /\ \A x \in Tasks : phase'[x] \in {"idle", "queued", "granted"}
    BY <1>b, <2>1, TurnEnds DEF Holding
  <2>3. TypeOK'
    BY <1>5, <2>2 DEF ReaderRetryOpen, OpenFails, BackoffReset, BackoffFailed, Least, Reply, Answers, IInv, TypeOK, LockTypes
  <2>4. OpWhileBusy'
    BY <1>5, <1>b, <1>c, <2>2 DEF ReaderRetryOpen, OpenFails, Reply, IInv, TypeOK, LockDiscipline, OpWhileBusy, OthersWait
  <2>5. PhasesByTask' /\ PhasesAndPipe' /\ PipeExplained'
    <3>1. \A x \in Tasks \ {Reader} : phase[x] \in {"idle", "queued"}
      BY <1>b, <2>1, Alone DEF Holding
    <3>2. PhasesByTask' /\ PhasesAndPipe'
      BY <1>b, <2>2 DEF PhasesByTask, PhasesAndPipe
    <3>3. PipeExplained'
      BY <1>5, <1>b, <2>1, <2>2, <3>1
         DEF ReaderRetryOpen, OpenFails, IInv, TypeOK, PhasesAndPipe, PipeExplained, NoMixedStream
    <3>4. QED
      BY <3>2, <3>3
  <2>6. QED
    BY <2>2, <2>3, <2>4, <2>5 DEF IInv, LockDiscipline
<1>6. ASSUME ReaderFails
      PROVE  IInv'
  <2>1. phase[Reader] = "granted" /\ To(Reader, "faulting")
    BY <1>6 DEF ReaderFails, ReaderGranted
  <2>2. /\ LockTypes' /\ HolderInside' /\ QueueExact'
        /\ phase'[Reader] = "faulting"
        /\ \A x \in Tasks \ {Reader} : phase'[x] = phase[x] /\ phase[x] \in {"idle", "queued"}
    BY <1>b, <2>1, TurnGoesOn DEF Holding
  <2>3. TypeOK'
    BY <1>6, <2>2 DEF ReaderFails, ReaderGranted, IInv, TypeOK, LockTypes
  <2>4. OpWhileBusy'
    BY <1>6, <1>b, <1>c, <2>1, <2>2 DEF ReaderFails, ReaderGranted, IInv, TypeOK, LockDiscipline, OpWhileBusy
  <2>5. PhasesByTask' /\ PhasesAndPipe' /\ PipeExplained'
    <3>1. PhasesByTask'
      BY <1>6, <1>b, <1>c, <2>2 DEF ReaderFails, ReaderGranted, PhasesByTask, Tasks
    <3>2. PhasesAndPipe'
      BY <1>6, <1>b, <1>c, <2>2 DEF ReaderFails, ReaderGranted, PhasesAndPipe, Tasks
    <3>3. PipeExplained'
      BY <1>6, <1>b, <2>1, <2>2 DEF ReaderFails, ReaderGranted, IInv, TypeOK, PipeExplained, NoMixedStream
    <3>4. QED
      BY <3>1, <3>2, <3>3
  <2>6. QED
    BY <2>2, <2>3, <2>4, <2>5 DEF IInv, LockDiscipline
<1>7. ASSUME ReaderFaults
      PROVE  IInv'
  <2>1. phase[Reader] = "faulting" /\ Unlock(Reader)
    BY <1>7 DEF ReaderFaults, MarkFaulted
  <2>2. /\ LockTypes' /\ HolderInside' /\ QueueExact' /\ OthersWait(Reader)
        /\ phase'[Reader] = "idle"
        /\ \A x \in Tasks : phase'[x] \in {"idle", "queued", "granted"}
    BY <1>b, <2>1, TurnEnds DEF Holding
  <2>3. TypeOK'
    BY <1>7, <2>2 DEF ReaderFaults, MarkFaulted, BackoffReset, BackoffFailed, Least, Reply, Answers, IInv, TypeOK, LockTypes
  <2>4. OpWhileBusy'
    BY <1>7, <1>b, <1>c, <2>2 DEF ReaderFaults, MarkFaulted, Reply, IInv, TypeOK, LockDiscipline, OpWhileBusy, OthersWait
  <2>5. PhasesByTask' /\ PhasesAndPipe' /\ PipeExplained'
    <3>1. \A x \in Tasks \ {Reader} : phase[x] \in {"idle", "queued"}
      BY <1>b, <2>1, Alone DEF Holding
    <3>2. PhasesByTask' /\ PhasesAndPipe'
      BY <1>b, <2>2 DEF PhasesByTask, PhasesAndPipe
    <3>3. PipeExplained'
      BY <1>7, <1>b, <2>1, <2>2, <3>1
         DEF ReaderFaults, MarkFaulted, IInv, TypeOK, PhasesAndPipe, PipeExplained, NoMixedStream
    <3>4. QED
      BY <3>2, <3>3
  <2>6. QED
    BY <2>2, <2>3, <2>4, <2>5 DEF IInv, LockDiscipline
<1>8. ASSUME NEW w \in Writers, WsMessage(w)
      PROVE  IInv'
  <2>1. phase[w] = "idle" /\ Lock(w)
    BY <1>8 DEF WsMessage
  <2>2. /\ LockTypes' /\ HolderInside' /\ QueueExact' /\ OthersWait(w)
        /\ phase'[w] \in {"queued", "granted"}
        /\ \A x \in Tasks \ {w} : phase'[x] = phase[x]
    BY <1>a, <1>b, <2>1, LockStep DEF OthersWait
  <2>3. TypeOK'
    BY <1>8, <2>2 DEF WsMessage, Ops, Answers, IInv, TypeOK, LockTypes
  <2>4. OpWhileBusy'
    BY <1>8, <1>b, <1>c, <2>2 DEF WsMessage, Ops, IInv, TypeOK, LockDiscipline, OpWhileBusy
  <2>5. PhasesByTask' /\ PhasesAndPipe' /\ PipeExplained'
    BY <1>8, <1>b, <2>1, <2>2, PhasesKept DEF WsMessage, IInv, TypeOK
  <2>6. QED
    BY <2>2, <2>3, <2>4, <2>5 DEF IInv, LockDiscipline
<1>9. ASSUME NEW w \in Writers, WriteDropped(w)
      PROVE  IInv'
  <2>1. phase[w] = "granted" /\ Unlock(w)
    BY <1>9 DEF WriteDropped
  <2>2. /\ LockTypes' /\ HolderInside' /\ QueueExact' /\ OthersWait(w)
        /\ phase'[w] = "idle"
    BY <1>b, <2>1, TurnEnds DEF Holding
  <2>3. TypeOK'
    BY <1>9, <2>2 DEF WriteDropped, BackoffReset, BackoffFailed, Least, Reply, Answers, Ops, IInv, TypeOK, LockTypes
  <2>4. OpWhileBusy'
    BY <1>9, <1>b, <1>c, <2>2 DEF WriteDropped, Reply, IInv, TypeOK, LockDiscipline, OpWhileBusy, OthersWait
  <2>5. PhasesByTask' /\ PhasesAndPipe' /\ PipeExplained'
    BY <1>9, <1>b, <2>1, <2>2, PhasesKept DEF WriteDropped, Reply, IInv, TypeOK
  <2>6. QED
    BY <2>2, <2>3, <2>4, <2>5 DEF IInv, LockDiscipline
<1>10. ASSUME NEW w \in Writers, WriteDone(w)
      PROVE  IInv'
  <2>1. phase[w] = "granted" /\ Unlock(w)
    BY <1>10 DEF WriteDone
  <2>2. /\ LockTypes' /\ HolderInside' /\ QueueExact' /\ OthersWait(w)
        /\ phase'[w] = "idle"
        /\ \A x \in Tasks : phase'[x] \in {"idle", "queued", "granted"}
    BY <1>b, <2>1, TurnEnds DEF Holding
  <2>3. TypeOK'
    BY <1>10, <2>2 DEF WriteDone, BackoffReset, BackoffFailed, Least, Reply, Answers, IInv, TypeOK, LockTypes
  <2>4. OpWhileBusy'
    BY <1>10, <1>b, <1>c, <2>2 DEF WriteDone, Reply, IInv, TypeOK, LockDiscipline, OpWhileBusy, OthersWait
  <2>5. PhasesByTask' /\ PhasesAndPipe' /\ PipeExplained'
    <3>1. \A x \in Tasks \ {w} : phase[x] \in {"idle", "queued"}
      BY <1>b, <2>1, Alone DEF Holding
    <3>2. PhasesByTask' /\ PhasesAndPipe'
      BY <1>b, <2>2 DEF PhasesByTask, PhasesAndPipe
    <3>3. PipeExplained'
      BY <1>10, <1>b, <2>1, <2>2, <3>1
         DEF WriteDone, IInv, TypeOK, PhasesAndPipe, PipeExplained, NoMixedStream
    <3>4. QED
      BY <3>2, <3>3
  <2>6. QED
    BY <2>2, <2>3, <2>4, <2>5 DEF IInv, LockDiscipline
<1>11. ASSUME NEW w \in Writers, WriteFails(w)
      PROVE  IInv'
  <2>1. phase[w] = "granted" /\ To(w, "faulting")
    BY <1>11 DEF WriteFails
  <2>2. /\ LockTypes' /\ HolderInside' /\ QueueExact'
        /\ phase'[w] = "faulting"
        /\ \A x \in Tasks \ {w} : phase'[x] = phase[x] /\ phase[x] \in {"idle", "queued"}
    BY <1>b, <2>1, TurnGoesOn DEF Holding
  <2>3. TypeOK'
    BY <1>11, <2>2 DEF WriteFails, IInv, TypeOK, LockTypes
  <2>4. OpWhileBusy'
    BY <1>11, <1>b, <1>c, <2>1, <2>2 DEF WriteFails, IInv, TypeOK, LockDiscipline, OpWhileBusy
  <2>5. PhasesByTask' /\ PhasesAndPipe' /\ PipeExplained'
    <3>1. PhasesByTask'
      BY <1>11, <1>b, <1>c, <2>2 DEF WriteFails, PhasesByTask, Tasks
    <3>2. PhasesAndPipe'
      BY <1>11, <1>b, <1>c, <2>2 DEF WriteFails, PhasesAndPipe, Tasks
    <3>3. PipeExplained'
      BY <1>11, <1>b, <2>1, <2>2 DEF WriteFails, IInv, TypeOK, PipeExplained, NoMixedStream
    <3>4. QED
      BY <3>1, <3>2, <3>3
  <2>6. QED
    BY <2>2, <2>3, <2>4, <2>5 DEF IInv, LockDiscipline
<1>12. ASSUME NEW w \in Writers, WriterFaults(w)
      PROVE  IInv'
  <2>1. phase[w] = "faulting" /\ Unlock(w)
    BY <1>12 DEF WriterFaults, MarkFaulted
  <2>2. /\ LockTypes' /\ HolderInside' /\ QueueExact' /\ OthersWait(w)
        /\ phase'[w] = "idle"
        /\ \A x \in Tasks : phase'[x] \in {"idle", "queued", "granted"}
    BY <1>b, <2>1, TurnEnds DEF Holding
  <2>3. TypeOK'
    BY <1>12, <2>2 DEF WriterFaults, MarkFaulted, BackoffReset, BackoffFailed, Least, Reply, Answers, IInv, TypeOK, LockTypes
  <2>4. OpWhileBusy'
    BY <1>12, <1>b, <1>c, <2>2 DEF WriterFaults, MarkFaulted, Reply, IInv, TypeOK, LockDiscipline, OpWhileBusy, OthersWait
  <2>5. PhasesByTask' /\ PhasesAndPipe' /\ PipeExplained'
    <3>1. \A x \in Tasks \ {w} : phase[x] \in {"idle", "queued"}
      BY <1>b, <2>1, Alone DEF Holding
    <3>2. PhasesByTask' /\ PhasesAndPipe'
      BY <1>b, <2>2 DEF PhasesByTask, PhasesAndPipe
    <3>3. PipeExplained'
      BY <1>12, <1>b, <2>1, <2>2, <3>1
         DEF WriterFaults, MarkFaulted, IInv, TypeOK, PhasesAndPipe, PipeExplained, NoMixedStream
    <3>4. QED
      BY <3>2, <3>3
  <2>6. QED
    BY <2>2, <2>3, <2>4, <2>5 DEF IInv, LockDiscipline
<1>13. ASSUME NEW c \in Clients, Request(c)
      PROVE  IInv'
  <2>1. phase[c] = "idle" /\ Lock(c)
    BY <1>13 DEF Request
  <2>2. /\ LockTypes' /\ HolderInside' /\ QueueExact' /\ OthersWait(c)
        /\ phase'[c] \in {"queued", "granted"}
        /\ \A x \in Tasks \ {c} : phase'[x] = phase[x]
    BY <1>a, <1>b, <2>1, LockStep DEF OthersWait
  <2>3. TypeOK'
    BY <1>13, <2>2 DEF Request, Ops, Answers, IInv, TypeOK, LockTypes
  <2>4. OpWhileBusy'
    BY <1>13, <1>b, <1>c, <2>2 DEF Request, Ops, IInv, TypeOK, LockDiscipline, OpWhileBusy
  <2>5. PhasesByTask' /\ PhasesAndPipe' /\ PipeExplained'
    BY <1>13, <1>b, <2>1, <2>2, PhasesKept DEF Request, IInv, TypeOK
  <2>6. QED
    BY <2>2, <2>3, <2>4, <2>5 DEF IInv, LockDiscipline
<1>14. ASSUME NEW c \in Clients, TimeOut(c)
      PROVE  IInv'
  <2>1. phase[c] = "queued" /\ LeaveQueue(c)
    BY <1>14 DEF TimeOut, LeaveQueue
  <2>2. /\ LockTypes' /\ HolderInside' /\ QueueExact' /\ OthersWait(c)
        /\ phase'[c] = "idle"
        /\ \A x \in Tasks \ {c} : phase'[x] = phase[x]
    BY <1>a, <1>b, <2>1, LeaveStep DEF OthersWait
  <2>3. TypeOK'
    BY <1>14, <2>2 DEF TimeOut, Reply, Answers, IInv, TypeOK, LockTypes
  <2>4. OpWhileBusy'
    BY <1>14, <1>b, <1>c, <2>2 DEF TimeOut, Reply, IInv, TypeOK, LockDiscipline, OpWhileBusy
  <2>5. PhasesByTask' /\ PhasesAndPipe' /\ PipeExplained'
    BY <1>14, <1>b, <2>1, <2>2, PhasesKept DEF TimeOut, Reply, IInv, TypeOK
  <2>6. QED
    BY <2>2, <2>3, <2>4, <2>5 DEF IInv, LockDiscipline
<1>15. ASSUME NEW c \in Clients, LeaveQueue(c), Disconnect(c), Reply(c, "none")
      PROVE  IInv'
  <2>1. phase[c] = "queued" /\ LeaveQueue(c)
    BY <1>15 DEF Disconnect, LeaveQueue
  <2>2. /\ LockTypes' /\ HolderInside' /\ QueueExact' /\ OthersWait(c)
        /\ phase'[c] = "idle"
        /\ \A x \in Tasks \ {c} : phase'[x] = phase[x]
    BY <1>a, <1>b, <2>1, LeaveStep DEF OthersWait
  <2>3. TypeOK'
    BY <1>15, <2>2 DEF Disconnect, Reply, Answers, IInv, TypeOK, LockTypes
  <2>4. OpWhileBusy'
    BY <1>15, <1>b, <1>c, <2>2 DEF Disconnect, Reply, IInv, TypeOK, LockDiscipline, OpWhileBusy
  <2>5. PhasesByTask' /\ PhasesAndPipe' /\ PipeExplained'
    BY <1>15, <1>b, <2>1, <2>2, PhasesKept DEF Disconnect, Reply, IInv, TypeOK
  <2>6. QED
    BY <2>2, <2>3, <2>4, <2>5 DEF IInv, LockDiscipline
<1>16. ASSUME NEW c \in Clients, phase[c] = "granted", Disconnect(c)
      PROVE  IInv'
  <2>1. phase[c] = "granted" /\ Unlock(c)
    BY <1>16 DEF Disconnect, LeaveQueue
  <2>2. /\ LockTypes' /\ HolderInside' /\ QueueExact' /\ OthersWait(c)
        /\ phase'[c] = "idle"
    BY <1>b, <2>1, TurnEnds DEF Holding
  <2>3. TypeOK'
    BY <1>16, <2>2 DEF Disconnect, LeaveQueue, BackoffReset, BackoffFailed, Least, Reply, Answers, Ops, IInv, TypeOK, LockTypes
  <2>4. OpWhileBusy'
    BY <1>16, <1>b, <1>c, <2>2 DEF Disconnect, LeaveQueue, Reply, IInv, TypeOK, LockDiscipline, OpWhileBusy, OthersWait
  <2>5. PhasesByTask' /\ PhasesAndPipe' /\ PipeExplained'
    BY <1>16, <1>b, <2>1, <2>2, PhasesKept DEF Disconnect, LeaveQueue, Reply, IInv, TypeOK
  <2>6. QED
    BY <2>2, <2>3, <2>4, <2>5 DEF IInv, LockDiscipline
<1>17. ASSUME NEW c \in Clients, phase[c] \in {"closing", "opening"}, Disconnect(c)
      PROVE  IInv'
  <2>1. UNCHANGED <<lockVars, pipeVars, backoffVars, worldVars, op, answer>> /\ gone' = gone \cup {c}
    BY <1>17 DEF Disconnect, LeaveQueue
  <2>2. QED
    BY <2>1 DEF lockVars, IInv, TypeOK, LockDiscipline, HolderInside, QueueExact, OpWhileBusy,
                PhasesByTask, PhasesAndPipe, PipeExplained, NoMixedStream
<1>18. ASSUME NEW c \in Clients, Status(c)
      PROVE  IInv'
  <2>1. phase[c] = "granted" /\ Unlock(c)
    BY <1>18 DEF Status
  <2>2. /\ LockTypes' /\ HolderInside' /\ QueueExact' /\ OthersWait(c)
        /\ phase'[c] = "idle"
    BY <1>b, <2>1, TurnEnds DEF Holding
  <2>3. TypeOK'
    BY <1>18, <2>2 DEF Status, BackoffReset, BackoffFailed, Least, Reply, Answers, Ops, IInv, TypeOK, LockTypes
  <2>4. OpWhileBusy'
    BY <1>18, <1>b, <1>c, <2>2 DEF Status, Reply, IInv, TypeOK, LockDiscipline, OpWhileBusy, OthersWait
  <2>5. PhasesByTask' /\ PhasesAndPipe' /\ PipeExplained'
    BY <1>18, <1>b, <2>1, <2>2, PhasesKept DEF Status, Reply, IInv, TypeOK
  <2>6. QED
    BY <2>2, <2>3, <2>4, <2>5 DEF IInv, LockDiscipline
<1>19. ASSUME NEW c \in Clients, ReleaseCloses(c)
      PROVE  IInv'
  <2>1. phase[c] = "granted" /\ To(c, "closing")
    BY <1>19 DEF ReleaseCloses
  <2>2. /\ LockTypes' /\ HolderInside' /\ QueueExact'
        /\ phase'[c] = "closing"
        /\ \A x \in Tasks \ {c} : phase'[x] = phase[x] /\ phase[x] \in {"idle", "queued"}
    BY <1>b, <2>1, TurnGoesOn DEF Holding
  <2>3. TypeOK'
    BY <1>19, <2>2 DEF ReleaseCloses, IInv, TypeOK, LockTypes
  <2>4. OpWhileBusy'
    BY <1>19, <1>b, <1>c, <2>1, <2>2 DEF ReleaseCloses, IInv, TypeOK, LockDiscipline, OpWhileBusy
  <2>5. PhasesByTask' /\ PhasesAndPipe' /\ PipeExplained'
    <3>1. PhasesByTask'
      BY <1>19, <1>b, <1>c, <2>2 DEF ReleaseCloses, PhasesByTask, Tasks
    <3>2. PhasesAndPipe'
      BY <1>19, <1>b, <1>c, <2>2 DEF ReleaseCloses, PhasesAndPipe, Tasks
    <3>3. PipeExplained'
      BY <1>19, <1>b, <2>1, <2>2 DEF ReleaseCloses, IInv, TypeOK, PipeExplained, NoMixedStream
    <3>4. QED
      BY <3>1, <3>2, <3>3
  <2>6. QED
    BY <2>2, <2>3, <2>4, <2>5 DEF IInv, LockDiscipline
<1>20. ASSUME NEW c \in Clients, ReleaseDone(c)
      PROVE  IInv'
  <2>1. phase[c] = "closing" /\ Unlock(c)
    BY <1>20 DEF ReleaseDone
  <2>2. /\ LockTypes' /\ HolderInside' /\ QueueExact' /\ OthersWait(c)
        /\ phase'[c] = "idle"
        /\ \A x \in Tasks : phase'[x] \in {"idle", "queued", "granted"}
    BY <1>b, <2>1, TurnEnds DEF Holding
  <2>3. TypeOK'
    BY <1>20, <2>2 DEF ReleaseDone, BackoffReset, BackoffFailed, Least, Reply, Answers, IInv, TypeOK, LockTypes
  <2>4. OpWhileBusy'
    BY <1>20, <1>b, <1>c, <2>2 DEF ReleaseDone, Reply, IInv, TypeOK, LockDiscipline, OpWhileBusy, OthersWait
  <2>5. PhasesByTask' /\ PhasesAndPipe' /\ PipeExplained'
    <3>1. \A x \in Tasks \ {c} : phase[x] \in {"idle", "queued"}
      BY <1>b, <2>1, Alone DEF Holding
    <3>2. PhasesByTask' /\ PhasesAndPipe'
      BY <1>b, <2>2 DEF PhasesByTask, PhasesAndPipe
    <3>3. PipeExplained'
      BY <1>20, <1>b, <2>1, <2>2, <3>1
         DEF ReleaseDone, IInv, TypeOK, PhasesAndPipe, PipeExplained, NoMixedStream
    <3>4. QED
      BY <3>2, <3>3
  <2>6. QED
    BY <2>2, <2>3, <2>4, <2>5 DEF IInv, LockDiscipline
<1>21. ASSUME NEW c \in Clients, ResumeActive(c) \/ ResumeNoPort(c)
      PROVE  IInv'
  <2>1. phase[c] = "granted" /\ Unlock(c)
    BY <1>21 DEF ResumeActive, ResumeNoPort, ResumeGranted
  <2>2. /\ LockTypes' /\ HolderInside' /\ QueueExact' /\ OthersWait(c)
        /\ phase'[c] = "idle"
    BY <1>b, <2>1, TurnEnds DEF Holding
  <2>3. TypeOK'
    BY <1>21, <2>2 DEF ResumeActive, ResumeNoPort, ResumeGranted, BackoffReset, BackoffFailed, Least, Reply, Answers, Ops, IInv, TypeOK, LockTypes
  <2>4. OpWhileBusy'
    BY <1>21, <1>b, <1>c, <2>2 DEF ResumeActive, ResumeNoPort, ResumeGranted, Reply, IInv, TypeOK, LockDiscipline, OpWhileBusy, OthersWait
  <2>5. PhasesByTask' /\ PhasesAndPipe' /\ PipeExplained'
    BY <1>21, <1>b, <2>1, <2>2, PhasesKept DEF ResumeActive, ResumeNoPort, ResumeGranted, Reply, IInv, TypeOK
  <2>6. QED
    BY <2>2, <2>3, <2>4, <2>5 DEF IInv, LockDiscipline
<1>22. ASSUME NEW c \in Clients, ResumeOpens(c)
      PROVE  IInv'
  <2>1. phase[c] = "granted" /\ To(c, "opening")
    BY <1>22 DEF ResumeOpens, OpenPort, ResumeGranted
  <2>2. /\ LockTypes' /\ HolderInside' /\ QueueExact'
        /\ phase'[c] = "opening"
        /\ \A x \in Tasks \ {c} : phase'[x] = phase[x] /\ phase[x] \in {"idle", "queued"}
    BY <1>b, <2>1, TurnGoesOn DEF Holding
  <2>3. TypeOK'
    BY <1>22, <2>2 DEF ResumeOpens, OpenPort, ResumeGranted, IInv, TypeOK, LockTypes
  <2>4. OpWhileBusy'
    BY <1>22, <1>b, <1>c, <2>1, <2>2 DEF ResumeOpens, OpenPort, ResumeGranted, IInv, TypeOK, LockDiscipline, OpWhileBusy
  <2>5. PhasesByTask' /\ PhasesAndPipe' /\ PipeExplained'
    <3>1. PhasesByTask'
      BY <1>22, <1>b, <1>c, <2>2 DEF ResumeOpens, OpenPort, ResumeGranted, PhasesByTask, Tasks
    <3>2. PhasesAndPipe'
      BY <1>22, <1>b, <1>c, <2>2 DEF ResumeOpens, OpenPort, ResumeGranted, PhasesAndPipe, Tasks
    <3>3. PipeExplained'
      BY <1>22, <1>b, <2>1, <2>2 DEF ResumeOpens, OpenPort, ResumeGranted, IInv, TypeOK, PipeExplained, NoMixedStream
    <3>4. QED
      BY <3>1, <3>2, <3>3
  <2>6. QED
    BY <2>2, <2>3, <2>4, <2>5 DEF IInv, LockDiscipline
<1>23. ASSUME NEW c \in Clients, ResumeDone(c)
      PROVE  IInv'
  <2>1. phase[c] = "opening" /\ Unlock(c)
    BY <1>23 DEF ResumeDone, OpenSucceeds
  <2>2. /\ LockTypes' /\ HolderInside' /\ QueueExact' /\ OthersWait(c)
        /\ phase'[c] = "idle"
        /\ \A x \in Tasks : phase'[x] \in {"idle", "queued", "granted"}
    BY <1>b, <2>1, TurnEnds DEF Holding
  <2>3. TypeOK'
    BY <1>23, <2>2 DEF ResumeDone, OpenSucceeds, BackoffReset, BackoffFailed, Least, Reply, Answers, IInv, TypeOK, LockTypes
  <2>4. OpWhileBusy'
    BY <1>23, <1>b, <1>c, <2>2 DEF ResumeDone, OpenSucceeds, Reply, IInv, TypeOK, LockDiscipline, OpWhileBusy, OthersWait
  <2>5. PhasesByTask' /\ PhasesAndPipe' /\ PipeExplained'
    <3>1. \A x \in Tasks \ {c} : phase[x] \in {"idle", "queued"}
      BY <1>b, <2>1, Alone DEF Holding
    <3>2. PhasesByTask' /\ PhasesAndPipe'
      BY <1>b, <2>2 DEF PhasesByTask, PhasesAndPipe
    <3>3. PipeExplained'
      BY <1>23, <1>b, <2>1, <2>2, <3>1
         DEF ResumeDone, OpenSucceeds, IInv, TypeOK, PhasesAndPipe, PipeExplained, NoMixedStream
    <3>4. QED
      BY <3>2, <3>3
  <2>6. QED
    BY <2>2, <2>3, <2>4, <2>5 DEF IInv, LockDiscipline
<1>24. ASSUME NEW c \in Clients, ResumeFails(c)
      PROVE  IInv'
  <2>1. phase[c] = "opening" /\ Unlock(c)
    BY <1>24 DEF ResumeFails, OpenFails
  <2>2. /\ LockTypes' /\ HolderInside' /\ QueueExact' /\ OthersWait(c)
        /\ phase'[c] = "idle"
        /\ \A x \in Tasks : phase'[x] \in {"idle", "queued", "granted"}
    BY <1>b, <2>1, TurnEnds DEF Holding
  <2>3. TypeOK'
    BY <1>24, <2>2 DEF ResumeFails, OpenFails, BackoffReset, BackoffFailed, Least, Reply, Answers, IInv, TypeOK, LockTypes
  <2>4. OpWhileBusy'
    BY <1>24, <1>b, <1>c, <2>2 DEF ResumeFails, OpenFails, Reply, IInv, TypeOK, LockDiscipline, OpWhileBusy, OthersWait
  <2>5. PhasesByTask' /\ PhasesAndPipe' /\ PipeExplained'
    <3>1. \A x \in Tasks \ {c} : phase[x] \in {"idle", "queued"}
      BY <1>b, <2>1, Alone DEF Holding
    <3>2. PhasesByTask' /\ PhasesAndPipe'
      BY <1>b, <2>2 DEF PhasesByTask, PhasesAndPipe
    <3>3. PipeExplained'
      BY <1>24, <1>b, <2>1, <2>2, <3>1
         DEF ResumeFails, OpenFails, IInv, TypeOK, PhasesAndPipe, PipeExplained, NoMixedStream
    <3>4. QED
      BY <3>2, <3>3
  <2>6. QED
    BY <2>2, <2>3, <2>4, <2>5 DEF IInv, LockDiscipline
<1>25. ASSUME Environment
      PROVE  IInv'
  <2>1. UNCHANGED <<link, io, lockVars, requestVars, backoffVars>>
    BY <1>25 DEF Environment, Unplug, Plug, OtherOpens, OtherCloses
  <2>2. /\ handle' \in {"none", "live", "dead"} /\ (handle' = "none" <=> handle = "none")
        /\ plug' \in {"absent", "cart", "wrong"} /\ other' \in BOOLEAN
    BY <1>25 DEF Environment, Unplug, Plug, OtherOpens, OtherCloses, IInv, TypeOK
  <2>3. QED
    BY <2>1, <2>2 DEF lockVars, IInv, TypeOK, LockDiscipline, HolderInside, QueueExact,
       OpWhileBusy, PhasesByTask, PhasesAndPipe, PipeExplained, NoMixedStream
<1>26. ASSUME UNCHANGED vars
      PROVE  IInv'
  BY <1>26 DEF vars, IInv, TypeOK, LockDiscipline, HolderInside, QueueExact,
     OpWhileBusy, PhasesByTask, PhasesAndPipe, PipeExplained, NoMixedStream
<1>98. ASSUME NEW c \in Clients, Disconnect(c)
       PROVE  IInv'
  BY <1>98, <1>15, <1>16, <1>17 DEF Disconnect
<1>99. QED
  BY <1>1, <1>2, <1>3, <1>4, <1>5, <1>6, <1>7, <1>8, <1>9, <1>10, <1>11, <1>12, <1>13, <1>14, <1>18, <1>19, <1>20, <1>21, <1>22, <1>23, <1>24, <1>25, <1>26, <1>98
     DEF Next, ReaderTurn, WriterTurn, ClientTurn

-----------------------------------------------------------------------------

THEOREM LinkInvariant == Spec => []IInv
BY InitIInv, NextIInv, PTL DEF Spec

\* Type correctness of the daemon's link, its lock and its requests.
THEOREM LinkTypes == Spec => []TypeOK
<1>1. IInv => TypeOK
  BY DEF IInv
<1>2. QED
  BY <1>1, LinkInvariant, PTL

\* The lock and its queue agree in every reachable state, so a request that was
\* answered 503 or whose client left is in no position to be served any more.
THEOREM LinkLock == Spec => []LockDiscipline
<1>1. IInv => LockDiscipline
  BY DEF IInv
<1>2. QED
  BY <1>1, LinkInvariant, PTL

\* Whenever the lock is free the reported state is the state of the handle.
THEOREM LinkPipe == Spec => []PipeAgrees
<1>1. IInv => PipeAgrees
  BY DEF IInv, TypeOK, LockDiscipline, HolderInside, PhasesAndPipe, PipeExplained, PipeAgrees, Holding
<1>2. QED
  BY <1>1, LinkInvariant, PTL

\* No octet follows a cut-off message on the same handle.
THEOREM LinkStream == Spec => []NoMixedStream
<1>1. IInv => NoMixedStream
  BY DEF IInv, PipeExplained
<1>2. QED
  BY <1>1, LinkInvariant, PTL

\* A released port is taken only for a resume.
THEOREM LinkReleased == Spec => []ReleasedPortIsFree
<1>1. IInv => ReleasedPortIsFree
  <2> SUFFICES ASSUME IInv, link = "Released", handle # "none"
               PROVE  \E c \in Clients : op[c] = "resume"
    BY DEF ReleasedPortIsFree
  <2>1. PICK t \in Tasks : phase[t] = "opening"
    BY DEF IInv, PipeExplained
  <2>2. t # Reader /\ t \notin Writers
    BY <2>1 DEF IInv, PhasesByTask, PhasesAndPipe
  <2>3. QED
    BY <2>1, <2>2 DEF IInv, PhasesByTask, Tasks
<1>2. QED
  BY <1>1, LinkInvariant, PTL
-----------------------------------------------------------------------------
(* The refinement: every step is a step of SerialYield or changes nothing  *)
(* it can see.                                                             *)

\* Inside the lock and not half-way through an open or a close, a task sees a
\* link that is Active exactly when the daemon has a handle.
LEMMA GrantedPipe ==
  ASSUME IInv, NEW t \in Tasks, phase[t] \in {"granted", "faulting"}
  PROVE  handle # "none" <=> link = "Active"
BY Alone DEF Holding, IInv, TypeOK, PipeExplained

\* A released port that is held is held for a resume inside the lock.
LEMMA HeldForResume ==
  ASSUME IInv, link = "Released", handle # "none"
  PROVE  \E d \in Clients : phase[d] = "opening" /\ op[d] = "resume"
<1>1. PICK t \in Tasks : phase[t] = "opening"
  BY DEF IInv, PipeExplained
<1>2. t \in Clients
  BY <1>1 DEF IInv, PhasesByTask, PhasesAndPipe, Tasks
<1>3. QED
  BY <1>1, <1>2 DEF IInv, PhasesByTask

\* An answer given here is the answer given there.
LEMMA ReplyMaps ==
  ASSUME IInv, NEW c \in Clients, NEW a \in Answers, Reply(c, a)
  PROVE  \/ Abs!Answer(c, Code(a))
         \/ Abs!Answer(c, "none")
<1>1. CASE c \in gone
  <2>1. outBar' = [outBar EXCEPT ![c] = "none"]
    BY <1>1 DEF Reply, outBar, Code, IInv, TypeOK
  <2>2. QED
    BY <2>1 DEF Abs!Answer, Reply
<1>2. CASE c \notin gone
  <2>1. outBar' = [outBar EXCEPT ![c] = Code(a)]
    BY <1>2 DEF Reply, outBar, Code, IInv, TypeOK
  <2>2. QED
    BY <2>1 DEF Abs!Answer, Reply
<1>3. QED
  BY <1>1, <1>2

\* A client in the queue or with the bare lock can be dropped without effect.
LEMMA DropMaps ==
  ASSUME IInv, NEW c \in Clients, phase[c] \in {"queued", "granted"},
         UNCHANGED <<link, handle>>,
         Abs!Answer(c, "503") \/ Abs!Answer(c, "none")
  PROVE  Abs!Refuse(c)
<1>1. op[c] # "none"
  BY DEF IInv, LockDiscipline, OpWhileBusy
<1>2. ASSUME link = "Released", handle # "none"
      PROVE  \E d \in Clients \ {c} : op[d] = "resume"
  BY <1>2, HeldForResume
<1>3. modeBar = "yielded" /\ holdsBar => ~Abs!OnlyResume(c)
  BY <1>2 DEF modeBar, holdsBar, Abs!OnlyResume
<1>4. UNCHANGED <<modeBar, holdsBar>>
  BY DEF modeBar, holdsBar
<1>5. QED
  BY <1>1, <1>3, <1>4 DEF Abs!Refuse, Abs!Asked

LEMMA InitRefines == Init => Abs!Init
BY DEF Init, Abs!Init, modeBar, holdsBar, outBar, Code

LEMMA NextRefines == IInv /\ [Next]_vars => [Abs!Next]_Abs!vars
<1> SUFFICES ASSUME IInv, [Next]_vars PROVE [Abs!Next]_Abs!vars
  OBVIOUS
<1> USE DEF pipeVars, requestVars, backoffVars, worldVars
<1>a. Reader \in Tasks /\ Writers \subseteq Tasks /\ Clients \subseteq Tasks
  BY DEF Tasks
<1>b. ASSUME UNCHANGED <<op, answer, modeBar, holdsBar>>
      PROVE  UNCHANGED Abs!vars
  BY <1>b DEF Abs!vars, outBar
<1>c. ASSUME UNCHANGED <<op, answer, modeBar>>, holdsBar, ~holdsBar'
      PROVE  Abs!DropPort
  BY <1>c DEF Abs!DropPort, outBar, holdsBar
<1>1. ASSUME ReaderPass \/ ReaderReleased \/ ReaderBackingOff \/ ReaderNoPort
             \/ ReaderReads \/ ReaderFails
      PROVE  UNCHANGED Abs!vars
  BY <1>1, <1>b DEF ReaderPass, ReaderReleased, ReaderBackingOff, ReaderNoPort,
                    ReaderReads, ReaderFails, modeBar, holdsBar
<1>2. ASSUME ReaderOpen
      PROVE  Abs!TakePort
  <2>1. handle = "none"
    BY <1>2, <1>a, GrantedPipe DEF ReaderOpen, ReaderGranted
  <2>2. QED
    BY <1>2, <2>1 DEF ReaderOpen, OpenPort, Abs!TakePort, modeBar, holdsBar, outBar
<1>3. ASSUME ReaderReopened
      PROVE  UNCHANGED Abs!vars
  <2>1. link = "Faulted" /\ link' = "Active" /\ UNCHANGED <<handle, op, answer>>
    BY <1>3 DEF ReaderReopened, OpenSucceeds, IInv, PhasesAndPipe
  <2>2. QED
    BY <2>1, <1>b DEF modeBar, holdsBar
<1>4. ASSUME ReaderRetryOpen
      PROVE  Abs!DropPort
  BY <1>4, <1>a, <1>c DEF ReaderRetryOpen, OpenFails, IInv, PhasesAndPipe, modeBar, holdsBar
<1>5. ASSUME NEW t \in Tasks, MarkFaulted(t), UNCHANGED <<op, answer>>
      PROVE  Abs!DropPort
  <2>1. link = "Active" /\ handle # "none"
    BY <1>5, GrantedPipe DEF MarkFaulted, IInv, PhasesAndPipe
  <2>2. QED
    BY <1>5, <2>1, <1>c DEF MarkFaulted, modeBar, holdsBar
<1>6. ASSUME NEW w \in Writers,
             WsMessage(w) \/ WriteDropped(w) \/ WriteDone(w) \/ WriteFails(w)
      PROVE  UNCHANGED Abs!vars
  BY <1>6, <1>b DEF WsMessage, WriteDropped, WriteDone, WriteFails, modeBar, holdsBar
<1>7. ASSUME NEW c \in Clients, Request(c)
      PROVE  Abs!Ask(c)
  <2>1. op[c] = "none"
    BY <1>7 DEF Request, IInv, LockDiscipline, OpWhileBusy
  <2>2. outBar' = [outBar EXCEPT ![c] = "none"]
    BY <1>7 DEF Request, outBar, Code, IInv, TypeOK
  <2>3. \E o \in {"status", "release", "resume"} : op' = [op EXCEPT ![c] = o]
    BY <1>7 DEF Request, Ops
  <2>4. UNCHANGED <<modeBar, holdsBar>>
    BY <1>7 DEF Request, modeBar, holdsBar
  <2>5. QED
    BY <2>1, <2>2, <2>3, <2>4 DEF Abs!Ask, Abs!Asked
<1>8. ASSUME NEW c \in Clients, TimeOut(c)
      PROVE  Abs!Report(c) \/ Abs!Refuse(c)
  <2>1. phase[c] = "queued" /\ UNCHANGED <<link, handle>>
    BY <1>8 DEF TimeOut, LeaveQueue
  <2>2. CASE op[c] = "status"
    <3>1. Reply(c, "busy") /\ "busy" \in Answers /\ Code("busy") = "busy"
      BY <1>8, <2>2 DEF TimeOut, Answers, Code
    <3>2. Abs!Answer(c, "busy") \/ Abs!Answer(c, "none")
      BY <3>1, ReplyMaps
    <3>3. CASE Abs!Answer(c, "busy")
      BY <3>3, <2>1, <2>2 DEF Abs!Report, Abs!Asked, modeBar, holdsBar
    <3>4. CASE Abs!Answer(c, "none")
      BY <3>4, <2>1, DropMaps
    <3>5. QED
      BY <3>2, <3>3, <3>4
  <2>3. CASE op[c] # "status"
    <3>1. Reply(c, "503") /\ "503" \in Answers /\ Code("503") = "503"
      BY <1>8, <2>3 DEF TimeOut, Answers, Code
    <3>2. Abs!Answer(c, "503") \/ Abs!Answer(c, "none")
      BY <3>1, ReplyMaps
    <3>3. QED
      BY <3>2, <2>1, DropMaps
  <2>4. QED
    BY <2>2, <2>3
<1>9. ASSUME NEW c \in Clients, Disconnect(c)
      PROVE  Abs!Refuse(c) \/ UNCHANGED Abs!vars
  <2>1. CASE Reply(c, "none") /\ phase[c] \in {"queued", "granted"}
    <3>1. Abs!Answer(c, "none")
      BY <2>1, ReplyMaps DEF Answers, Code
    <3>2. QED
      BY <1>9, <2>1, <3>1, DropMaps DEF Disconnect
  <2>2. CASE UNCHANGED <<lockVars, op, answer>>
    BY <1>9, <2>2, <1>b DEF Disconnect, modeBar, holdsBar
  <2>3. QED
    BY <1>9, <2>1, <2>2 DEF Disconnect, LeaveQueue
<1>10. ASSUME NEW c \in Clients, Status(c)
       PROVE  Abs!Report(c) \/ Abs!Refuse(c)
  <2>1. phase[c] = "granted" /\ op[c] = "status" /\ UNCHANGED <<link, handle>>
    BY <1>10 DEF Status
  <2>2. handle # "none" <=> link = "Active"
    BY <2>1, <1>a, GrantedPipe
  <2>3. \/ Abs!Answer(c, IF holdsBar THEN "active" ELSE "inactive")
        \/ Abs!Answer(c, "none")
    BY <1>10, <2>2, ReplyMaps DEF Status, Answers, Code, holdsBar
  <2>4. CASE Abs!Answer(c, "none")
    BY <2>1, <2>4, DropMaps
  <2>5. CASE Abs!Answer(c, IF holdsBar THEN "active" ELSE "inactive")
    BY <2>1, <2>5 DEF Abs!Report, Abs!Asked, modeBar, holdsBar
  <2>6. QED
    BY <2>3, <2>4, <2>5
<1>11. ASSUME NEW c \in Clients, ReleaseCloses(c)
       PROVE  Abs!DropPort \/ UNCHANGED Abs!vars
  BY <1>11, <1>b, <1>c DEF ReleaseCloses, modeBar, holdsBar
<1>12. ASSUME NEW c \in Clients, ReleaseDone(c)
       PROVE  Abs!Yield(c)
  <2>1. handle = "none" /\ op[c] = "release" /\ link' = "Released" /\ handle' = handle
    BY <1>12, <1>a DEF ReleaseDone, IInv, PhasesByTask, PhasesAndPipe
  <2>2. Abs!Answer(c, "200") \/ Abs!Answer(c, "none")
    BY <1>12, ReplyMaps DEF ReleaseDone, Answers, Code
  <2>3. QED
    BY <2>1, <2>2 DEF Abs!Yield, Abs!Asked, modeBar, holdsBar
<1>13. ASSUME NEW c \in Clients, ResumeActive(c) \/ ResumeDone(c)
       PROVE  Abs!Regain(c)
  <2>1. op[c] = "resume" /\ handle # "none" /\ link' = "Active" /\ handle' = handle
    BY <1>13, <1>a, GrantedPipe
       DEF ResumeActive, ResumeDone, ResumeGranted, OpenSucceeds, IInv, PhasesByTask
  <2>2. Abs!Answer(c, "200") \/ Abs!Answer(c, "none")
    BY <1>13, ReplyMaps DEF ResumeActive, ResumeDone, Answers, Code
  <2>3. QED
    BY <2>1, <2>2 DEF Abs!Regain, Abs!Asked, modeBar, holdsBar
<1>14. ASSUME NEW c \in Clients, ResumeOpens(c)
       PROVE  Abs!TakePort
  <2>1. handle = "none" /\ op[c] = "resume"
    BY <1>14, <1>a, GrantedPipe DEF ResumeOpens, ResumeGranted
  <2>2. QED
    BY <1>14, <2>1 DEF ResumeOpens, OpenPort, Abs!TakePort, Abs!Asked, modeBar, holdsBar, outBar
<1>15. ASSUME NEW c \in Clients, ResumeNoPort(c) \/ ResumeFails(c)
       PROVE  Abs!FailResume(c)
  <2>1. op[c] = "resume" /\ handle' = "none" /\ link' = link
    BY <1>15, <1>a, GrantedPipe
       DEF ResumeNoPort, ResumeFails, ResumeGranted, OpenFails, IInv, PhasesByTask
  <2>2. Abs!Answer(c, "500") \/ Abs!Answer(c, "none")
    BY <1>15, ReplyMaps DEF ResumeNoPort, ResumeFails, Answers, Code
  <2>3. QED
    BY <2>1, <2>2 DEF Abs!FailResume, Abs!Asked, modeBar, holdsBar
<1>16. ASSUME Environment
       PROVE  UNCHANGED Abs!vars
  BY <1>16, <1>b DEF Environment, Unplug, Plug, OtherOpens, OtherCloses, modeBar, holdsBar
<1>17. CASE UNCHANGED vars
  BY <1>17, <1>b DEF vars, modeBar, holdsBar
<1>18. ASSUME ReaderFaults \/ \E w \in Writers : WriterFaults(w)
       PROVE  Abs!DropPort
  BY <1>18, <1>5, <1>a DEF ReaderFaults, WriterFaults
<1>19. QED
  BY <1>1, <1>2, <1>3, <1>4, <1>6, <1>7, <1>8, <1>9, <1>10, <1>11, <1>12, <1>13,
     <1>14, <1>15, <1>16, <1>17, <1>18
     DEF Next, ReaderTurn, WriterTurn, ClientTurn, Abs!Next

\* The link keeps the promise of the API: a request takes effect at most once,
\* between being asked and being answered, the answer tells the truth, and a
\* yielded port is taken back only for a resume.
THEOREM LinkKeepsPromise == Spec => YieldRefined
BY InitRefines, NextRefines, LinkInvariant, PTL DEF Spec, Abs!Spec, YieldRefined
=============================================================================
