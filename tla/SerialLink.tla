----------------------------- MODULE SerialLink -----------------------------
(***************************************************************************)
(* The serial link of multi64d (crates/multi64d/src/lib.rs).               *)
(*                                                                         *)
(* One tokio Mutex guards the link: Active with an open pipe, Released to  *)
(* another process, or Faulted by an I/O error.  Three kinds of task queue *)
(* for it, in arrival order: the reader loop, one WebSocket handler per    *)
(* connected client writing to the cart, and the HTTP handlers of GET /,   *)
(* POST /v1/serial/release and POST /v1/serial/resume, whose wait has a    *)
(* deadline.  A step of this module is one thing a task does: join the     *)
(* queue, give up, one blocking I/O call under the lock, or the assignment *)
(* that ends its turn.  The serial device, its cable and the other process *)
(* that wants the port are the environment.                                *)
(***************************************************************************)
EXTENDS Integers, Sequences

LOCAL INSTANCE SequencesExt

CONSTANTS
  Reader,      \* the task of cart_reader_loop
  Writers,     \* one per connected WebSocket client
  Clients,     \* one per HTTP connection
  None,        \* nobody
  Pro,         \* the cart is an EverDrive-64 PRO: open runs a handshake
  BackoffCap   \* PRO_REOPEN_BACKOFF_MAX in units of REOPEN_RETRY_INTERVAL

Tasks == {Reader} \cup Writers \cup Clients

ASSUME TasksAssumption ==
  /\ Reader \notin Writers \cup Clients
  /\ Writers \cap Clients = {}
  /\ None \notin Tasks
ASSUME ProAssumption == Pro \in BOOLEAN
ASSUME CapAssumption == BackoffCap \in Nat \ {0}

VARIABLES
  link,      \* LinkState
  handle,    \* the OS handle of the pipe: "none", "live", or "dead" (device gone)
  io,        \* what has happened on it: "ok", "failed" (a read failed), "torn" (a
             \* message was cut off), "mixed" (octets followed a cut-off message)
  holder,    \* the task that holds the link lock, or None
  queue,     \* the tasks waiting for it, in arrival order
  phase,     \* per task: where it is
  op,        \* per client: the request being served, or "none"
  answer,    \* per client: the answer to its last request, "none" until there is one
  gone,      \* clients that disconnected while their blocking task still runs
  may,       \* the reader: may_reopen of its current pass, read before it queued
  wait,      \* the reader: reopen_retry_interval of its run of failures, 0 for no run
  skips,     \* the reader: passes left before not_before
  plug,      \* the device on the cable: "absent", "cart", or "wrong"
  other      \* another process has the port open

vars == <<link, handle, io, holder, queue, phase, op, answer, gone,
          may, wait, skips, plug, other>>

lockVars    == <<holder, queue, phase>>
pipeVars    == <<link, handle, io>>
requestVars == <<op, answer, gone>>
backoffVars == <<may, wait, skips>>
worldVars   == <<plug, other>>

Ops     == {"status", "release", "resume"}
Answers == {"none", "active", "inactive", "busy", "released", "resumed", "503", "500"}

\* Phases in which a task holds the lock.
Holding == {"granted", "closing", "opening", "faulting"}

Init ==
  /\ \/ link = "Active" /\ handle = "live" /\ plug \in {"cart", "wrong"}
     \/ link = "Faulted" /\ handle = "none" /\ plug \in {"absent", "cart", "wrong"}
  /\ io = "ok"
  /\ holder = None
  /\ queue = <<>>
  /\ phase = [t \in Tasks |-> "idle"]
  /\ op = [c \in Clients |-> "none"]
  /\ answer = [c \in Clients |-> "none"]
  /\ gone = {}
  /\ may = TRUE
  /\ wait = 0
  /\ skips = 0
  /\ other \in {o \in BOOLEAN : o => handle = "none" /\ plug # "absent"}

-----------------------------------------------------------------------------
(* The lock: tokio's Mutex hands the permit to the first waiter.           *)

Lock(t) ==
  \/ /\ holder = None
     /\ holder' = t
     /\ phase' = [phase EXCEPT ![t] = "granted"]
     /\ UNCHANGED queue
  \/ /\ holder # None
     /\ queue' = Append(queue, t)
     /\ phase' = [phase EXCEPT ![t] = "queued"]
     /\ UNCHANGED holder

\* Variant: the last to arrive is served first.
Unlock_LastFirst(t) ==
  \/ /\ queue = <<>>
     /\ holder' = None
     /\ phase' = [phase EXCEPT ![t] = "idle"]
     /\ UNCHANGED queue
  \/ /\ queue # <<>>
     /\ holder' = queue[Len(queue)]
     /\ queue' = SubSeq(queue, 1, Len(queue) - 1)
     /\ phase' = [phase EXCEPT ![t] = "idle", ![queue[Len(queue)]] = "granted"]

Unlock(t) ==
  \/ /\ queue = <<>>
     /\ holder' = None
     /\ phase' = [phase EXCEPT ![t] = "idle"]
     /\ UNCHANGED queue
  \/ /\ queue # <<>>
     /\ holder' = Head(queue)
     /\ queue' = Tail(queue)
     /\ phase' = [phase EXCEPT ![t] = "idle", ![Head(queue)] = "granted"]

\* Variant: the wait is abandoned but its place in the queue is kept.
LeaveQueue_KeepsPlace(t) ==
  /\ phase[t] = "queued"
  /\ phase' = [phase EXCEPT ![t] = "idle"]
  /\ UNCHANGED <<queue, holder>>

\* A future that is dropped leaves the queue, wherever it stood.
LeaveQueue(t) ==
  /\ phase[t] = "queued"
  /\ \E i \in 1..Len(queue) : queue[i] = t /\ queue' = RemoveAt(queue, i)
  /\ phase' = [phase EXCEPT ![t] = "idle"]
  /\ UNCHANGED holder

To(t, p) ==
  /\ phase' = [phase EXCEPT ![t] = p]
  /\ UNCHANGED <<holder, queue>>

\* Answer a client and end its request; one that has gone hears nothing.
Reply(c, a) ==
  /\ answer' = [answer EXCEPT ![c] = IF c \in gone THEN "none" ELSE a]
  /\ op' = [op EXCEPT ![c] = "none"]
  /\ gone' = gone \ {c}

-----------------------------------------------------------------------------
(* The reader's reopen schedule (ReopenBackoff).  A pass that finds the    *)
(* link faulted too early sleeps one interval, so a wait of w intervals    *)
(* is w - 1 passes that do nothing.                                        *)

Least(a, b) == IF a < b THEN a ELSE b

BackoffReset == wait' = 0 /\ skips' = 0

\* Variant: the pass that failed is counted off even when no wait follows.
BackoffFailed_Underflow(reached) ==
  /\ wait' = IF ~reached THEN 0
             ELSE IF wait = 0 \/ ~Pro THEN 1
             ELSE Least(2 * wait, BackoffCap)
  /\ skips' = wait' - 1

BackoffFailed(reached) ==
  /\ wait' = IF ~reached THEN 0
             ELSE IF wait = 0 \/ ~Pro THEN 1
             ELSE Least(2 * wait, BackoffCap)
  /\ skips' = IF wait' > 1 THEN wait' - 1 ELSE 0

-----------------------------------------------------------------------------
(* Opening the port, for the reader or for a resume (open_pipe).           *)

PortOpens == plug # "absent" /\ ~other

OpenPort(t) ==
  /\ PortOpens
  /\ handle' = "live"
  /\ io' = "ok"
  /\ To(t, "opening")
  /\ UNCHANGED <<link, requestVars, backoffVars, worldVars>>

\* The pipe came up.  Only a PRO asks the device who it is.
OpenSucceeds(t) ==
  /\ phase[t] = "opening"
  /\ handle = "live"
  /\ Pro => plug = "cart"
  /\ link' = "Active"
  /\ Unlock(t)
  /\ UNCHANGED <<handle, io>>

\* Setup or the handshake failed; the half-open pipe is dropped.
OpenFails(t) ==
  /\ phase[t] = "opening"
  /\ handle = "dead" \/ (Pro /\ plug = "wrong")
  /\ handle' = "none"
  /\ Unlock(t)
  /\ UNCHANGED <<link, io>>

\* An I/O error was seen: drop the pipe and record the fault, same hold.
MarkFaulted(t) ==
  /\ phase[t] = "faulting"
  /\ handle' = "none"
  /\ link' = "Faulted"
  /\ Unlock(t)
  /\ UNCHANGED io

-----------------------------------------------------------------------------
(* The reader: one pass of cart_reader_loop, and read_once under the lock. *)

ReaderPass ==
  /\ phase[Reader] = "idle"
  /\ may' = (skips = 0)
  /\ Lock(Reader)
  /\ UNCHANGED <<pipeVars, requestVars, wait, skips, worldVars>>

ReaderGranted == phase[Reader] = "granted"

ReaderReleased ==
  /\ ReaderGranted
  /\ link = "Released"
  /\ BackoffReset
  /\ Unlock(Reader)
  /\ UNCHANGED <<pipeVars, requestVars, may, worldVars>>

\* Variant: a pass that found it too early starts the wait again.
ReaderBackingOff_Rearms ==
  /\ ReaderGranted
  /\ link = "Faulted"
  /\ ~may
  /\ skips' = IF wait > 1 THEN wait - 1 ELSE 0
  /\ Unlock(Reader)
  /\ UNCHANGED <<pipeVars, requestVars, may, wait, worldVars>>

ReaderBackingOff ==
  /\ ReaderGranted
  /\ link = "Faulted"
  /\ ~may
  /\ skips' = IF skips > 0 THEN skips - 1 ELSE 0
  /\ Unlock(Reader)
  /\ UNCHANGED <<pipeVars, requestVars, may, wait, worldVars>>

\* Variant: the reader reopens any link that is down.
ReaderOpen_AnyDown ==
  /\ ReaderGranted
  /\ link # "Active"
  /\ may
  /\ OpenPort(Reader)

ReaderOpen ==
  /\ ReaderGranted
  /\ link = "Faulted"
  /\ may
  /\ OpenPort(Reader)

ReaderNoPort ==
  /\ ReaderGranted
  /\ link = "Faulted"
  /\ may
  /\ ~PortOpens
  /\ BackoffFailed(FALSE)
  /\ Unlock(Reader)
  /\ UNCHANGED <<pipeVars, requestVars, may, worldVars>>

ReaderReopened ==
  /\ OpenSucceeds(Reader)
  /\ BackoffReset
  /\ UNCHANGED <<requestVars, may, worldVars>>

\* A device that vanished during setup may fail on the port or on itself.
ReaderRetryOpen ==
  /\ OpenFails(Reader)
  /\ \E reached \in {r \in BOOLEAN : handle = "live" => r} : BackoffFailed(reached)
  /\ UNCHANGED <<requestVars, may, worldVars>>

\* Data, nothing queued, or a message the pipe lost: the link is kept.
ReaderReads ==
  /\ ReaderGranted
  /\ link = "Active"
  /\ handle = "live"
  /\ BackoffReset
  /\ Unlock(Reader)
  /\ UNCHANGED <<pipeVars, requestVars, may, worldVars>>

\* Variant: the lock is released between the error and the fault.
ReaderFails_Unlocks ==
  /\ ReaderGranted
  /\ link = "Active"
  /\ io' = IF io = "ok" THEN "failed" ELSE io
  /\ Unlock(Reader)
  /\ UNCHANGED <<link, handle, requestVars, backoffVars, worldVars>>

ReaderFails ==
  /\ ReaderGranted
  /\ link = "Active"
  /\ io' = IF io = "ok" THEN "failed" ELSE io
  /\ To(Reader, "faulting")
  /\ UNCHANGED <<link, handle, requestVars, backoffVars, worldVars>>

ReaderFaults ==
  /\ MarkFaulted(Reader)
  /\ UNCHANGED <<requestVars, backoffVars, worldVars>>

-----------------------------------------------------------------------------
(* A WebSocket handler writing one message (write_to_link).                *)

WsMessage(w) ==
  /\ phase[w] = "idle"
  /\ Lock(w)
  /\ UNCHANGED <<pipeVars, requestVars, backoffVars, worldVars>>

WriteDropped(w) ==
  /\ phase[w] = "granted"
  /\ link # "Active"
  /\ Unlock(w)
  /\ UNCHANGED <<pipeVars, requestVars, backoffVars, worldVars>>

\* The device took all of it.
WriteDone(w) ==
  /\ phase[w] = "granted"
  /\ link = "Active"
  /\ handle = "live"
  /\ io' = IF io \in {"torn", "mixed"} THEN "mixed" ELSE io
  /\ Unlock(w)
  /\ UNCHANGED <<link, handle, requestVars, backoffVars, worldVars>>

\* Variant: a write that timed out is only logged.
WriteFails_KeepsLink(w) ==
  /\ phase[w] = "granted"
  /\ link = "Active"
  /\ io' = IF io \in {"torn", "mixed"} THEN "mixed" ELSE "torn"
  /\ Unlock(w)
  /\ UNCHANGED <<link, handle, requestVars, backoffVars, worldVars>>

\* It failed or timed out part way; the buffers are cleared and the pipe goes.
WriteFails(w) ==
  /\ phase[w] = "granted"
  /\ link = "Active"
  /\ io' = IF io \in {"torn", "mixed"} THEN "mixed" ELSE "torn"
  /\ To(w, "faulting")
  /\ UNCHANGED <<link, handle, requestVars, backoffVars, worldVars>>

WriterFaults(w) ==
  /\ MarkFaulted(w)
  /\ UNCHANGED <<requestVars, backoffVars, worldVars>>

-----------------------------------------------------------------------------
(* The HTTP handlers: root, post_serial_release, post_serial_resume.       *)

Request(c) ==
  /\ phase[c] = "idle"
  /\ \E o \in Ops : op' = [op EXCEPT ![c] = o]
  /\ answer' = [answer EXCEPT ![c] = "none"]
  /\ Lock(c)
  /\ UNCHANGED <<gone, pipeVars, backoffVars, worldVars>>

\* The wait for the lock ran out: 503, or "busy" from GET /.
TimeOut(c) ==
  /\ LeaveQueue(c)
  /\ Reply(c, IF op[c] = "status" THEN "busy" ELSE "503")
  /\ UNCHANGED <<pipeVars, backoffVars, worldVars>>

\* The connection closed: its future is dropped, and with it a place in the
\* queue or a guard; a blocking task already started runs on.
Disconnect(c) ==
  /\ \/ /\ LeaveQueue(c)
        /\ Reply(c, "none")
     \/ /\ phase[c] = "granted"
        /\ Unlock(c)
        /\ Reply(c, "none")
     \/ /\ phase[c] \in {"closing", "opening"}
        /\ c \notin gone
        /\ gone' = gone \cup {c}
        /\ UNCHANGED <<lockVars, op, answer>>
  /\ UNCHANGED <<pipeVars, backoffVars, worldVars>>

Status(c) ==
  /\ phase[c] = "granted"
  /\ op[c] = "status"
  /\ Reply(c, IF link = "Active" THEN "active" ELSE "inactive")
  /\ Unlock(c)
  /\ UNCHANGED <<pipeVars, backoffVars, worldVars>>

\* Assigning over the guard drops the old pipe, which closes the port, ...
ReleaseCloses(c) ==
  /\ phase[c] = "granted"
  /\ op[c] = "release"
  /\ handle' = "none"
  /\ To(c, "closing")
  /\ UNCHANGED <<link, io, requestVars, backoffVars, worldVars>>

\* ... and only then is the state written, the lock released and 200 sent.
ReleaseDone(c) ==
  /\ phase[c] = "closing"
  /\ link' = "Released"
  /\ Unlock(c)
  /\ Reply(c, "released")
  /\ UNCHANGED <<handle, io, backoffVars, worldVars>>

ResumeGranted(c) == phase[c] = "granted" /\ op[c] = "resume"

ResumeActive(c) ==
  /\ ResumeGranted(c)
  /\ link = "Active"
  /\ Reply(c, "resumed")
  /\ Unlock(c)
  /\ UNCHANGED <<pipeVars, backoffVars, worldVars>>

ResumeOpens(c) ==
  /\ ResumeGranted(c)
  /\ link # "Active"
  /\ OpenPort(c)

\* Variant: a resume that could not open leaves the link to the reader.
ResumeNoPort_Faults(c) ==
  /\ ResumeGranted(c)
  /\ link # "Active"
  /\ ~PortOpens
  /\ link' = "Faulted"
  /\ Reply(c, "500")
  /\ Unlock(c)
  /\ UNCHANGED <<handle, io, backoffVars, worldVars>>

ResumeNoPort(c) ==
  /\ ResumeGranted(c)
  /\ link # "Active"
  /\ ~PortOpens
  /\ Reply(c, "500")
  /\ Unlock(c)
  /\ UNCHANGED <<pipeVars, backoffVars, worldVars>>

ResumeDone(c) ==
  /\ OpenSucceeds(c)
  /\ Reply(c, "resumed")
  /\ UNCHANGED <<backoffVars, worldVars>>

ResumeFails(c) ==
  /\ OpenFails(c)
  /\ Reply(c, "500")
  /\ UNCHANGED <<backoffVars, worldVars>>

-----------------------------------------------------------------------------
(* The environment.                                                        *)

Unplug ==
  /\ plug # "absent"
  /\ plug' = "absent"
  /\ handle' = IF handle = "live" THEN "dead" ELSE handle
  /\ other' = FALSE
  /\ UNCHANGED <<link, io, lockVars, requestVars, backoffVars>>

Plug ==
  /\ plug = "absent"
  /\ plug' \in {"cart", "wrong"}
  /\ UNCHANGED <<pipeVars, lockVars, requestVars, backoffVars, other>>

\* Only one process can have the port open.
OtherOpens ==
  /\ PortOpens
  /\ handle # "live"
  /\ other' = TRUE
  /\ UNCHANGED <<pipeVars, lockVars, requestVars, backoffVars, plug>>

OtherCloses ==
  /\ other
  /\ other' = FALSE
  /\ UNCHANGED <<pipeVars, lockVars, requestVars, backoffVars, plug>>

-----------------------------------------------------------------------------

\* What the reader does once it has the lock; every call it makes returns.
ReaderTurn ==
  \/ ReaderReleased \/ ReaderBackingOff \/ ReaderOpen \/ ReaderNoPort
  \/ ReaderReopened \/ ReaderRetryOpen \/ ReaderReads \/ ReaderFails \/ ReaderFaults

WriterTurn(w) ==
  WriteDropped(w) \/ WriteDone(w) \/ WriteFails(w) \/ WriterFaults(w)

ClientTurn(c) ==
  \/ Status(c) \/ ReleaseCloses(c) \/ ReleaseDone(c)
  \/ ResumeActive(c) \/ ResumeOpens(c) \/ ResumeNoPort(c) \/ ResumeDone(c) \/ ResumeFails(c)

Environment == Unplug \/ Plug \/ OtherOpens \/ OtherCloses

Next ==
  \/ ReaderPass
  \/ ReaderTurn
  \/ \E w \in Writers : WsMessage(w) \/ WriterTurn(w)
  \/ \E c \in Clients : Request(c) \/ TimeOut(c) \/ Disconnect(c) \/ ClientTurn(c)
  \/ Environment

\* The runtime runs its tasks and every serial call has a timeout, so a task
\* that holds the lock goes on; nothing is assumed of clients or the device.
Fairness ==
  /\ WF_vars(ReaderPass)
  /\ WF_vars(ReaderTurn)
  /\ \A w \in Writers : WF_vars(WriterTurn(w))
  /\ \A c \in Clients : WF_vars(ClientTurn(c))

Spec == Init /\ [][Next]_vars
FairSpec == Spec /\ Fairness

-----------------------------------------------------------------------------
(* Properties.                                                             *)

\* Every variable has the type its comment gives it.  The wait of a run of failures
\* stays within its cap, which is one interval for every cart but a PRO, and the
\* passes still to be skipped are fewer than the intervals waited (ReopenBackoff).
TypeOK ==
  /\ link \in {"Active", "Released", "Faulted"}
  /\ handle \in {"none", "live", "dead"}
  /\ io \in {"ok", "failed", "torn", "mixed"}
  /\ holder \in Tasks \cup {None}
  /\ queue \in Seq(Tasks)
  /\ phase \in [Tasks -> Holding \cup {"idle", "queued"}]
  /\ op \in [Clients -> Ops \cup {"none"}]
  /\ answer \in [Clients -> Answers]
  /\ gone \in SUBSET Clients
  /\ may \in BOOLEAN
  /\ wait \in 0 .. (IF Pro THEN BackoffCap ELSE 1)
  /\ skips \in Nat /\ (skips # 0 => skips < wait)
  /\ plug \in {"absent", "cart", "wrong"}
  /\ other \in BOOLEAN

\* The lock and its waiters agree: exactly the holder is inside, the queue is
\* exactly the tasks that wait, each once, and nobody waits for a free lock.
\* A request that was refused is therefore nowhere it could still be served
\* from (post_serial_release and post_serial_resume after their timeout).
HolderInside == \A t \in Tasks : (holder = t) <=> (phase[t] \in Holding)

QueueExact ==
  /\ \A t \in Tasks : phase[t] = "queued" <=> \E i \in 1..Len(queue) : queue[i] = t
  /\ \A i, j \in 1..Len(queue) : queue[i] = queue[j] => i = j
  /\ holder = None => queue = <<>>

OpWhileBusy == \A c \in Clients : (op[c] = "none") <=> (phase[c] = "idle")

LockDiscipline == HolderInside /\ QueueExact /\ OpWhileBusy

\* The state the daemon reports is the state of its handle: whenever nobody is
\* inside the lock, Active means an open pipe on which no call has failed, and
\* Released or Faulted means no handle at all (read_once and write_to_link
\* fault the link under the lock hold that saw the error; post_serial_release
\* closes the port before it answers).
PipeAgrees ==
  holder = None =>
    /\ (link = "Active") <=> (handle # "none")
    /\ link = "Active" => io = "ok"

\* Octets never follow a message that was cut off on the same handle: the cart
\* would read them as the rest of it (write_to_link).
NoMixedStream == io # "mixed"

\* While released, the daemon has no handle on the port unless a resume is
\* being served: neither the reader's reopen nor a fault takes it back.
ReleasedPortIsFree ==
  link = "Released" /\ handle # "none" => \E c \in Clients : op[c] = "resume"

-----------------------------------------------------------------------------
(* What each phase says of the pipe while its task is inside the lock: the *)
(* strengthening that makes the properties above inductive.                *)

PhasesByTask ==
  /\ phase[Reader] # "closing"
  /\ \A w \in Writers : phase[w] \notin {"closing", "opening"}
  /\ \A c \in Clients : /\ phase[c] # "faulting"
                        /\ phase[c] = "opening" => op[c] = "resume"
                        /\ phase[c] = "closing" => op[c] = "release"

PhasesAndPipe ==
  /\ phase[Reader] = "opening" => link = "Faulted"
  /\ \A t \in Tasks : /\ phase[t] = "opening" =>
                           link # "Active" /\ handle # "none" /\ io = "ok"
                      /\ phase[t] = "closing" => handle = "none"
                      /\ phase[t] = "faulting" => link = "Active"

PipeExplained ==
  /\ handle # "none" => link = "Active" \/ \E t \in Tasks : phase[t] = "opening"
  /\ link = "Active" /\ handle = "none" => \E t \in Tasks : phase[t] = "closing"
  /\ link = "Active" /\ io # "ok" => \E t \in Tasks : phase[t] = "faulting"
  /\ NoMixedStream

IInv ==
  TypeOK /\ LockDiscipline /\ PhasesByTask /\ PhasesAndPipe /\ PipeExplained

\* The abstract promise, read off this state.
modeBar == IF link = "Released" THEN "yielded" ELSE "serving"
holdsBar == handle # "none"
Code(a) == IF a \in {"released", "resumed"} THEN "200" ELSE a
outBar == [c \in Clients |-> Code(answer[c])]

Abs == INSTANCE SerialYield WITH
  mode <- modeBar, holds <- holdsBar, pend <- op, out <- outBar

\* The link implements the API's promise: requests take effect at most once,
\* between being asked and being answered, and the answer tells the truth.
YieldRefined == Abs!Spec

\* Every request ends, whatever the device and the other clients do: the lock
\* is handed on in arrival order and nobody keeps it.
RequestsEnd == \A c \in Clients : phase[c] # "idle" ~> phase[c] = "idle"

\* A faulted link comes back by itself: if the cart stays plugged in, no other
\* process has the port and nobody releases, the link is Active again and
\* again, however long the backoff had become (cart_reader_loop).
FaultRecovers ==
  <>[](plug = "cart" /\ ~other /\ link # "Released") => []<>(link = "Active")
=============================================================================
