---------------------------- MODULE BridgePause ----------------------------
(***************************************************************************)
(* Xfer64's operations on the cart pause multi64d around themselves, so    *)
(* that it gives up the serial port: each notes its pause, asks for a      *)
(* release, runs any number of cart commands, takes its note back and asks *)
(* for a resume.  Operations of several windows overlap, the bridge may go *)
(* down and come up at any time, and a request may be answered late.       *)
(* A command that finds the port taken during any pause asks the bridge to *)
(* release again, once, and notes nothing of it.                           *)
(***************************************************************************)
EXTENDS Naturals, Sequences, FiniteSets

CONSTANT Operations    \* the operations that may be under way at once

VARIABLES
  bridge,      \* multi64d: "down", "faulted" (wants the port), "active", "released"
  requests,    \* its queue: requests in the order they came, the first being served
  pauses,      \* Xfer64: how many pauses are noted
  doing,       \* what each operation is doing
  paused,      \* whether it noted a pause
  untaken,     \* the last resume came to nothing
  crossed      \* a second release came from an operation without a pause

pauseVars == <<bridge, requests, pauses, doing, paused, untaken, crossed>>

Waiting == {"releasing", "resuming", "re-releasing"}
Doings == Waiting \cup
  {"none", "probed", "noted", "working", "in session", "refused", "asking",
   "retrying", "last try", "failed", "ending"}

Become(o, what) == doing' = [doing EXCEPT ![o] = what]

\* A serial port is open for one process, and in Xfer64 for one session.
PortFree == bridge # "active" /\ \A o \in Operations : doing[o] # "in session"

-----------------------------------------------------------------------------
(* Requests.  A client that gives up on one leaves it only if it is being  *)
(* served; the bridge hands the link to the requests in order.             *)

Ask(o, what, waiting) ==
  IF bridge = "down"
  THEN /\ Become(o, IF what = "resume" THEN "none" ELSE "failed")
       /\ untaken' = (what = "resume" \/ untaken)
       /\ UNCHANGED requests
  ELSE /\ Become(o, waiting)
       /\ requests' = Append(requests, [from |-> {o}, what |-> what])
       /\ UNCHANGED untaken

\* What an operation does about an answer, or about none.
AfterAnswer(o, ok) ==
  CASE doing[o] = "releasing" -> IF ok THEN "working" ELSE "failed"
    [] doing[o] = "re-releasing" -> IF ok THEN "last try" ELSE "retrying"
    [] doing[o] = "resuming" -> "none"

Answer(r, ok) ==
  doing' = [o \in Operations |-> IF o \in r.from THEN AfterAnswer(o, ok) ELSE doing[o]]

ServeRelease ==
  /\ requests # <<>> /\ Head(requests).what = "release"
  /\ bridge' = "released"
  /\ requests' = Tail(requests)
  /\ Answer(Head(requests), TRUE)
  /\ UNCHANGED <<pauses, paused, untaken, crossed>>

\* A resume opens the port, and changes nothing when it cannot.
ServeResume ==
  /\ requests # <<>> /\ Head(requests).what = "resume"
  /\ requests' = Tail(requests)
  /\ \E opens \in {bridge = "active", PortFree, FALSE} :
        /\ bridge = "active" => opens
        /\ bridge' = IF opens THEN "active" ELSE bridge
        /\ untaken' = ~opens
        /\ Answer(Head(requests), opens)
  /\ UNCHANGED <<pauses, paused, crossed>>

\* The client's timeout, or the bridge's own deadline.
GiveUpWaiting(o) ==
  /\ doing[o] \in Waiting
  /\ \E i \in 1..Len(requests) :
        /\ o \in requests[i].from
        /\ requests' =
             IF i = 1 THEN <<[from |-> {}, what |-> requests[1].what]>> \o Tail(requests)
             ELSE SubSeq(requests, 1, i - 1) \o SubSeq(requests, i + 1, Len(requests))
  /\ Become(o, AfterAnswer(o, FALSE))
  /\ untaken' = (doing[o] = "resuming" \/ untaken)
  /\ UNCHANGED <<bridge, pauses, paused, crossed>>

BridgeDies ==
  /\ bridge # "down"
  /\ bridge' = "down"
  /\ requests' = <<>>
  /\ doing' = [o \in Operations |->
                 IF doing[o] \in Waiting THEN AfterAnswer(o, FALSE) ELSE doing[o]]
  /\ untaken' = FALSE
  /\ UNCHANGED <<pauses, paused, crossed>>

\* A bridge that comes up knows of no release and wants its port.
BridgeStarts ==
  /\ bridge = "down"
  /\ bridge' = "faulted"
  /\ UNCHANGED <<requests, pauses, doing, paused, untaken, crossed>>

BridgeReopens ==
  /\ bridge = "faulted" /\ PortFree
  /\ bridge' = "active"
  /\ UNCHANGED <<requests, pauses, doing, paused, untaken, crossed>>

-----------------------------------------------------------------------------
(* An operation.                                                           *)

\* With no bridge to pause, it works without a pause.
ProbeBridge(o) ==
  /\ doing[o] = "none"
  /\ \/ bridge # "down" /\ Become(o, "probed")
     \/ Become(o, "working")
  /\ UNCHANGED <<bridge, requests, pauses, paused, untaken, crossed>>

\* The user may decline, and nothing is released or resumed.
Decline(o) ==
  /\ doing[o] = "probed"
  /\ Become(o, "none")
  /\ UNCHANGED <<bridge, requests, pauses, paused, untaken, crossed>>

NoteRelease(o) ==
  /\ doing[o] = "probed"
  /\ pauses' = pauses + 1
  /\ paused' = [paused EXCEPT ![o] = TRUE]
  /\ Become(o, "noted")
  /\ UNCHANGED <<bridge, requests, untaken, crossed>>

SendRelease(o) ==
  /\ doing[o] = "noted"
  /\ Ask(o, "release", "releasing")
  /\ UNCHANGED <<bridge, pauses, paused, crossed>>

\* A cart command opens its session, in turn with the others'.
OpenCart(o) ==
  /\ doing[o] \in {"working", "retrying", "last try"}
  /\ \A p \in Operations : doing[p] # "in session"
  /\ IF PortFree THEN Become(o, "in session")
     ELSE Become(o, IF doing[o] = "working" THEN "refused" ELSE "failed")
  /\ UNCHANGED <<bridge, requests, pauses, paused, untaken, crossed>>

CloseCart(o) ==
  /\ doing[o] = "in session"
  /\ Become(o, "working")
  /\ UNCHANGED <<bridge, requests, pauses, paused, untaken, crossed>>

\* Is a pause noted?  Outside one, only a port that Auto remembered is looked
\* for again.
LookForPause(o) ==
  /\ doing[o] = "refused"
  /\ Become(o, IF pauses > 0 THEN "asking" ELSE "retrying")
  /\ UNCHANGED <<bridge, requests, pauses, paused, untaken, crossed>>

\* Variant: the second release is counted as another pause.
ReleaseAgain_Counted(o) ==
  /\ doing[o] = "asking"
  /\ IF bridge = "active"
     THEN /\ Ask(o, "release", "re-releasing")
          /\ crossed' = (crossed \/ ~paused[o])
          /\ pauses' = pauses + 1
     ELSE Become(o, "retrying") /\ UNCHANGED <<requests, untaken, crossed, pauses>>
  /\ UNCHANGED <<bridge, paused>>

\* Does the bridge hold the port, and is it refused?
ReleaseAgain(o) ==
  /\ doing[o] = "asking"
  /\ IF bridge = "active"
     THEN /\ Ask(o, "release", "re-releasing")
          /\ crossed' = (crossed \/ ~paused[o])
     ELSE Become(o, "retrying") /\ UNCHANGED <<requests, untaken, crossed>>
  /\ UNCHANGED <<bridge, pauses, paused>>

\* The port Auto did not remember is not tried again.
NoRetry(o) ==
  /\ doing[o] = "retrying"
  /\ Become(o, "failed")
  /\ UNCHANGED <<bridge, requests, pauses, paused, untaken, crossed>>

\* Variant: work that failed ends without a resume.
NoteResume_NotFailed(o) ==
  /\ doing[o] \in {"working", "failed"}
  /\ IF paused[o] THEN pauses' = pauses - 1 ELSE UNCHANGED pauses
  /\ Become(o, IF paused[o] /\ doing[o] = "working" THEN "ending" ELSE "none")
  /\ paused' = [paused EXCEPT ![o] = FALSE]
  /\ UNCHANGED <<bridge, requests, untaken, crossed>>

\* Whether the work was done or failed, the note goes before the request.
NoteResume(o) ==
  /\ doing[o] \in {"working", "failed"}
  /\ IF paused[o] THEN pauses' = pauses - 1 /\ Become(o, "ending")
                  ELSE Become(o, "none") /\ UNCHANGED pauses
  /\ paused' = [paused EXCEPT ![o] = FALSE]
  /\ UNCHANGED <<bridge, requests, untaken, crossed>>

SendResume(o) ==
  /\ doing[o] = "ending"
  /\ Ask(o, "resume", "resuming")
  /\ UNCHANGED <<bridge, pauses, paused, crossed>>

-----------------------------------------------------------------------------
PauseInit ==
  /\ bridge = "down" /\ requests = <<>> /\ pauses = 0
  /\ doing = [o \in Operations |-> "none"]
  /\ paused = [o \in Operations |-> FALSE]
  /\ untaken = FALSE /\ crossed = FALSE

PauseNext ==
  \/ ServeRelease \/ ServeResume \/ BridgeDies \/ BridgeStarts \/ BridgeReopens
  \/ \E o \in Operations :
        \/ GiveUpWaiting(o) \/ ProbeBridge(o) \/ Decline(o)
        \/ NoteRelease(o) \/ SendRelease(o) \/ OpenCart(o) \/ CloseCart(o)
        \/ LookForPause(o) \/ ReleaseAgain(o) \/ NoRetry(o)
        \/ NoteResume(o) \/ SendResume(o)

PauseSpec == PauseInit /\ [][PauseNext]_pauseVars

-----------------------------------------------------------------------------
(* Properties.                                                             *)

\* Every variable stays in its type.
PauseTypeOK ==
  /\ bridge \in {"down", "faulted", "active", "released"}
  /\ requests \in Seq([from : SUBSET Operations, what : {"release", "resume"}])
  /\ pauses \in Nat
  /\ doing \in [Operations -> Doings]
  /\ paused \in [Operations -> BOOLEAN]
  /\ untaken \in BOOLEAN /\ crossed \in BOOLEAN

\* The notes are those of the operations between their release and their
\* resume: a command in another's pause, or after a failed one, is neither
\* denied its second release nor granted one that nobody answers for.
PausesNoted == pauses = Cardinality({o \in Operations : paused[o]})

\* When no operation is under way and no request on its way, the bridge is
\* not left released, unless the last resume came to nothing: a second
\* release is answered for by the resume of the pause it was made in, even
\* when pauses overlap, the bridge restarts in one, or an answer is late.
\* (It is not when an operation that found no bridge to pause asks for it.)
BridgeGivenBack ==
  (\A o \in Operations : doing[o] = "none") /\ requests = <<>> =>
     bridge # "released" \/ untaken \/ crossed
=============================================================================
