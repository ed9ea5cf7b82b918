---------------------------- MODULE SerialYield ----------------------------
(***************************************************************************)
(* What the daemon promises about its serial port over HTTP, with no lock, *)
(* no reader and no I/O: docs/spec/daemon-api-v1.md sections 1.1 to 1.3.   *)
(* A request is asked, takes effect at most once, and is answered.  The    *)
(* daemon either serves the port or has yielded it; while it has yielded   *)
(* it takes the port only for a resume that somebody is waiting on.        *)
(***************************************************************************)
CONSTANTS Clients

VARIABLES
  mode,    \* "serving", or "yielded" after a release took effect
  holds,   \* the daemon has an open handle on the port
  pend,    \* per client: the request it is waiting on, or "none"
  out      \* per client: the last answer it was given, or "none"

vars == <<mode, holds, pend, out>>

Asked(c, o) == pend[c] = o

Answer(c, a) ==
  /\ pend' = [pend EXCEPT ![c] = "none"]
  /\ out' = [out EXCEPT ![c] = a]

\* Nobody but c is waiting for a resume.
OnlyResume(c) == \A d \in Clients \ {c} : pend[d] # "resume"

Init ==
  /\ mode = "serving"
  /\ holds \in BOOLEAN
  /\ pend = [c \in Clients |-> "none"]
  /\ out = [c \in Clients |-> "none"]

Ask(c) ==
  /\ Asked(c, "none")
  /\ \E o \in {"status", "release", "resume"} :
        pend' = [pend EXCEPT ![c] = o]
  /\ out' = [out EXCEPT ![c] = "none"]
  /\ UNCHANGED <<mode, holds>>

\* GET / either looked at the link, or could not within its deadline.
Report(c) ==
  /\ Asked(c, "status")
  /\ Answer(c, IF holds THEN "active" ELSE "inactive") \/ Answer(c, "busy")
  /\ UNCHANGED <<mode, holds>>

\* The request is dropped without effect, refused with 503 or unanswered
\* because its client has gone; a resume that holds the port is not.
Refuse(c) ==
  /\ ~Asked(c, "none")
  /\ mode = "yielded" /\ holds => ~OnlyResume(c)
  /\ Answer(c, "503") \/ Answer(c, "none")
  /\ UNCHANGED <<mode, holds>>

\* A release takes effect: the port is closed before anyone reads 200.
Yield(c) ==
  /\ Asked(c, "release")
  /\ mode' = "yielded"
  /\ ~holds
  /\ Answer(c, "200") \/ Answer(c, "none")
  /\ UNCHANGED holds

\* A resume takes effect only with the port open.
Regain(c) ==
  /\ Asked(c, "resume")
  /\ holds
  /\ mode' = "serving"
  /\ Answer(c, "200") \/ Answer(c, "none")
  /\ UNCHANGED holds

\* A resume that could not open the port leaves the mode as it was.
FailResume(c) ==
  /\ Asked(c, "resume")
  /\ holds' = FALSE
  /\ Answer(c, "500") \/ Answer(c, "none")
  /\ UNCHANGED mode

TakePort ==
  /\ ~holds
  /\ mode = "serving" \/ \E c \in Clients : Asked(c, "resume")
  /\ holds' = TRUE
  /\ UNCHANGED <<mode, pend, out>>

DropPort ==
  /\ holds
  /\ holds' = FALSE
  /\ UNCHANGED <<mode, pend, out>>

Next ==
  \/ \E c \in Clients :
        Ask(c) \/ Report(c) \/ Refuse(c) \/ Yield(c) \/ Regain(c) \/ FailResume(c)
  \/ TakePort
  \/ DropPort

Spec == Init /\ [][Next]_vars
=============================================================================
