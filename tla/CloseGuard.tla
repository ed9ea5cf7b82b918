----------------------------- MODULE CloseGuard -----------------------------
(***************************************************************************)
(* Closing Xfer64.  Every window reports to the backend when its work      *)
(* begins and when the last of it ends; reports are sent without waiting   *)
(* and may arrive in any order.  A close while any window works is held    *)
(* and the window told of it: it may cancel its operation and have Xfer64  *)
(* exit once all is idle.  A close asked for often enough exits anyway.    *)
(***************************************************************************)
EXTENDS Naturals

CONSTANTS
  Windows,
  Copying,      \* bound: the windows in which operations are started
  ForceAfter,   \* FORCE_AFTER: the held close that exits regardless
  MaxReports    \* bound: reports of a window

ASSUME ForceAfterAssumption == ForceAfter \in Nat \ {0}

VARIABLES
  reading,      \* per window: a cart read is under way
  operating,    \* per window: an operation is under way, from pausing on
  seq,          \* per window: how many reports it has sent
  reports,      \* the reports on their way
  latest,       \* backend: the latest report of each window
  closing,      \* backend: close_when_idle
  held,         \* backend: closes held since nothing was busy
  told,         \* windows that a held close was announced to
  exited        \* "no", "idle", "forced"

closeVars == <<reading, operating, seq, reports, latest, closing, held, told, exited>>
guardVars == <<closing, held, told, latest, exited>>

Working(w) == reading[w] \/ operating[w]
GuardBusy == \E w \in Windows : latest[w].busy

\* Only the first work to begin and the last to end are reported.
Report(w) ==
  IF Working(w)' = Working(w) THEN UNCHANGED <<seq, reports>>
  ELSE /\ seq[w] < MaxReports
       /\ seq' = [seq EXCEPT ![w] = @ + 1]
       /\ reports' = reports \cup
                       {[window |-> w, seq |-> seq[w] + 1, busy |-> Working(w)']}

BeginRead(w) ==
  /\ exited = "no" /\ ~reading[w]
  /\ reading' = [reading EXCEPT ![w] = TRUE]
  /\ UNCHANGED operating
  /\ Report(w)
  /\ UNCHANGED guardVars

EndRead(w) ==
  /\ exited = "no" /\ reading[w]
  /\ reading' = [reading EXCEPT ![w] = FALSE]
  /\ UNCHANGED operating
  /\ Report(w)
  /\ UNCHANGED guardVars

BeginOperation(w) ==
  /\ exited = "no" /\ ~operating[w] /\ w \in Copying
  /\ operating' = [operating EXCEPT ![w] = TRUE]
  /\ UNCHANGED reading
  /\ Report(w)
  /\ UNCHANGED guardVars

\* It is done, failed, or was cancelled.
EndOperation(w) ==
  /\ exited = "no" /\ operating[w]
  /\ operating' = [operating EXCEPT ![w] = FALSE]
  /\ UNCHANGED reading
  /\ Report(w)
  /\ UNCHANGED guardVars

-----------------------------------------------------------------------------
(* The backend.                                                            *)

\* Variant: reports are believed as they come.
SetBusy_AsTheyCome(r) ==
  /\ exited = "no"
  /\ reports' = reports \ {r}
  /\ latest' = [latest EXCEPT ![r.window] = [seq |-> r.seq, busy |-> r.busy]]
  /\ held' = IF \E w \in Windows : latest'[w].busy THEN held ELSE 0
  /\ exited' = IF closing /\ held' = 0 THEN "idle" ELSE "no"
  /\ UNCHANGED <<reading, operating, seq, closing, told>>

\* Variant: closes held during the last work count against the next.
SetBusy_KeepsCount(r) ==
  /\ exited = "no"
  /\ reports' = reports \ {r}
  /\ IF r.seq <= latest[r.window].seq THEN UNCHANGED <<latest, exited>>
     ELSE /\ latest' = [latest EXCEPT ![r.window] = [seq |-> r.seq, busy |-> r.busy]]
          /\ exited' = IF closing /\ \A w \in Windows : ~latest'[w].busy
                       THEN "idle" ELSE "no"
  /\ UNCHANGED <<reading, operating, seq, closing, held, told>>

\* set_busy: a report older than the last seen is ignored.
SetBusy(r) ==
  /\ exited = "no"
  /\ reports' = reports \ {r}
  /\ IF r.seq <= latest[r.window].seq THEN UNCHANGED <<latest, held, exited>>
     ELSE LET others == \E w \in Windows \ {r.window} : latest[w].busy
              idle == ~r.busy /\ ~others
          IN /\ latest' = [latest EXCEPT ![r.window] = [seq |-> r.seq, busy |-> r.busy]]
             /\ held' = IF idle THEN 0 ELSE held
             /\ exited' = IF closing /\ idle THEN "idle" ELSE "no"
  /\ UNCHANGED <<reading, operating, seq, closing, told>>

\* on_close_requested
CloseClicked(w) ==
  /\ exited = "no"
  /\ IF ~GuardBusy THEN exited' = "idle" /\ UNCHANGED <<held, told>>
     ELSE /\ held' = held + 1
          /\ IF held + 1 >= ForceAfter THEN exited' = "forced" /\ UNCHANGED told
             ELSE told' = told \cup {w} /\ UNCHANGED exited
  /\ UNCHANGED <<reading, operating, seq, reports, latest, closing>>

\* explorer_close_when_idle, upload_picker_close
CloseWhenIdle ==
  /\ closing' = TRUE
  /\ exited' = IF GuardBusy THEN exited ELSE "idle"

\* The window hears of a held close.  With no operation it waits for its read;
\* otherwise its user may let it go on, or cancel it first.
HearClose(w) ==
  /\ exited = "no" /\ w \in told
  /\ told' = told \ {w}
  /\ \/ CloseWhenIdle
     \/ operating[w] /\ UNCHANGED <<closing, exited>>
  /\ UNCHANGED <<reading, operating, seq, reports, latest, held>>

\* Quick upload's Close button.
PickerCloses ==
  /\ exited = "no"
  /\ CloseWhenIdle
  /\ UNCHANGED <<reading, operating, seq, reports, latest, held, told>>

CloseInit ==
  /\ reading = [w \in Windows |-> FALSE]
  /\ operating = [w \in Windows |-> FALSE]
  /\ seq = [w \in Windows |-> 0]
  /\ reports = {}
  /\ latest = [w \in Windows |-> [seq |-> 0, busy |-> FALSE]]
  /\ closing = FALSE /\ held = 0 /\ told = {}
  /\ exited = "no"

CloseNext ==
  \/ \E w \in Windows :
        \/ BeginRead(w) \/ EndRead(w) \/ BeginOperation(w) \/ EndOperation(w)
        \/ CloseClicked(w) \/ HearClose(w)
  \/ PickerCloses
  \/ \E r \in reports : SetBusy(r)

CloseSpec == CloseInit /\ [][CloseNext]_closeVars

-----------------------------------------------------------------------------
(* Properties.                                                             *)

\* Every variable stays in its type; in particular a close is held fewer than
\* ForceAfter times while Xfer64 runs.
CloseTypeOK ==
  /\ reading \in [Windows -> BOOLEAN]
  /\ operating \in [Windows -> BOOLEAN]
  /\ seq \in [Windows -> Nat]
  /\ reports \subseteq [window : Windows, seq : Nat, busy : BOOLEAN]
  /\ latest \in [Windows -> [seq : Nat, busy : BOOLEAN]]
  /\ closing \in BOOLEAN
  /\ told \subseteq Windows
  /\ exited \in {"no", "idle", "forced"}
  /\ held \in 0..ForceAfter
  /\ exited # "forced" => held < ForceAfter

\* Unless the user insisted, Xfer64 exits while a window works only if that
\* window's report of it has not arrived yet: no older report can undo a
\* newer one, and no window's idle stands for another's.
ExitsWhenIdle ==
  exited = "idle" =>
    \A w \in Windows : Working(w) =>
      \E r \in reports : r.window = w /\ r.seq = seq[w] /\ r.busy

\* Once every report has arrived, the backend knows who works, in whatever
\* order they came: a close is neither held for nothing nor let through.
GuardCatchesUp ==
  exited = "no" /\ reports = {} => \A w \in Windows : latest[w].busy = Working(w)

\* Xfer64 can always be closed: a close that waits for idleness is not left
\* waiting when there is none, and closes are counted only against work that
\* goes on.
CloseNotForgotten ==
  exited = "no" /\ ~GuardBusy => ~closing /\ held = 0
=============================================================================
