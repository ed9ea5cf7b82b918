------------------------------ MODULE FatCard ------------------------------
(***************************************************************************)
(* Copying a file to a FAT card and changing the case of its name, as      *)
(* Xfer64 does them over the fatfs crate, which has no atomic replacement. *)
(* A copy over a file is written under a temporary name beside it, and     *)
(* takes its place when it is complete.  Every call of the crate may fail, *)
(* a removal also after it has freed the file's clusters; a rename of the  *)
(* crate is one step.  The cable may come out, and the program may end.    *)
(***************************************************************************)
EXTENDS Naturals

VARIABLES
  folder,    \* what the folder holds under each name
  spelled,   \* the case the file's name is written in
  fatOp,     \* the operation's next call
  original,  \* what was under the name when it began
  target,    \* the name it writes: "passing" for a change of case
  message,   \* what the user was told of the last operation
  cut        \* the cable is out: every call fails, and changes nothing

fatVars == <<folder, spelled, fatOp, original, target, message, cut>>

\* "copy" is the temporary name of a replacement, "passing" that of a rename.
FatNames == {"name", "copy", "passing"}

\* "old" and "new" are whole; "part" is a copy being written; "freed" is an
\* entry whose clusters were freed under it.
Contents == {"none", "old", "new", "part", "freed"}

FatOps == {"idle", "look", "drop stale", "create", "write", "undo", "remove",
           "rename", "unmount", "away", "arrive", "put back"}

\* What is left of an operation when the next begins: whole or not.
Settled(c) == CASE c = "new" -> "old" [] c = "part" -> "freed" [] OTHER -> c

End(what) == fatOp' = "idle" /\ message' = what

Moved(from, to) == folder' = [folder EXCEPT ![to] = folder[from], ![from] = "none"]

\* A call of fatfs: a removal that fails may have freed the clusters first.
Removed(name) == ~cut /\ folder' = [folder EXCEPT ![name] = "none"]
NotRemoved(name) ==
  \/ UNCHANGED folder
  \/ ~cut /\ folder[name] # "none" /\ folder' = [folder EXCEPT ![name] = "freed"]

-----------------------------------------------------------------------------
(* A copy to the card.                                                     *)

BeginFat(recasing) ==
  /\ fatOp = "idle" /\ message = "nothing"
  /\ fatOp' = IF recasing THEN "away" ELSE "look"
  /\ target' = IF recasing THEN "passing" ELSE "name"
  /\ folder' = [n \in FatNames |-> Settled(folder[n])]
  /\ original' = folder'["name"]
  /\ spelled' = "old"
  /\ UNCHANGED <<message, cut>>

BeginFatCopy == BeginFat(FALSE)

\* Only "not found" means there is nothing to replace.
Look ==
  /\ fatOp = "look"
  /\ \/ /\ ~cut
        /\ IF folder["name"] = "none" THEN fatOp' = "create" /\ UNCHANGED target
           ELSE fatOp' = "drop stale" /\ target' = "copy"
        /\ UNCHANGED message
     \/ End("failed") /\ UNCHANGED target
  /\ UNCHANGED <<folder, spelled, original, cut>>

DropStale ==
  /\ fatOp = "drop stale"
  /\ Removed("copy") \/ NotRemoved("copy")
  /\ fatOp' = "create"
  /\ UNCHANGED <<spelled, original, target, message, cut>>

\* Variant: a replacement is written over the original.
CreateTarget_InPlace ==
  /\ fatOp = "create"
  /\ \/ /\ ~cut
        /\ folder' = [folder EXCEPT !["name"] = "part"]
        /\ fatOp' = "write" /\ target' = "name"
     \/ fatOp' = "undo" /\ UNCHANGED <<folder, target>>
  /\ UNCHANGED <<spelled, original, message, cut>>

\* Made, or opened and truncated.
CreateTarget ==
  /\ fatOp = "create"
  /\ \/ ~cut /\ folder' = [folder EXCEPT ![target] = "part"] /\ fatOp' = "write"
     \/ fatOp' = "undo" /\ UNCHANGED folder
  /\ UNCHANGED <<spelled, original, target, message, cut>>

\* The copy is complete when its size is flushed.  A source that ends early or
\* grows, a write that fails or a cancellation undo it.
WriteTarget ==
  /\ fatOp = "write"
  /\ \/ /\ ~cut
        /\ folder' = [folder EXCEPT ![target] = "new"]
        /\ fatOp' = IF target = "copy" THEN "remove" ELSE "unmount"
     \/ fatOp' = "undo" /\ UNCHANGED folder
  /\ UNCHANGED <<spelled, original, target, message, cut>>

UndoTarget ==
  /\ fatOp = "undo"
  /\ Removed(target) \/ NotRemoved(target)
  /\ End("failed")
  /\ UNCHANGED <<spelled, original, target, cut>>

RemoveOriginal ==
  /\ fatOp = "remove"
  /\ \/ Removed("name") /\ fatOp' = "rename" /\ UNCHANGED message
     \/ NotRemoved("name") /\ End("failed")
  /\ UNCHANGED <<spelled, original, target, cut>>

RenameCopy ==
  /\ fatOp = "rename"
  /\ \/ /\ ~cut
        /\ Moved("copy", "name")
        /\ fatOp' = "unmount" /\ UNCHANGED message
     \/ UNCHANGED folder /\ End("complete under its temporary name")
  /\ UNCHANGED <<spelled, original, target, cut>>

Unmount ==
  /\ fatOp = "unmount"
  /\ (~cut /\ End("done")) \/ End("failed to unmount")
  /\ UNCHANGED <<folder, spelled, original, target, cut>>

-----------------------------------------------------------------------------
(* A change of case.                                                       *)

BeginRecase == folder["name"] # "none" /\ BeginFat(TRUE)

\* Refused when a file carries the temporary name.
RenameAway ==
  /\ fatOp = "away"
  /\ \/ /\ ~cut /\ folder["passing"] = "none"
        /\ Moved("name", "passing")
        /\ fatOp' = "arrive" /\ UNCHANGED message
     \/ UNCHANGED folder /\ End("failed")
  /\ UNCHANGED <<spelled, original, target, cut>>

RenameArrive ==
  /\ fatOp = "arrive"
  /\ \/ /\ ~cut
        /\ Moved("passing", "name")
        /\ spelled' = "new"
        /\ fatOp' = "unmount"
     \/ fatOp' = "put back" /\ UNCHANGED <<folder, spelled>>
  /\ UNCHANGED <<original, target, message, cut>>

\* Variant: the undo's own failure is passed over.
FatPutBack_Unheeded ==
  /\ fatOp = "put back"
  /\ \/ ~cut /\ Moved("passing", "name")
     \/ UNCHANGED folder
  /\ End("failed")
  /\ UNCHANGED <<spelled, original, target, cut>>

FatPutBack ==
  /\ fatOp = "put back"
  /\ \/ /\ ~cut
        /\ Moved("passing", "name")
        /\ End("failed")
     \/ UNCHANGED folder /\ End("under its temporary name")
  /\ UNCHANGED <<spelled, original, target, cut>>

-----------------------------------------------------------------------------
(* The user reads the message; the cable, and the program's end.           *)

Acknowledge ==
  /\ fatOp = "idle" /\ message # "nothing"
  /\ message' = "nothing" /\ cut' = FALSE
  /\ UNCHANGED <<folder, spelled, fatOp, original, target>>

CablePulled ==
  /\ fatOp # "idle" /\ cut' = TRUE
  /\ UNCHANGED <<folder, spelled, fatOp, original, target, message>>

ProgramEnds ==
  /\ fatOp # "idle" /\ fatOp' = "idle" /\ cut' = FALSE
  /\ UNCHANGED <<folder, spelled, original, target, message>>

FatInit ==
  /\ folder = [n \in FatNames |-> IF n = "name" THEN "old" ELSE "none"]
  /\ spelled = "old" /\ fatOp = "idle" /\ original = "old" /\ target = "name"
  /\ message = "nothing" /\ cut = FALSE

FatNext ==
  \/ BeginFatCopy \/ Look \/ DropStale
  \/ CreateTarget \/ WriteTarget \/ UndoTarget
  \/ RemoveOriginal \/ RenameCopy \/ Unmount
  \/ BeginRecase \/ RenameAway \/ RenameArrive \/ FatPutBack
  \/ Acknowledge \/ CablePulled \/ ProgramEnds

FatSpec == FatInit /\ [][FatNext]_fatVars

-----------------------------------------------------------------------------
(* Properties.                                                             *)

\* A file that was whole when an operation on it began can be had from the
\* card at every moment, in its old form or its new one and under its own
\* name or the operation's temporary one, whichever call fails and wherever
\* the operation is cut short; and until a copy over it is complete it is
\* itself untouched.
FatFileKept ==
  original = "old" =>
    /\ \E n \in FatNames : folder[n] \in {"old", "new"}
    /\ fatOp \in {"look", "drop stale", "create", "write", "undo"} =>
          folder["name"] = "old"

\* What the user is told says where the file is.
FatTold ==
  /\ message = "done" =>
        IF target = "passing" THEN folder["name"] = original /\ spelled = "new"
        ELSE folder["name"] = "new" /\ folder["copy"] # "new"
  /\ message = "complete under its temporary name" => folder["copy"] = "new"
  /\ message = "under its temporary name" => folder["passing"] = original
  /\ message = "failed" /\ target = "passing" =>
        folder["name"] = original /\ spelled = "old"
=============================================================================
