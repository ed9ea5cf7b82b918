---------------------------- MODULE SdCardProofs ----------------------------
(***************************************************************************)
(* What ExfatCard and FatCard promise of a card, for every card, name and  *)
(* size and for every number of commands and faults.                       *)
(***************************************************************************)
EXTENDS ExfatCard, FatCard, FiniteSetTheorems, SequenceTheorems,
        WellFoundedInduction, TLAPS

-----------------------------------------------------------------------------
(* A FAT card: what each call of an operation finds.                       *)

Messages == {"nothing", "done", "failed", "failed to unmount",
             "complete under its temporary name", "under its temporary name"}

FatTypes ==
  /\ folder \in [FatNames -> Contents] /\ original \in Contents
  /\ spelled \in {"old", "new"} /\ fatOp \in FatOps
  /\ target \in FatNames /\ message \in Messages /\ cut \in BOOLEAN

\* Nothing is told before the end.
Untold == fatOp # "idle" => message = "nothing"

\* A whole file that was there is there.
Whole == original = "old" => \E n \in FatNames : folder[n] \in {"old", "new"}

\* Until a copy is complete, it is not the file: that is as it was, or there
\* was none and the copy is made under its name.
CopyAside ==
  /\ fatOp \in {"look", "drop stale"} => folder["name"] = original
  /\ fatOp = "look" => target = "name"
  /\ fatOp = "drop stale" => target = "copy"
  /\ fatOp \in {"create", "write", "undo"} =>
       \/ target = "copy" /\ folder["name"] = original
       \/ target = "name" /\ original = "none"
  /\ fatOp \in {"look", "create", "write", "undo"} /\ target = "name" =>
       folder["copy"] # "new"

\* From then on it is whole: beside the file, or in its place.
CopyComplete ==
  /\ fatOp \in {"remove", "rename"} => target = "copy" /\ folder["copy"] = "new"
  /\ fatOp = "remove" => folder["name"] = original
  /\ fatOp = "unmount" /\ target # "passing" =>
       folder["name"] = "new" /\ folder["copy"] # "new"

\* A file whose case is changed is under the one name or the other.
Recasing ==
  /\ fatOp \in {"away", "arrive", "put back"} => target = "passing" /\ spelled = "old"
  /\ fatOp = "away" => folder["name"] = original
  /\ fatOp \in {"arrive", "put back"} => folder["passing"] = original
  /\ fatOp = "unmount" /\ target = "passing" =>
       folder["name"] = original /\ spelled = "new"

FatHolds ==
  /\ FatTypes /\ Untold /\ Whole /\ CopyAside /\ CopyComplete /\ Recasing
  /\ FatTold

LEMMA FatStarts == FatInit => FatHolds
BY DEF FatInit, FatHolds, FatTypes, Untold, Whole, CopyAside, CopyComplete, Recasing,
       FatTold, FatNames, Contents, FatOps, Messages

LEMMA FatIdles == FatHolds /\ UNCHANGED fatVars => FatHolds'
  <1> SUFFICES ASSUME FatHolds, UNCHANGED fatVars PROVE FatHolds'
    OBVIOUS
  <1>1. FatTypes' /\ Untold' /\ Whole'
    BY DEF FatHolds, fatVars, FatTypes, Untold, Whole
  <1>2. CopyAside' /\ CopyComplete' /\ Recasing' /\ FatTold'
    BY DEF FatHolds, fatVars, CopyAside, CopyComplete, Recasing, FatTold
  <1> QED  BY <1>1, <1>2 DEF FatHolds

LEMMA FatStep == FatHolds /\ [FatNext]_fatVars => FatHolds'
  <1> SUFFICES ASSUME FatHolds, [FatNext]_fatVars PROVE FatHolds'
    OBVIOUS
  <1> USE DEF FatHolds, FatTypes, Untold, Whole, CopyAside, CopyComplete, Recasing,
              FatTold, FatNames, Contents, FatOps, Messages
  <1>1. CASE BeginFatCopy
    BY <1>1 DEF BeginFatCopy, BeginFat, Settled
  <1>2. CASE Look
    <2>1. CASE fatOp' = "idle"
      BY <1>2, <2>1 DEF Look, End
    <2>2. CASE fatOp' = "create"
      BY <1>2, <2>2 DEF Look, End
    <2>3. CASE fatOp' = "drop stale"
      BY <1>2, <2>3 DEF Look, End
    <2> QED  BY <1>2, <2>1, <2>2, <2>3 DEF Look, End
  <1>3. CASE DropStale
    BY <1>3 DEF DropStale, Removed, NotRemoved
  <1>4. CASE CreateTarget
    <2>1. CASE fatOp' = "undo"
      BY <1>4, <2>1 DEF CreateTarget
    <2>2. CASE fatOp' = "write" /\ target = "copy"
      BY <1>4, <2>2 DEF CreateTarget
    <2>3. CASE fatOp' = "write" /\ target = "name"
      BY <1>4, <2>3 DEF CreateTarget
    <2> QED  BY <1>4, <2>1, <2>2, <2>3 DEF CreateTarget
  <1>5. CASE WriteTarget
    BY <1>5 DEF WriteTarget
  <1>6. CASE UndoTarget
    BY <1>6 DEF UndoTarget, Removed, NotRemoved, End
  <1>7. CASE RemoveOriginal
    BY <1>7 DEF RemoveOriginal, Removed, NotRemoved, End
  <1>8. CASE RenameCopy
    BY <1>8 DEF RenameCopy, Moved, End
  <1>9. CASE Unmount
    BY <1>9 DEF Unmount, End
  <1>10. CASE BeginRecase
    BY <1>10 DEF BeginRecase, BeginFat, Settled
  <1>11. CASE RenameAway
    BY <1>11 DEF RenameAway, Moved, End
  <1>12. CASE RenameArrive
    BY <1>12 DEF RenameArrive, Moved
  <1>13. CASE FatPutBack
    BY <1>13 DEF FatPutBack, Moved, End
  <1>14. CASE Acknowledge
    BY <1>14 DEF Acknowledge
  <1>15. CASE CablePulled
    BY <1>15 DEF CablePulled
  <1>16. CASE ProgramEnds
    BY <1>16 DEF ProgramEnds
  <1>17. CASE UNCHANGED fatVars
    BY <1>17, FatIdles
  <1> QED  BY <1>1, <1>2, <1>3, <1>4, <1>5, <1>6, <1>7, <1>8, <1>9, <1>10, <1>11, <1>12, <1>13, <1>14, <1>15, <1>16, <1>17 DEF FatNext

\* A file that was whole when an operation on it began can be had from the
\* card at every moment, and until a copy over it is complete it is itself
\* untouched, whichever call of the fatfs crate fails, wherever the cable comes
\* out and wherever the program ends (FatFileKept): the code writes a
\* replacement under a temporary name and removes the original only after.
THEOREM FatKeepsFiles == FatSpec => []FatFileKept
  <1>1. FatHolds => FatFileKept
    BY DEF FatHolds, FatFileKept, Whole, CopyAside
  <1> QED  BY <1>1, FatStarts, FatStep, PTL DEF FatSpec

\* What the user is told of a copy or of a change of case says under which name
\* the file is, whole (FatTold): an operation that fails on the way says so, or
\* names the temporary name the file was left under.
THEOREM FatTellsWhere == FatSpec => []FatTold
  <1>1. FatHolds => FatTold
    BY DEF FatHolds
  <1> QED  BY <1>1, FatStarts, FatStep, PTL DEF FatSpec
-----------------------------------------------------------------------------
(* An exFAT card: what a command has taken while nothing failed.           *)

USE CardsAssumption

\* A set of numbers that is not empty has a least one.
LEMMA LeastIs ==
  ASSUME NEW I, I \subseteq Nat, I # {}
  PROVE  Min(I) \in I /\ \A y \in I : Min(I) <= y
  <1> DEFINE Less == {ss \in Nat \X Nat : ss[1] < ss[2]}
  <1>1. IsWellFoundedOn(Less, Nat)
    BY NatLessThanWellFounded, Zenon DEF OpToRel
  <1> HIDE DEF Less
  <1>2. PICK x \in I : \A y \in I : ~ (<<y, x>> \in Less)
    BY <1>1, WFMin
  <1>3. ASSUME NEW y \in I PROVE x <= y
    <2>1. y \in Nat /\ x \in Nat
      OBVIOUS
    <2>2. y < x => <<y, x>> \in Less
      BY <2>1 DEF Less
    <2> QED  BY <1>2, <2>1, <2>2
  <1> QED  BY <1>3 DEF Min

Ordered(p, n, F) ==
  \A i \in 1..n : {c \in F : c < p[i]} = {p[j] : j \in 1..i - 1}

\* Fewer than the free clusters leave one over.
LEMMA OneMore ==
  ASSUME NEW F, IsFiniteSet(F), NEW m \in Nat, m < Cardinality(F),
         NEW p \in [1..m -> F]
  PROVE  F \ {p[j] : j \in 1..m} # {}
  <1> SUFFICES ASSUME F \subseteq {p[j] : j \in 1..m} PROVE FALSE
    OBVIOUS
  <1>1. IsFiniteSet(1..m) /\ Cardinality(1..m) = m
    BY FS_Interval
  <1>2. p \in Surjection(1..m, F)
    BY DEF Surjection
  <1>3. Cardinality(F) <= m
    BY <1>1, <1>2, FS_Surjection
  <1> QED  BY <1>3, FS_CardinalityType

\* The clusters taken so far and the least of the others.
LEMMA NextInOrder ==
  ASSUME NEW F, F \subseteq Nat, NEW m \in Nat, NEW p \in [1..m -> F],
         Ordered(p, m, F), NEW x \in F, x \notin {p[j] : j \in 1..m},
         \A y \in F \ {p[j] : j \in 1..m} : x <= y
  PROVE  \E q \in [1..m + 1 -> F] : Ordered(q, m + 1, F)
  <1> DEFINE q == [i \in 1..m + 1 |-> IF i = m + 1 THEN x ELSE p[i]]
  <1>1. q \in [1..m + 1 -> F]
    OBVIOUS
  <1>2. \A i \in 1..m : q[i] = p[i]
    OBVIOUS
  <1>3. q[m + 1] = x
    OBVIOUS
  <1> HIDE DEF q
  <1>4. ASSUME NEW i \in 1..m PROVE {c \in F : c < q[i]} = {q[j] : j \in 1..i - 1}
    BY <1>2 DEF Ordered
  <1>5. {c \in F : c < x} = {p[j] : j \in 1..m}
    <2>1. ASSUME NEW c \in F, c < x PROVE c \in {p[j] : j \in 1..m}
      BY <2>1
    <2>2. ASSUME NEW j \in 1..m PROVE p[j] < x
      <3>1. p[j] \in Nat /\ x \in Nat /\ p[j] # x
        OBVIOUS
      <3>2. ~ (x < p[j])
        BY DEF Ordered
      <3> QED  BY <3>1, <3>2
    <2> QED  BY <2>1, <2>2
  <1>6. {q[j] : j \in 1..(m + 1) - 1} = {p[j] : j \in 1..m}
    BY <1>2
  <1>7. Ordered(q, m + 1, F)
    <2>1. ASSUME NEW i \in 1..m + 1
          PROVE  {c \in F : c < q[i]} = {q[j] : j \in 1..i - 1}
      <3>1. CASE i = m + 1
        BY <3>1, <1>3, <1>5, <1>6
      <3>2. CASE i \in 1..m
        BY <3>2, <1>4
      <3> QED  BY <3>1, <3>2
    <2> QED  BY <2>1 DEF Ordered
  <1> QED  BY <1>1, <1>7

LEMMA InOrder ==
  ASSUME NEW F, IsFiniteSet(F), F \subseteq Nat, NEW n \in Nat, n <= Cardinality(F)
  PROVE  \E p \in [1..n -> F] : Ordered(p, n, F)
  <1> DEFINE Bad == {k \in 0..n : \A p \in [1..k -> F] : ~ Ordered(p, k, F)}
  <1> SUFFICES ASSUME Bad # {} PROVE FALSE
    OBVIOUS
  <1> DEFINE k == Min(Bad)
  <1>1. k \in Bad /\ \A y \in Bad : k <= y
    <2>1. Bad \subseteq Nat
      OBVIOUS
    <2> HIDE DEF Bad
    <2> QED  BY <2>1, LeastIs
  <1> HIDE DEF k
  <1>2. k \in 0..n /\ \A p \in [1..k -> F] : ~ Ordered(p, k, F)
    BY <1>1
  <1>3. k # 0
    <2>1. [i \in 1..0 |-> 0] \in [1..0 -> F] /\ Ordered([i \in 1..0 |-> 0], 0, F)
      BY DEF Ordered
    <2> QED  BY <2>1, <1>2
  <1>4. k - 1 \in 0..n /\ k - 1 \notin Bad
    BY <1>1, <1>2, <1>3
  <1>5. PICK p \in [1..k - 1 -> F] : Ordered(p, k - 1, F)
    BY <1>4
  <1> DEFINE Rest == F \ {p[j] : j \in 1..k - 1}
  <1>6. Rest # {}
    BY OneMore, <1>2, <1>3, FS_CardinalityType
  <1>7. Min(Rest) \in Rest /\ \A y \in Rest : Min(Rest) <= y
    BY <1>6, LeastIs
  <1>8. \E q \in [1..(k - 1) + 1 -> F] : Ordered(q, (k - 1) + 1, F)
    <2>1. k - 1 \in Nat /\ Min(Rest) \in F /\ Min(Rest) \notin {p[j] : j \in 1..k - 1}
      BY <1>4, <1>7
    <2> QED  BY <2>1, <1>5, <1>7, NextInOrder
  <1> QED  BY <1>8, <1>2

\* What is planned was free.
LEMMA PlanIsFree ==
  ASSUME NEW n \in Nat, n <= Cardinality(Clusters \ marked)
  PROVE  Plan(n) \in Seq(Clusters \ marked)
  <1> DEFINE F == Clusters \ marked
  <1>1. F \subseteq Nat /\ IsFiniteSet(F)
    <2>1. IsFiniteSet(Clusters)
      BY FS_Interval DEF Clusters
    <2> QED  BY <2>1, FS_Subset DEF Clusters
  <1>2. CASE n = 0
    BY <1>2 DEF Plan
  <1>3. CASE n # 0 /\ Contiguous(n)
    <2>1. Runs(n) \subseteq Nat /\ Runs(n) # {}
      BY <1>3 DEF Contiguous, Runs, Clusters
    <2>2. Min(Runs(n)) \in Runs(n)
      BY <2>1, LeastIs
    <2>3. ASSUME NEW i \in 1..n PROVE Min(Runs(n)) + i - 1 \in F
      BY <2>1, <2>2 DEF Runs, Clusters
    <2>4. Plan(n) = [i \in 1..n |-> Min(Runs(n)) + i - 1]
      BY <1>3 DEF Plan
    <2> QED  BY <2>3, <2>4
  <1>4. CASE n # 0 /\ ~ Contiguous(n)
    <2>1. \E p \in [1..n -> F] : Ordered(p, n, F)
      BY <1>1, InOrder
    <2>2. FirstFree(n) \in [1..n -> F]
      BY <2>1 DEF Ordered, FirstFree
    <2> QED  BY <1>4, <2>2 DEF Plan
  <1> QED  BY <1>2, <1>3, <1>4

Taken == {op.plan[i] : i \in 1..got}
Planned == {op.plan[i] : i \in 1..Len(op.plan)}

CardTypes ==
  /\ marked \subseteq Clusters /\ ram \subseteq Clusters /\ DOMAIN fat = Clusters
  /\ faults \in Nat
  /\ at # "idle" =>
       /\ op.plan \in Seq(Clusters) /\ got \in 0..Len(op.plan)
       /\ op.faults \in Nat /\ op.faults <= faults

\* A command whose entry is not on the card yet, or that gives its clusters
\* back, has changed the folder and the bitmap on the card in nothing, and the
\* FAT only at the clusters it planned for, which were free.
Untouched ==
  /\ slot = op.slot /\ marked = op.marked
  /\ op.plan \in Seq(Clusters \ marked)
  /\ ram = CASE at = "take" -> marked \cup Taken
             [] at = "release" -> marked
             [] OTHER -> marked \cup Planned
  /\ at = "undo" => got = Len(op.plan)
  /\ at \in {"link", "release"} => fatq \in Seq(Planned \X (0..ChainEnd))
  /\ \A c \in Clusters \ Planned : fat[c] = op.fat[c]
  /\ at = "release" =>
       /\ \A i \in 1..Len(fatq) : fatq[i][2] = Free
       /\ \A c \in Planned : fat[c] = Free \/ \E i \in 1..Len(fatq) : fatq[i][1] = c

\* A command that met no fault puts nothing back.
NoFaultYet ==
  at # "idle" /\ faults = op.faults =>
    /\ ~dead /\ at \notin {"take back", "keep"}
    /\ at \in {"put", "clear"} => ~failed
    /\ at \in {"take", "link", "data", "mark", "undo", "release"} => Untouched

CancelHolds == CardTypes /\ NoFaultYet /\ CancelLeavesNothing
LEMMA CardStarts == Init => CancelHolds
  <1> SUFFICES ASSUME Init PROVE CancelHolds
    OBVIOUS
  <1>1. PICK c \in Cards : slot = c.slot /\ marked = c.marked /\ fat = c.fat /\ data = c.data
    BY DEF Init
  <1>2. CardTypes
    BY <1>1 DEF Init, CardTypes
  <1>3. at = "idle" /\ result = "none"
    BY DEF Init
  <1> QED  BY <1>2, <1>3 DEF CancelHolds, NoFaultYet, CancelLeavesNothing

\* A write without a fault works, unless the cable is out.
LEMMA TryCounts ==
  ASSUME CardTypes, NEW o \in Outcomes, Try(o)
  PROVE  /\ faults' \in Nat /\ faults <= faults'
         /\ faults' = faults /\ ~dead => o = "ok"
  BY DEF CardTypes, Try, Outcomes

LEMMA BitmapLands ==
  ASSUME CardTypes, NEW o \in Outcomes, SyncBitmap(o)
  PROVE  /\ marked' \subseteq Clusters /\ (o = "ok" => marked' = ram)
         /\ faults' \in Nat /\ faults <= faults'
         /\ faults' = faults /\ ~dead => o = "ok"
         /\ UNCHANGED <<slot, fat, data, ram, op, got, fatq, dead>>
  <1>1. Try(o) /\ UNCHANGED <<slot, fat, data, ram, op, got, fatq, dead>>
    BY DEF SyncBitmap
  <1>2. PICK m \in SUBSET ((marked \ ram) \cup (ram \ marked)) :
          /\ o = "ok" => m = (marked \ ram) \cup (ram \ marked)
          /\ marked' = (marked \ m) \cup (ram \cap m)
    BY DEF SyncBitmap
  <1>3. marked' \subseteq Clusters
    BY <1>2 DEF CardTypes
  <1>4. o = "ok" => marked' = ram
    BY <1>2
  <1> QED  BY <1>1, <1>3, <1>4, TryCounts

\* A step of a command keeps the types when it keeps the command.
LEMMA TypesGo ==
  ASSUME CardTypes, at # "idle", op' = op, marked' \subseteq Clusters, ram' \subseteq Clusters,
         DOMAIN fat' = Clusters, faults' \in Nat, faults <= faults',
         got' \in 0..Len(op.plan)
  PROVE  CardTypes'
  <1>1. op.faults <= faults'
    BY DEF CardTypes
  <1> QED  BY <1>1 DEF CardTypes

\* A command without a fault so far had none before.
LEMMA NoneBefore ==
  ASSUME CancelHolds, at # "idle", op' = op, faults' \in Nat, faults <= faults',
         faults' = op'.faults
  PROVE  /\ faults' = faults /\ ~dead /\ at \notin {"take back", "keep"}
         /\ at \in {"put", "clear"} => ~failed
         /\ at \in {"take", "link", "data", "mark", "undo", "release"} => Untouched
  <1>1. faults = op.faults
    BY DEF CancelHolds, CardTypes
  <1> QED  BY <1>1 DEF CancelHolds, NoFaultYet

\* A command that goes on has yet to tell its user anything.
LEMMA GoesOn ==
  ASSUME CardTypes', at' # "idle",
         faults' = op'.faults =>
           /\ ~dead' /\ at' \notin {"take back", "keep"}
           /\ at' \in {"put", "clear"} => ~failed'
           /\ at' \in {"take", "link", "data", "mark", "undo", "release"} => Untouched'
  PROVE  CancelHolds'
BY DEF CancelHolds, NoFaultYet, CancelLeavesNothing

\* A command that ends.
LEMMA Ends ==
  ASSUME CardTypes', at' = "idle",
         result' = "error" /\ faults' = op'.faults =>
           /\ slot' = op'.slot /\ marked' = op'.marked
           /\ \A c \in Clusters : fat'[c] = op'.fat[c] \/ (fat'[c] = Free /\ c \notin marked')
  PROVE  CancelHolds'
BY DEF CancelHolds, NoFaultYet, CancelLeavesNothing

LEMMA MountStep ==
  ASSUME CancelHolds, NEW kind, NEW name, NEW old, NEW dest,
         NEW n \in Nat, n <= Cardinality(Clusters \ marked),
         Mount(kind, name, old, dest, n), at' \in {"take", "put"},
         at' = "put" => ~failed'
  PROVE  CancelHolds'
  <1>1. /\ op'.plan = Plan(n) /\ op'.slot = slot /\ op'.marked = marked
        /\ op'.fat = fat /\ op'.faults = faults
    BY DEF Mount
  <1>2. /\ ram' = marked /\ got' = 0 /\ dead' = FALSE /\ faults' = faults
        /\ slot' = slot /\ marked' = marked /\ fat' = fat
    BY DEF Mount, card
  <1>3. op'.plan \in Seq(Clusters \ marked)
    BY <1>1, PlanIsFree
  <1>4. op'.plan \in Seq(Clusters) /\ Len(op'.plan) \in Nat
    BY <1>3
  <1>5. CardTypes'
    BY <1>1, <1>2, <1>4 DEF CancelHolds, CardTypes
  <1>6. Taken' = {}
    BY <1>2 DEF Taken
  <1>7. CASE at' = "take"
    <2>1. Untouched'
      BY <1>1, <1>2, <1>3, <1>6, <1>7 DEF Untouched
    <2> QED  BY <1>2, <1>5, <1>7, <2>1, GoesOn
  <1>8. CASE at' = "put"
    BY <1>2, <1>5, <1>8, GoesOn
  <1> QED  BY <1>7, <1>8

LEMMA BeginStep == ASSUME CancelHolds, Begin PROVE CancelHolds'
  <1>1. Cardinality(Clusters \ marked) \in Nat /\ IsFiniteSet(Clusters \ marked)
    <2>1. IsFiniteSet(Clusters)
      BY FS_Interval DEF Clusters
    <2> QED  BY <2>1, FS_Subset, FS_CardinalityType
  <1>2. ASSUME NEW name \in Names, NEW n \in Sizes, Import(name, n) PROVE CancelHolds'
    <2>1. n \in Nat /\ n <= Cardinality(Clusters \ marked)
      BY <1>1, <1>2 DEF Import, HasRoom
    <2>2. PICK old \in Named(slot, name) \cup {NoEntry} :
            Mount("import", name, old,
                  IF old = NoEntry THEN Min(FreeRuns(slot, SetLen(name), {}))
                                   ELSE Min(old.slots), n)
      BY <1>2, Zenon DEF Import
    <2>3. at' = "take"
      BY <1>2 DEF Import
    <2> QED  BY <2>1, <2>2, <2>3, MountStep
  <1>3. ASSUME NEW name \in Names, MakeDir(name) PROVE CancelHolds'
    <2>1. /\ Mount("mkdir", name, NoEntry, Min(FreeRuns(slot, SetLen(name), {})), 1)
          /\ at' = "take" /\ Clusters \ marked # {}
      BY <1>3, Zenon DEF MakeDir
    <2>2. 1 <= Cardinality(Clusters \ marked)
      BY <1>1, <2>1, FS_EmptySet
    <2> QED  BY <2>1, <2>2, MountStep
  <1>4. ASSUME NEW old, Delete(old) PROVE CancelHolds'
    <2>1. /\ Mount("delete", old.name, old, Min(old.slots), 0)
          /\ at' = "put" /\ failed' = FALSE
      BY <1>4, Zenon DEF Delete, StartPut
    <2> QED  BY <1>1, <2>1, MountStep
  <1>5. ASSUME NEW old, NEW name \in Names, Rename(old, name) PROVE CancelHolds'
    <2>1. ASSUME NEW s \in Slots, Mount("rename", name, old, s, 0),
                 StartPut(s, EntrySet(name, old.dir, old.stream), "put")
          PROVE  CancelHolds'
      <3>1. at' = "put" /\ failed' = FALSE
        BY <2>1 DEF StartPut
      <3>2. Mount("rename", name, old, s, 0)
        BY <2>1
      <3>3. 0 \in Nat /\ 0 <= Cardinality(Clusters \ marked) /\ at' \in {"take", "put"}
        BY <1>1, <3>1
      <3> QED  BY <3>1, <3>2, <3>3, MountStep, Zenon
    <2> QED  BY <1>5, <2>1, Zenon DEF Rename
  <1> QED  BY <1>2, <1>3, <1>4, <1>5 DEF Begin
-----------------------------------------------------------------------------
(* Imports and new folders, up to their entry.                             *)

\* A planned cluster is a free one.
LEMMA Next1 ==
  ASSUME CardTypes, at # "idle", got < Len(op.plan)
  PROVE  /\ got \in Nat /\ got + 1 \in 1..Len(op.plan) /\ got + 1 \in 0..Len(op.plan)
         /\ op.plan[got + 1] \in Clusters /\ op.plan[got + 1] \in Planned
  BY DEF CardTypes, Planned

LEMMA TakeStep ==
  ASSUME CancelHolds, NEW o \in Outcomes, TakeCluster(o) PROVE CancelHolds'
  <1>1. /\ at = "take" /\ got < Len(op.plan) /\ Try(o)
        /\ fat' = [fat EXCEPT ![op.plan[got + 1]] = IF Landed(o) THEN ChainEnd ELSE @]
        /\ UNCHANGED <<slot, marked, data, op, fatq, entrySet, result, dead, past>>
    BY DEF TakeCluster
  <1>2. \/ o = "ok" /\ got' = got + 1 /\ ram' = ram \cup {op.plan[got + 1]} /\ at' = at
        \/ /\ o # "ok" /\ at' = "undo" /\ got' = got
           /\ ram' \in {ram, ram \cup {op.plan[got + 1]}}
    BY DEF TakeCluster
  <1>3. CardTypes
    BY DEF CancelHolds
  <1>4. /\ got \in Nat /\ got + 1 \in 1..Len(op.plan) /\ got + 1 \in 0..Len(op.plan)
        /\ op.plan[got + 1] \in Clusters /\ op.plan[got + 1] \in Planned
    BY <1>1, <1>3, Next1
  <1>5. /\ faults' \in Nat /\ faults <= faults'
        /\ faults' = faults /\ ~dead => o = "ok"
    BY <1>1, <1>3, TryCounts
  <1>6. CardTypes'
    <2>1. marked' \subseteq Clusters /\ ram' \subseteq Clusters /\ DOMAIN fat' = Clusters
      BY <1>1, <1>2, <1>3, <1>4 DEF CardTypes
    <2>2. got' \in 0..Len(op.plan)
      BY <1>1, <1>2, <1>3, <1>4 DEF CardTypes
    <2> QED  BY <1>1, <1>3, <1>5, <2>1, <2>2, TypesGo
  <1>7. ASSUME faults' = op'.faults PROVE ~dead' /\ at' = "take" /\ Untouched'
    <2>1. ~dead /\ Untouched /\ o = "ok"
      BY <1>1, <1>5, <1>7, NoneBefore
    <2>2. got' = got + 1 /\ ram' = ram \cup {op.plan[got + 1]} /\ at' = "take" /\ op' = op
      BY <1>1, <1>2, <2>1
    <2>3. Taken' = Taken \cup {op.plan[got + 1]} /\ Planned' = Planned
      BY <1>4, <2>2 DEF Taken, Planned
    <2>4. \A c \in Clusters \ Planned : fat'[c] = fat[c]
      BY <1>1, <1>3, <1>4 DEF CardTypes
    <2> QED  BY <1>1, <2>1, <2>2, <2>3, <2>4 DEF Untouched
  <1>8. at' # "idle"
    BY <1>1, <1>2
  <1> QED  BY <1>6, <1>7, <1>8, GoesOn

LEMMA LinkStep == ASSUME CancelHolds, LinkClusters PROVE CancelHolds'
  <1>1. /\ at = "take" /\ got = Len(op.plan) /\ at' = "link" /\ got' = 0
        /\ UNCHANGED <<slot, marked, fat, data, ram, op, result, dead, faults>>
    BY DEF LinkClusters, card
  <1>2. CardTypes /\ faults \in Nat /\ op.plan \in Seq(Clusters) /\ Len(op.plan) \in Nat
    BY <1>1 DEF CancelHolds, CardTypes
  <1>3. CardTypes'
    BY <1>1, <1>2, TypesGo DEF CardTypes
  <1>4. fatq' \in Seq(Planned \X (0..ChainEnd))
    <2>1. Clusters \subseteq 0..ChainEnd /\ Free \in 0..ChainEnd
      BY DEF Clusters, ChainEnd, Free
    <2>2. CASE op.chained
      <3>1. fatq' = [i \in 1..Len(Front(op.plan)) |-> <<Front(op.plan)[i], op.plan[i + 1]>>]
        BY <2>2 DEF LinkClusters, Each
      <3>2. /\ Front(op.plan) = SubSeq(op.plan, 1, Len(op.plan) - 1)
            /\ Len(Front(op.plan)) \in Nat
            /\ \A i \in 1..Len(Front(op.plan)) : i \in 1..Len(op.plan) - 1
        BY <1>2 DEF Front
      <3>3. ASSUME NEW i \in 1..Len(Front(op.plan))
            PROVE  Front(op.plan)[i] \in Planned /\ op.plan[i + 1] \in 0..ChainEnd
        <4>1. i \in 1..Len(op.plan) /\ i + 1 \in 1..Len(op.plan)
          BY <1>2, <3>2
        <4>2. Front(op.plan)[i] = op.plan[i]
          BY <1>2, <3>2
        <4>3. op.plan[i + 1] \in Clusters
          BY <1>2, <4>1
        <4> QED  BY <2>1, <4>1, <4>2, <4>3 DEF Planned
      <3> QED  BY <3>1, <3>2, <3>3
    <2>3. CASE ~ op.chained
      <3>1. fatq' = [i \in 1..Len(op.plan) |-> <<op.plan[i], Free>>]
        BY <2>3 DEF LinkClusters, Each
      <3>2. \A i \in 1..Len(op.plan) : <<op.plan[i], Free>> \in Planned \X (0..ChainEnd)
        BY <2>1 DEF Planned
      <3> QED  BY <1>2, <3>1, <3>2
    <2> QED  BY <2>2, <2>3
  <1>5. ASSUME faults' = op'.faults PROVE ~dead' /\ Untouched'
    <2>1. ~dead /\ Untouched
      BY <1>1, <1>2, <1>5, NoneBefore
    <2>2. Taken = Planned /\ Planned' = Planned
      BY <1>1 DEF Taken, Planned
    <2>3. fatq' \in Seq(Planned' \X (0..ChainEnd))
      BY <1>4, <2>2
    <2> QED  BY <1>1, <2>1, <2>2, <2>3 DEF Untouched
  <1> QED  BY <1>1, <1>3, <1>5, GoesOn

LEMMA LinkedStep == ASSUME CancelHolds, Linked PROVE CancelHolds'
  <1>1. /\ at = "link" /\ at' = "data"
        /\ UNCHANGED <<slot, marked, fat, data, ram, op, got, result, dead, faults>>
    BY DEF Linked, card
  <1>2. CardTypes /\ faults \in Nat /\ got \in 0..Len(op.plan)
    BY <1>1 DEF CancelHolds, CardTypes
  <1>3. CardTypes'
    BY <1>1, <1>2, TypesGo DEF CardTypes
  <1>4. ASSUME faults' = op'.faults PROVE ~dead' /\ Untouched'
    <2>1. ~dead /\ Untouched
      BY <1>1, <1>2, <1>4, NoneBefore
    <2>2. Planned' = Planned
      BY <1>1 DEF Planned
    <2> QED  BY <1>1, <2>1, <2>2 DEF Untouched
  <1> QED  BY <1>1, <1>3, <1>4, GoesOn
\* From the links to the mark a command changes none of what Untouched is about.
LEMMA UntouchedStays ==
  ASSUME Untouched, at \in {"link", "data", "mark"}, at' \in {"data", "mark", "undo"},
         UNCHANGED <<slot, marked, fat, ram, op>>, at' = "undo" => got' = Len(op.plan)
  PROVE  Untouched'
  <1>1. Planned' = Planned
    BY DEF Planned
  <1> QED  BY <1>1 DEF Untouched

LEMMA WriteStep ==
  ASSUME CancelHolds, NEW o \in Outcomes, WriteCluster(o) PROVE CancelHolds'
  <1>1. /\ at = "data" /\ got < Len(op.plan) /\ Try(o)
        /\ UNCHANGED <<slot, marked, fat, ram, op, fatq, dead>>
        /\ \/ got' = got + 1 /\ at' = "data"
           \/ o # "ok" /\ got' = Len(op.plan) /\ at' = "undo"
    BY DEF WriteCluster
  <1>2. CardTypes /\ Len(op.plan) \in Nat
    BY <1>1 DEF CancelHolds, CardTypes
  <1>3. got + 1 \in 0..Len(op.plan)
    BY <1>1, <1>2, Next1
  <1>4. /\ faults' \in Nat /\ faults <= faults'
        /\ faults' = faults /\ ~dead => o = "ok"
    BY <1>1, <1>2, TryCounts
  <1>5. CardTypes'
    <2>1. marked' \subseteq Clusters /\ ram' \subseteq Clusters /\ DOMAIN fat' = Clusters
      BY <1>1, <1>2 DEF CardTypes
    <2>2. got' \in 0..Len(op.plan) /\ at # "idle" /\ op' = op
      BY <1>1, <1>2, <1>3
    <2> QED  BY <1>2, <1>4, <2>1, <2>2, TypesGo
  <1>6. ASSUME faults' = op'.faults PROVE ~dead' /\ at' = "data" /\ Untouched'
    <2>1. ~dead /\ Untouched /\ o = "ok"
      BY <1>1, <1>4, <1>6, NoneBefore
    <2> QED  BY <1>1, <2>1, UntouchedStays
  <1>7. at' \in {"data", "undo"}
    BY <1>1
  <1> QED  BY <1>5, <1>6, <1>7, GoesOn

\* Steps that change neither card nor bitmap.
LEMMA AsideStep ==
  ASSUME CancelHolds, Cancel \/ DataWritten PROVE CancelHolds'
  <1>1. /\ at = "data" /\ UNCHANGED <<slot, marked, fat, ram, op, dead, faults>>
        /\ \/ at' = "undo" /\ got' = Len(op.plan)
           \/ at' = "mark" /\ got' = got
    BY DEF Cancel, DataWritten, card
  <1>2. CardTypes /\ faults \in Nat /\ got \in 0..Len(op.plan) /\ Len(op.plan) \in Nat
    BY <1>1 DEF CancelHolds, CardTypes
  <1>3. CardTypes'
    <2>1. got' \in 0..Len(op.plan)
      BY <1>1, <1>2
    <2> QED  BY <1>1, <1>2, <2>1, TypesGo DEF CardTypes
  <1>4. ASSUME faults' = op'.faults PROVE ~dead' /\ Untouched'
    <2>1. ~dead /\ Untouched
      BY <1>1, <1>2, <1>4, NoneBefore
    <2> QED  BY <1>1, <2>1, UntouchedStays
  <1> QED  BY <1>1, <1>3, <1>4, GoesOn

LEMMA MarkStep ==
  ASSUME CancelHolds, NEW o \in Outcomes, MarkClusters(o) PROVE CancelHolds'
  <1>1. at = "mark" /\ SyncBitmap(o)
    BY DEF MarkClusters
  <1>2. \/ o = "ok" /\ at' = "put" /\ failed' = FALSE
        \/ o # "ok" /\ at' = "undo"
    BY DEF MarkClusters, PutNewEntry, StartPut
  <1>3. CardTypes
    BY DEF CancelHolds
  <1>4. /\ marked' \subseteq Clusters /\ faults' \in Nat /\ faults <= faults'
        /\ faults' = faults /\ ~dead => o = "ok"
        /\ UNCHANGED <<slot, fat, data, ram, op, got, fatq, dead>>
    BY <1>1, <1>3, BitmapLands
  <1>5. CardTypes'
    <2>1. ram' \subseteq Clusters /\ DOMAIN fat' = Clusters /\ got' \in 0..Len(op.plan)
      BY <1>1, <1>3, <1>4 DEF CardTypes
    <2> QED  BY <1>1, <1>3, <1>4, <2>1, TypesGo
  <1>6. ASSUME faults' = op'.faults PROVE ~dead' /\ at' = "put" /\ ~failed'
    <2>1. ~dead /\ faults' = faults
      BY <1>1, <1>4, <1>6, NoneBefore
    <2> QED  BY <1>2, <1>4, <2>1
  <1> QED  BY <1>2, <1>5, <1>6, GoesOn

-----------------------------------------------------------------------------
(* Giving clusters back.                                                   *)

LEMMA FatWriteStep ==
  ASSUME CancelHolds, NEW o \in Outcomes, FatWrite(o) PROVE CancelHolds'
  <1>1. /\ at \in {"link", "release", "free"} /\ fatq # <<>> /\ Try(o)
        /\ fat' = [fat EXCEPT ![fatq[1][1]] = IF Landed(o) THEN fatq[1][2] ELSE @]
        /\ UNCHANGED <<slot, marked, data, op, dead>>
    BY DEF FatWrite
  <1>2. \/ /\ o = "ok" /\ fatq' = Tail(fatq) /\ at' = at /\ got' = got
           /\ ram' = IF at = "free" /\ op.old.stream.chained
                     THEN ram \ {fatq[1][1]} ELSE ram
        \/ /\ o # "ok" /\ ram' = ram /\ at' \in {"undo", "release", "free"}
           /\ got' = IF at = "link" THEN Len(op.plan) ELSE got
    <2>1. CASE o = "ok"
      BY <2>1 DEF FatWrite
    <2>2. CASE o # "ok"
      BY <1>1, <2>2 DEF FatWrite
    <2> QED  BY <2>1, <2>2
  <1>3. CardTypes /\ got \in 0..Len(op.plan) /\ Len(op.plan) \in Nat
    BY <1>1 DEF CancelHolds, CardTypes
  <1>4. /\ faults' \in Nat /\ faults <= faults'
        /\ faults' = faults /\ ~dead => o = "ok"
    BY <1>1, <1>3, TryCounts
  <1>5. CardTypes'
    <2>1. marked' \subseteq Clusters /\ ram' \subseteq Clusters /\ DOMAIN fat' = Clusters
      BY <1>1, <1>2, <1>3 DEF CardTypes
    <2>2. got' \in 0..Len(op.plan) /\ at # "idle" /\ op' = op
      BY <1>1, <1>2, <1>3
    <2> QED  BY <1>3, <1>4, <2>1, <2>2, TypesGo
  <1>6. at' \in {"link", "undo", "release", "free"}
    BY <1>1, <1>2
  <1>7. ASSUME faults' = op'.faults, at' # "free" PROVE ~dead' /\ Untouched'
    <2>1. ~dead /\ o = "ok" /\ at \in {"link", "release", "free"}
      BY <1>1, <1>4, <1>7, NoneBefore
    <2>2. /\ at \in {"link", "release"} /\ at' = at /\ fatq' = Tail(fatq)
          /\ got' = got /\ ram' = ram /\ op' = op
      BY <1>1, <1>2, <1>7, <2>1
    <2>3. Untouched
      BY <1>1, <1>4, <1>7, <2>2, NoneBefore
    <2>4. Planned' = Planned /\ Taken' = Taken /\ Planned \subseteq Clusters
      BY <1>1, <1>3, <2>2 DEF Planned, Taken, CardTypes
    <2>5. fatq \in Seq(Planned \X (0..ChainEnd))
      BY <2>2, <2>3 DEF Untouched
    <2>6. /\ fatq[1] \in Planned \X (0..ChainEnd)
          /\ Tail(fatq) \in Seq(Planned \X (0..ChainEnd))
          /\ Len(Tail(fatq)) = Len(fatq) - 1 /\ Len(fatq) \in Nat
          /\ \A i \in 1..Len(fatq) - 1 : Tail(fatq)[i] = fatq[i + 1]
      BY <1>1, <2>5
    <2>7. \A c \in Clusters \ {fatq[1][1]} : fat'[c] = fat[c]
      BY <1>1, <1>3 DEF CardTypes
    <2>8. fat'[fatq[1][1]] = fatq[1][2]
      BY <1>1, <1>3, <2>1, <2>4, <2>6 DEF CardTypes, Landed
    <2>9. \A c \in Clusters \ Planned : fat'[c] = op.fat[c]
      BY <2>3, <2>6, <2>7 DEF Untouched
    <2>10. ASSUME at = "release"
           PROVE  /\ \A i \in 1..Len(fatq') : fatq'[i][2] = Free
                  /\ \A c \in Planned : fat'[c] = Free \/ \E i \in 1..Len(fatq') : fatq'[i][1] = c
      <3>1. \A i \in 1..Len(fatq) : fatq[i][2] = Free
        BY <2>3, <2>10 DEF Untouched
      <3>2. fatq[1][2] = Free
        BY <2>6, <3>1, <1>1, <2>5
      <3>3. \A i \in 1..Len(fatq') : fatq'[i][2] = Free
        BY <2>2, <2>6, <3>1
      <3>4. ASSUME NEW c \in Planned, fat'[c] # Free
            PROVE  \E i \in 1..Len(fatq') : fatq'[i][1] = c
        <4>1. c # fatq[1][1]
          BY <2>8, <3>2, <3>4
        <4>2. fat[c] # Free
          BY <2>4, <2>7, <3>4, <4>1
        <4>3. PICK i \in 1..Len(fatq) : fatq[i][1] = c
          BY <2>3, <2>10, <4>2 DEF Untouched
        <4>4. i # 1 /\ i - 1 \in 1..Len(fatq') /\ fatq'[i - 1] = fatq[i]
          BY <2>2, <2>6, <4>1, <4>3
        <4> QED  BY <4>3, <4>4
      <3> QED  BY <3>3, <3>4
    <2>11. fatq' \in Seq(Planned' \X (0..ChainEnd))
      BY <2>2, <2>4, <2>6
    <2> HIDE DEF Planned, Taken
    <2> QED  BY <1>1, <2>1, <2>2, <2>3, <2>4, <2>9, <2>10, <2>11 DEF Untouched
  <1>8. ASSUME faults' = op'.faults PROVE ~dead'
    BY <1>1, <1>4, <1>8, NoneBefore
  <1> QED  BY <1>5, <1>6, <1>7, <1>8, GoesOn
LEMMA UndoStep == ASSUME CancelHolds, Undo PROVE CancelHolds'
  <1>1. at = "undo" /\ UNCHANGED <<slot, marked, fat, got, dead, faults>>
    BY DEF Undo, card
  <1>2. CardTypes /\ got \in 0..Len(op.plan) /\ op.plan \in Seq(Clusters) /\ faults \in Nat
    BY <1>1 DEF CancelHolds, CardTypes
  <1>3. CASE got = 0
    <2>1. at' = "idle" /\ op' = op /\ ram' = ram
      BY <1>3 DEF Undo, Done
    <2>2. CardTypes'
      BY <1>1, <1>2, <2>1, TypesGo DEF CardTypes
    <2>3. ASSUME faults' = op'.faults
          PROVE  slot' = op'.slot /\ marked' = op'.marked /\ \A c \in Clusters : fat'[c] = op'.fat[c]
      <3>1. Untouched
        BY <1>1, <1>2, <2>1, <2>3, NoneBefore
      <3>2. Planned = {}
        BY <1>1, <1>2, <1>3, <3>1 DEF Untouched, Planned
      <3> QED  BY <1>1, <2>1, <3>1, <3>2 DEF Untouched
    <2> QED  BY <2>1, <2>2, <2>3, Ends
  <1>4. CASE got # 0
    <2> DEFINE back == SubSeq(op.plan, 1, got)
    <2>1. /\ at' = "release" /\ op' = op /\ ram' = ram \ Range(back)
          /\ fatq' = [i \in 1..Len(back) |-> <<back[i], Free>>]
      BY <1>4 DEF Undo, Each
    <2>2. /\ back \in Seq(Clusters) /\ Len(back) = got
          /\ \A i \in 1..got : back[i] = op.plan[i]
      BY <1>2
    <2>3. Range(back) = Taken
      BY <2>2 DEF Range, Taken
    <2>4. ram' \subseteq Clusters
      BY <1>2, <2>1 DEF CardTypes
    <2>5. CardTypes'
      BY <1>1, <1>2, <2>1, <2>4, TypesGo DEF CardTypes
    <2>6. ASSUME faults' = op'.faults PROVE ~dead' /\ Untouched'
      <3>1. ~dead /\ Untouched
        BY <1>1, <1>2, <2>1, <2>6, NoneBefore
      <3>2. Len(op.plan) = got /\ Taken = Planned /\ Planned' = Planned
        BY <1>1, <2>1, <3>1 DEF Untouched, Taken, Planned
      <3>3. op.plan \in Seq(Clusters \ marked) /\ ram = marked \cup Planned
        BY <1>1, <3>1 DEF Untouched
      <3>4. Planned \cap marked = {}
        BY <3>3 DEF Planned
      <3>5. ram' = marked
        BY <2>1, <2>3, <3>2, <3>3, <3>4
      <3>6. \A i \in 1..got : <<back[i], Free>> \in Planned \X (0..ChainEnd)
        <4>1. Free \in 0..ChainEnd
          BY DEF Free, ChainEnd
        <4> QED  BY <2>2, <3>2, <4>1 DEF Planned
      <3>7. fatq' \in Seq(Planned' \X (0..ChainEnd))
        BY <1>2, <2>1, <2>2, <3>2, <3>6
      <3>8. Len(fatq') = got /\ \A i \in 1..got : fatq'[i] = <<op.plan[i], Free>>
        BY <1>2, <2>1, <2>2
      <3>9. /\ \A i \in 1..Len(fatq') : fatq'[i][2] = Free
            /\ \A c \in Planned : \E i \in 1..Len(fatq') : fatq'[i][1] = c
        BY <3>2, <3>8 DEF Planned
      <3> HIDE DEF Planned, Taken
      <3> QED  BY <1>1, <2>1, <3>1, <3>2, <3>5, <3>7, <3>9 DEF Untouched
    <2> QED  BY <2>1, <2>5, <2>6, GoesOn
  <1> QED  BY <1>3, <1>4

LEMMA ReleasedStep ==
  ASSUME CancelHolds, NEW o \in Outcomes, Released(o) PROVE CancelHolds'
  <1>1. at = "release" /\ fatq = <<>> /\ SyncBitmap(o) /\ at' = "idle"
    BY DEF Released, Done
  <1>2. CardTypes
    BY DEF CancelHolds
  <1>3. /\ marked' \subseteq Clusters /\ (o = "ok" => marked' = ram)
        /\ faults' \in Nat /\ faults <= faults'
        /\ faults' = faults /\ ~dead => o = "ok"
        /\ UNCHANGED <<slot, fat, data, ram, op, got, fatq, dead>>
    BY <1>1, <1>2, BitmapLands
  <1>4. CardTypes'
    <2>1. ram' \subseteq Clusters /\ DOMAIN fat' = Clusters /\ got' \in 0..Len(op.plan)
      BY <1>1, <1>2, <1>3 DEF CardTypes
    <2> QED  BY <1>1, <1>2, <1>3, <2>1, TypesGo
  <1>5. ASSUME faults' = op'.faults
        PROVE  /\ slot' = op'.slot /\ marked' = op'.marked
               /\ \A c \in Clusters : fat'[c] = op'.fat[c] \/ (fat'[c] = Free /\ c \notin marked')
    <2>1. faults' = faults /\ ~dead /\ Untouched
      BY <1>1, <1>3, <1>5, NoneBefore
    <2>2. marked' = marked
      BY <1>1, <1>3, <2>1 DEF Untouched
    <2>3. ASSUME NEW c \in Planned PROVE fat[c] = Free /\ c \notin marked
      <3>1. Len(fatq) = 0
        BY <1>1
      <3>2. fat[c] = Free
        BY <1>1, <2>1, <3>1 DEF Untouched
      <3>3. op.plan \in Seq(Clusters \ marked)
        BY <2>1 DEF Untouched
      <3> QED  BY <3>2, <3>3 DEF Planned
    <2>4. \A c \in Clusters \ Planned : fat[c] = op.fat[c]
      BY <2>1 DEF Untouched
    <2>5. slot = op.slot /\ marked = op.marked
      BY <2>1 DEF Untouched
    <2> QED  BY <1>3, <2>2, <2>3, <2>4, <2>5
  <1> QED  BY <1>1, <1>4, <1>5, Ends

LEMMA KeptStep ==
  ASSUME CancelHolds, NEW o \in Outcomes, Kept(o) \/ Freed(o) PROVE CancelHolds'
  <1>1. at \in {"keep", "free"} /\ SyncBitmap(o) /\ at' = "idle" /\ result' # "error"
    BY DEF Kept, Freed, Done
  <1>2. CardTypes
    BY DEF CancelHolds
  <1>3. /\ marked' \subseteq Clusters /\ faults' \in Nat /\ faults <= faults'
        /\ UNCHANGED <<slot, fat, data, ram, op, got, fatq, dead>>
    BY <1>1, <1>2, BitmapLands
  <1>4. CardTypes'
    <2>1. ram' \subseteq Clusters /\ DOMAIN fat' = Clusters /\ got' \in 0..Len(op.plan)
      BY <1>1, <1>2, <1>3 DEF CardTypes
    <2> QED  BY <1>1, <1>2, <1>3, <2>1, TypesGo
  <1> QED  BY <1>1, <1>4, Ends

-----------------------------------------------------------------------------
(* Entry sets, and how a command ends.                                     *)

LEMMA PutStep ==
  ASSUME CancelHolds, NEW o \in Outcomes, PutSector(o) \/ RestoreSector(o)
  PROVE  CancelHolds'
  <1>1. /\ at \in {"put", "clear", "take back"} /\ Try(o)
        /\ UNCHANGED <<marked, fat, ram, op, at, got, dead>>
        /\ failed \/ (o = "ok" => ~failed')
    BY DEF PutSector, RestoreSector, Putting
  <1>2. CardTypes
    BY DEF CancelHolds
  <1>3. /\ faults' \in Nat /\ faults <= faults'
        /\ faults' = faults /\ ~dead => o = "ok"
    BY <1>1, <1>2, TryCounts
  <1>4. CardTypes'
    <2>1. /\ marked' \subseteq Clusters /\ ram' \subseteq Clusters
          /\ DOMAIN fat' = Clusters /\ got' \in 0..Len(op.plan)
      BY <1>1, <1>2 DEF CardTypes
    <2> QED  BY <1>1, <1>2, <1>3, <2>1, TypesGo
  <1>5. ASSUME faults' = op'.faults PROVE ~dead' /\ at # "take back" /\ ~failed'
    <2>1. faults' = faults /\ ~dead /\ at # "take back" /\ ~failed
      BY <1>1, <1>3, <1>5, NoneBefore
    <2> QED  BY <1>1, <1>3, <2>1
  <1> QED  BY <1>1, <1>4, <1>5, GoesOn

\* What ends well, or goes on to clear or free what the new entry replaced.
LEMMA PutDoneStep ==
  ASSUME CancelHolds, FreeOld \/ Created \/ Renamed \/ OldNameCleared
  PROVE  CancelHolds'
  <1>1. /\ at \in {"put", "clear"}
        /\ UNCHANGED <<slot, marked, fat, op, got, dead, faults>>
    BY DEF FreeOld, Created, Renamed, OldNameCleared, Put, Done, card
  <1>2. \/ at' = "free" /\ ram' \subseteq ram
        \/ at' = "idle" /\ result' = "ok" /\ ram' = ram
        \/ at' = "clear" /\ failed' = FALSE /\ ram' = ram
    <2>1. CASE FreeOld
      BY <2>1 DEF FreeOld
    <2>2. CASE Created \/ OldNameCleared
      BY <2>2 DEF Created, OldNameCleared, Done
    <2>3. CASE Renamed
      BY <2>3, Zenon DEF Renamed, StartPut
    <2> QED  BY <2>1, <2>2, <2>3
  <1>3. CardTypes /\ faults \in Nat
    BY DEF CancelHolds, CardTypes
  <1>4. CardTypes'
    <2>1. ram' \subseteq Clusters /\ got' \in 0..Len(op.plan)
      BY <1>1, <1>2, <1>3 DEF CardTypes
    <2> QED  BY <1>1, <1>3, <2>1, TypesGo DEF CardTypes
  <1>5. ASSUME faults' = op'.faults PROVE ~dead'
    <2>1. faults' \in Nat /\ faults <= faults' /\ at # "idle" /\ op' = op
      BY <1>1, <1>3
    <2>2. ~dead
      BY <1>5, <2>1, NoneBefore
    <2> QED  BY <1>1, <2>2
  <1>6. CASE at' = "idle"
    BY <1>2, <1>4, <1>6, Ends
  <1>7. CASE at' # "idle"
    BY <1>2, <1>4, <1>5, <1>7, GoesOn
  <1> QED  BY <1>6, <1>7

\* An entry set is put back only after a fault.
LEMMA PutBackStep ==
  ASSUME CancelHolds,
         CreateFailed \/ EntryWriteFailed \/ OldNameStays \/ NewNameTakenBack
  PROVE  CancelHolds'
  <1>1. (at \in {"put", "clear"} /\ failed) \/ at = "take back"
    BY Zenon DEF CreateFailed, EntryWriteFailed, OldNameStays, NewNameTakenBack, Put, PutBack
  <1>2. /\ at = "put" \/ at = "clear" \/ at = "take back"
        /\ UNCHANGED <<slot, marked, fat, ram, op, got, dead, faults>>
    BY Zenon DEF CreateFailed, EntryWriteFailed, OldNameStays, NewNameTakenBack, Put, PutBack,
                 Done, card
  <1>3. CardTypes /\ faults \in Nat
    BY DEF CancelHolds, CardTypes
  <1>4. CardTypes'
    BY <1>2, <1>3, TypesGo DEF CardTypes
  <1>5. faults' # op'.faults
    <2>1. faults' = faults /\ at # "idle" /\ op' = op
      BY <1>2
    <2>2. faults' \in Nat /\ faults <= faults'
      BY <1>3, <2>1
    <2> QED  BY <1>1, <2>1, <2>2, NoneBefore
  <1>6. CASE at' = "idle"
    BY <1>4, <1>5, <1>6, Ends
  <1>7. CASE at' # "idle"
    BY <1>4, <1>5, <1>7, GoesOn
  <1> QED  BY <1>6, <1>7

LEMMA UnplugStep == ASSUME CancelHolds, Unplug PROVE CancelHolds'
  <1>1. /\ at # "idle" /\ faults' = faults + 1
        /\ UNCHANGED <<slot, marked, fat, ram, op, at, got>>
    BY DEF Unplug, card
  <1>2. CardTypes /\ faults \in Nat
    BY DEF CancelHolds, CardTypes
  <1>3. CardTypes'
    BY <1>1, <1>2, TypesGo DEF CardTypes
  <1>4. faults' # op'.faults
    <2>1. faults' \in Nat /\ faults <= faults' /\ at # "idle" /\ op' = op
      BY <1>1, <1>2
    <2>2. faults' = op'.faults => faults' = faults
      BY <2>1, NoneBefore
    <2> QED  BY <1>1, <1>2, <2>2
  <1> QED  BY <1>1, <1>3, <1>4, GoesOn

LEMMA CardIdles == ASSUME CancelHolds, UNCHANGED vars PROVE CancelHolds'
  <1>1. UNCHANGED <<slot, marked, fat, ram, op, at, got, fatq, failed, result, dead, faults>>
    BY DEF vars, card, entrySet
  <1>2. CardTypes'
    BY <1>1 DEF CancelHolds, CardTypes
  <1>3. Untouched => Untouched'
    BY <1>1 DEF Untouched, Taken, Planned
  <1>4. NoFaultYet'
    BY <1>1, <1>3 DEF CancelHolds, NoFaultYet
  <1>5. CancelLeavesNothing'
    BY <1>1 DEF CancelHolds, CancelLeavesNothing
  <1> QED  BY <1>2, <1>4, <1>5 DEF CancelHolds

LEMMA CardStep == CancelHolds /\ [Next]_vars => CancelHolds'
  <1> SUFFICES ASSUME CancelHolds, [Next]_vars PROVE CancelHolds'
    OBVIOUS
  <1>1. ASSUME NEW o \in Outcomes, Write(o) PROVE CancelHolds'
    BY <1>1, TakeStep, WriteStep, MarkStep, PutStep, FatWriteStep, ReleasedStep,
       KeptStep DEF Write
  <1>2. CASE Step
    BY <1>2, LinkStep, LinkedStep, AsideStep, PutDoneStep, PutBackStep, UndoStep DEF Step
  <1>3. CASE Over \/ UNCHANGED vars
    BY <1>3, CardIdles DEF Over
  <1> QED  BY <1>1, <1>2, <1>3, BeginStep, UnplugStep DEF Next

\* A command that fails although no write did (the user cancelled an import, or
\* its source was shorter or longer than it said) leaves the folder and the
\* bitmap as it found them, and the FAT as it found it but for entries of free
\* clusters (CancelLeavesNothing): what exfat_undo_allocation gives back is
\* what the command took.
THEOREM CancelTakesNothing == Spec => []CancelLeavesNothing
  <1>1. CancelHolds => CancelLeavesNothing
    BY DEF CancelHolds
  <1> QED  BY <1>1, CardStarts, CardStep, PTL DEF Spec

HIDE CardsAssumption

-----------------------------------------------------------------------------
(* Writing the sectors of an entry set.                                    *)

LEMMA SectorsRise ==
  ASSUME NEW s \in Nat \ {0}, NEW t \in Nat \ {0}, s <= t
  PROVE  SectorOf(s) \in Nat /\ SectorOf(s) <= SectorOf(t)
  <1>1. PerSector \in Nat /\ PerSector > 0
    BY FolderAssumption
  <1> QED  BY <1>1 DEF SectorOf

LEMMA NameIs ==
  ASSUME NEW name \in Names
  PROVE  name \in Seq(Range(name)) /\ Len(name) \in Nat \ {0} /\ name = [i \in 1..Len(name) |-> name[i]]
  <1>1. name # <<>> /\ name \in Seq(Range(name))
    BY FolderAssumption
  <1> QED  BY <1>1

LEMMA SeqIs == ASSUME NEW S, NEW c \in Seq(S) PROVE c = [i \in 1..Len(c) |-> c[i]]
OBVIOUS

FileSlot(name, dir) == [tag |-> "file", more |-> 1 + Len(name), dir |-> dir]
StreamSlot(name, st) ==
  [tag |-> "stream", parts |-> Len(name), first |-> st.first, size |-> st.size,
   chained |-> st.chained, ver |-> st.ver]
NameSlot(part) == [tag |-> "name", part |-> part]
IsSeq(v) == v = [i \in 1..Len(v) |-> v[i]]

LEMMA EntrySetIs ==
  ASSUME NEW name \in Names, NEW dir, NEW st, NEW v, v = EntrySet(name, dir, st)
  PROVE  /\ Len(v) = SetLen(name) /\ SetLen(name) \in Nat \ {0} /\ SetLen(name) >= 3
         /\ IsSeq(v) /\ v[1] = FileSlot(name, dir) /\ v[2] = StreamSlot(name, st)
         /\ \A k \in 1..Len(name) : v[2 + k] = NameSlot(name[k])
  <1> DEFINE n == Len(name)
             f == FileSlot(name, dir)
             t == StreamSlot(name, st)
             p(k) == NameSlot(name[k])
             S == {f, t} \cup {p(k) : k \in 1..n}
             a == <<f, t>>
             b == [k \in 1..n |-> p(k)]
  <1>1. n \in Nat /\ n > 0
    BY NameIs
  <1>2. EntrySet(name, dir, st) = a \o b
    BY DEF EntrySet, FileSlot, StreamSlot, NameSlot
  <1>3. f \in S /\ t \in S /\ \A k \in 1..n : p(k) \in S
    OBVIOUS
  <1> HIDE DEF f, t, p, S, n
  <1>4. a \in Seq(S) /\ Len(a) = 2 /\ a[1] = f /\ a[2] = t
    BY <1>3
  <1>5. b \in Seq(S) /\ Len(b) = n /\ \A k \in 1..n : b[k] = p(k)
    BY <1>1, <1>3
  <1> HIDE DEF a, b
  <1>6. /\ a \o b \in Seq(S) /\ Len(a \o b) = 2 + n
        /\ \A i \in 1..2 + n : (a \o b)[i] = IF i <= 2 THEN a[i] ELSE b[i - 2]
    <2>1. /\ a \o b \in Seq(S) /\ Len(a \o b) = Len(a) + Len(b)
          /\ \A i \in 1..Len(a) + Len(b) :
                (a \o b)[i] = IF i <= Len(a) THEN a[i] ELSE b[i - Len(a)]
      BY <1>4, <1>5, ConcatProperties, Zenon
    <2> QED  BY <1>4, <1>5, <2>1
  <1>7. (a \o b)[1] = f /\ (a \o b)[2] = t
    BY <1>1, <1>4, <1>6
  <1>8. ASSUME NEW k \in 1..n PROVE (a \o b)[2 + k] = p(k)
    <2>1. 2 + k \in 1..2 + n /\ ~ (2 + k <= 2) /\ (2 + k) - 2 = k
      BY <1>1
    <2> QED  BY <1>5, <1>6, <2>1
  <1>9. a \o b = [i \in 1..Len(a \o b) |-> (a \o b)[i]]
    BY <1>6, SeqIs, Zenon
  <1>10. v[1] = f /\ v[2] = t /\ \A k \in 1..n : v[2 + k] = p(k)
    BY <1>2, <1>7, <1>8
  <1>11. Len(v) = 2 + n /\ v = [i \in 1..Len(v) |-> v[i]]
    BY <1>2, <1>6, <1>9
  <1>14. IsSeq(v)
    BY <1>11 DEF IsSeq
  <1>12. SetLen(name) = 2 + n /\ 2 + n >= 3
    BY <1>1 DEF SetLen, n
  <1>13. Len(v) = SetLen(name) /\ SetLen(name) \in Nat \ {0} /\ SetLen(name) >= 3
    BY <1>1, <1>11, <1>12
  <1> QED  BY <1>10, <1>13, <1>14 DEF f, t, p, n

LEMMA SeqFrom ==
  ASSUME NEW v, Len(v) \in Nat, v = [i \in 1..Len(v) |-> v[i]]
  PROVE  v \in Seq(Range(v))
  <1>1. \A i \in 1..Len(v) : v[i] \in Range(v)
    BY DEF Range
  <1> QED  BY <1>1

LEMMA EndsOfSeq ==
  ASSUME NEW q, NEW n \in Nat, q = [i \in 1..n |-> q[i]]
  PROVE  /\ Len(q) = n /\ (q = <<>> <=> n = 0)
         /\ n > 0 => /\ Head(q) = q[1] /\ Tail(q) = [i \in 1..n - 1 |-> q[i + 1]]
                     /\ Front(q) = [i \in 1..n - 1 |-> q[i]]
         /\ \A e : Append(q, e) = [i \in 1..n + 1 |-> IF i = n + 1 THEN e ELSE q[i]]
  <1>1. Len(q) = n /\ q \in Seq(Range(q))
    <2>1. \A i \in 1..n : q[i] \in Range(q)
      BY DEF Range
    <2> QED  BY <2>1
  <1>2. q = <<>> <=> n = 0
    BY <1>1
  <1>3. n > 0 => Head(q) = q[1] /\ Tail(q) = [i \in 1..n - 1 |-> q[i + 1]]
    BY <1>1
  <1>4. n > 0 => Front(q) = [i \in 1..n - 1 |-> q[i]]
    <2>1. Front(q) = SubSeq(q, 1, n - 1)
      BY <1>1 DEF Front
    <2> DEFINE u == SubSeq(q, 1, n - 1)
    <2>2. n > 0 => u \in Seq(Range(q)) /\ Len(u) = n - 1 /\ \A i \in 1..n - 1 : u[i] = q[i]
      BY <1>1
    <2>3. u \in Seq(Range(q)) => u = [i \in 1..Len(u) |-> u[i]]
      BY SeqIs, Zenon
    <2> HIDE DEF u
    <2>4. n > 0 => u = [i \in 1..n - 1 |-> q[i]]
      BY <2>2, <2>3
    <2> QED  BY <2>1, <2>4 DEF u
  <1>5. ASSUME NEW e
        PROVE  Append(q, e) = [i \in 1..n + 1 |-> IF i = n + 1 THEN e ELSE q[i]]
    <2>1. q \in Seq(Range(q) \cup {e}) /\ e \in Range(q) \cup {e}
      BY <1>1
    <2> QED  BY <1>1, <2>1
  <1> QED  BY <1>1, <1>2, <1>3, <1>4, <1>5

\* The sector of each slot is in the writes, once.
LEMMA SectorWritesAre ==
  ASSUME NEW first \in Nat \ {0}, NEW vals, Len(vals) \in Nat,
         vals = [i \in 1..Len(vals) |-> vals[i]]
  PROVE  LET w == SectorWrites(first, vals)
             slots == first..first + Len(vals) - 1
             place(s) == SectorOf(s) - SectorOf(first) + 1
         IN /\ Len(w) \in Nat /\ w = [i \in 1..Len(w) |-> w[i]]
            /\ \A i \in 1..Len(w) :
                 w[i] = [s \in {t \in slots : place(t) = i} |-> vals[s - first + 1]]
            /\ \A s \in slots : place(s) \in 1..Len(w)
  <1> DEFINE slots == first..first + Len(vals) - 1
             place(s) == SectorOf(s) - SectorOf(first) + 1
             n == IF vals = <<>> THEN 0
                  ELSE SectorOf(first + Len(vals) - 1) - SectorOf(first) + 1
             w == SectorWrites(first, vals)
  <1>1. vals = <<>> <=> Len(vals) = 0
    BY EndsOfSeq
  <1>2. n \in Nat
    <2>1. CASE Len(vals) # 0
      <3>1. first + Len(vals) - 1 \in Nat \ {0} /\ first <= first + Len(vals) - 1
        BY <2>1
      <3>2. /\ SectorOf(first) \in Nat /\ SectorOf(first) <= SectorOf(first + Len(vals) - 1)
            /\ SectorOf(first + Len(vals) - 1) \in Nat
        BY <3>1, SectorsRise
      <3> QED  BY <1>1, <2>1, <3>2
    <2> QED  BY <1>1, <2>1
  <1>3. ASSUME NEW s \in slots PROVE place(s) \in 1..n
    <2>1. Len(vals) # 0
      OBVIOUS
    <2>2. /\ first + Len(vals) - 1 \in Nat \ {0} /\ s \in Nat \ {0}
          /\ first <= s /\ s <= first + Len(vals) - 1
      OBVIOUS
    <2>3. /\ SectorOf(first) \in Nat /\ SectorOf(first) <= SectorOf(s)
          /\ SectorOf(s) \in Nat /\ SectorOf(s) <= SectorOf(first + Len(vals) - 1)
          /\ SectorOf(first + Len(vals) - 1) \in Nat
      BY <2>2, SectorsRise
    <2> QED  BY <1>1, <2>1, <2>3
  <1>4. w = [i \in 1..n |-> [s \in {t \in slots : SectorOf(t) = SectorOf(first) + i - 1} |->
                                vals[s - first + 1]]]
    BY Zenon DEF SectorWrites
  <1>5. ASSUME NEW i \in 1..n
        PROVE  {t \in slots : SectorOf(t) = SectorOf(first) + i - 1}
                 = {t \in slots : place(t) = i}
    <2>1. ASSUME NEW t \in slots
          PROVE  SectorOf(t) = SectorOf(first) + i - 1 <=> place(t) = i
      <3>1. t \in Nat \ {0}
        OBVIOUS
      <3>2. SectorOf(t) \in Nat /\ SectorOf(first) \in Nat
        BY <3>1, SectorsRise
      <3> QED  BY <1>2, <3>2
    <2> QED  BY <2>1
  <1> HIDE DEF n, slots, place
  <1>6. Len(w) = n
    BY <1>2, <1>4
  <1>7. ASSUME NEW i \in 1..n
        PROVE  w[i] = [s \in {t \in slots : place(t) = i} |-> vals[s - first + 1]]
    BY <1>4, <1>5
  <1>8. w = [i \in 1..n |-> w[i]]
    BY <1>4
  <1> QED  BY <1>2, <1>3, <1>6, <1>7, <1>8 DEF slots, place

-----------------------------------------------------------------------------
(* What a command writes into the folder.                                  *)

NewStream == [first |-> IF op.plan = <<>> THEN 0 ELSE op.plan[1], size |-> Len(op.plan),
              chained |-> op.chained, ver |-> op.ver]

NewSet ==
  IF op.kind = "delete" THEN Blank(op.old.slots)
  ELSE IF op.kind = "rename" THEN EntrySet(op.name, op.old.dir, op.old.stream)
  ELSE EntrySet(op.name, op.kind = "mkdir", NewStream)

With(d, first, vals) ==
  [s \in Slots |-> IF s \in first..first + Len(vals) - 1 THEN vals[s - first + 1] ELSE d[s]]

Changed == With(op.slot, op.dest, NewSet)

\* What is being written, from which slot on, over what.
PutVals ==
  IF at = "put" THEN NewSet
  ELSE IF at = "clear" THEN IF Grown THEN Blank(op.old.slots) ELSE Blank(Surplus)
  ELSE [i \in 1..SetLen(op.name) |-> op.slot[op.dest + i - 1]]
PutFirst ==
  IF at = "clear" THEN IF Grown THEN Min(op.old.slots) ELSE op.dest + SetLen(op.name)
  ELSE op.dest
Typed(d) == d = [s \in Slots |-> d[s]] /\ \A s \in Slots : SlotTyped(d[s])

PutOver(base) ==
  /\ Typed(base)
  /\ at = "put" => base = op.slot
  /\ at = "clear" \/ (at = "take back" /\ ~ torn) => base = Changed
PutSlots == PutFirst..PutFirst + Len(PutVals) - 1
Writes == SectorWrites(PutFirst, PutVals)
Place(s) == SectorOf(s) - SectorOf(PutFirst) + 1

PutShape ==
  /\ PutFirst \in Nat \ {0} /\ Len(PutVals) \in Nat
  /\ PutVals = [i \in 1..Len(PutVals) |-> PutVals[i]]
  /\ PutSlots \subseteq Slots

\* The first j sectors are written over a folder, and when one failed the first
\* b of them are to be put back.
PutsAt(j, b, base) ==
  /\ todo = [i \in 1..Len(Writes) - j |-> Writes[j + i]]
  /\ before = [i \in 1..b |-> [s \in DOMAIN Writes[i] |-> base[s]]]
  /\ slot = [s \in Slots |-> slot[s]]
  /\ ~ failed =>
       /\ b = j
       /\ \A s \in Slots : slot[s] = IF s \in PutSlots /\ Place(s) <= j
                                    THEN PutVals[s - PutFirst + 1] ELSE base[s]
  /\ failed =>
       \A s \in Slots :
          \/ slot[s] = base[s]
          \/ /\ s \in PutSlots /\ slot[s] = PutVals[s - PutFirst + 1]
             /\ restored => Place(s) <= b

SectorsPut ==
  PutShape /\ \E base : PutOver(base) /\ \E j, b \in 0..Len(Writes) : PutsAt(j, b, base)

LEMMA WritesAre ==
  ASSUME PutShape
  PROVE  /\ Len(Writes) \in Nat /\ Writes = [i \in 1..Len(Writes) |-> Writes[i]]
         /\ \A i \in 1..Len(Writes) :
              Writes[i] = [s \in {t \in PutSlots : Place(t) = i} |-> PutVals[s - PutFirst + 1]]
         /\ \A s \in PutSlots : Place(s) \in 1..Len(Writes)
  <1>1. PutFirst \in Nat \ {0} /\ Len(PutVals) \in Nat
        /\ PutVals = [i \in 1..Len(PutVals) |-> PutVals[i]]
    BY DEF PutShape
  <1> QED  BY <1>1, SectorWritesAre, Zenon DEF Writes, PutSlots, Place

\* Nothing is written yet.
LEMMA PutStarts ==
  PutShape /\ todo = Writes /\ before = <<>> /\ ~ failed /\ PutOver(slot) => SectorsPut
  <1> SUFFICES ASSUME PutShape, todo = Writes, before = <<>>, ~ failed, PutOver(slot)
               PROVE  SectorsPut
    OBVIOUS
  <1>1. Len(Writes) \in Nat /\ Writes = [i \in 1..Len(Writes) |-> Writes[i]]
        /\ \A s \in PutSlots : Place(s) \in 1..Len(Writes)
    BY WritesAre
  <1>2. todo = [i \in 1..Len(Writes) - 0 |-> Writes[0 + i]]
    BY <1>1
  <1>3. before = [i \in 1..0 |-> [s \in DOMAIN Writes[i] |-> slot[s]]]
    OBVIOUS
  <1>4. slot = [s \in Slots |-> slot[s]]
    BY DEF PutOver, Typed
  <1>5. \A s \in Slots : slot[s] = IF s \in PutSlots /\ Place(s) <= 0
                                   THEN PutVals[s - PutFirst + 1] ELSE slot[s]
    BY <1>1
  <1>6. PutsAt(0, 0, slot)
    BY <1>2, <1>3, <1>4, <1>5 DEF PutsAt
  <1> QED  BY <1>1, <1>6 DEF SectorsPut

LEMMA PutSame ==
  ASSUME op' = op, at' = at
  PROVE  /\ PutVals' = PutVals /\ PutFirst' = PutFirst /\ Changed' = Changed
         /\ PutSlots' = PutSlots /\ Writes' = Writes /\ \A s : Place(s)' = Place(s)
  <1>1. NewSet' = NewSet /\ Grown' = Grown /\ Surplus' = Surplus
    BY DEF NewSet, NewStream, Grown, Surplus
  <1>2. PutVals' = PutVals /\ PutFirst' = PutFirst /\ Changed' = Changed
    BY <1>1 DEF PutVals, PutFirst, Changed
  <1> QED  BY <1>2 DEF PutSlots, Writes, Place

LEMMA PutSectorKeeps ==
  ASSUME SectorsPut, NEW o \in Outcomes, PutSector(o)
  PROVE  SectorsPut'
  <1>1. /\ ~ failed /\ todo # <<>> /\ op' = op /\ at' = at
        /\ before' = Append(before, [s \in DOMAIN Head(todo) |-> slot[s]])
        /\ slot' = IF Landed(o) THEN Overlay(Head(todo), slot) ELSE slot
        /\ o = "ok" => todo' = Tail(todo) /\ failed' = failed
        /\ o # "ok" => failed' = TRUE /\ todo' = todo
        /\ restored' = restored /\ torn' = torn
    BY DEF PutSector, past
  <1>2. PutShape /\ PutShape'
    BY <1>1, PutSame DEF SectorsPut, PutShape
  <1>3. /\ PutVals' = PutVals /\ PutFirst' = PutFirst /\ Changed' = Changed
        /\ PutSlots' = PutSlots /\ Writes' = Writes /\ \A s : Place(s)' = Place(s)
    BY <1>1, PutSame
  <1>4. /\ Len(Writes) \in Nat
        /\ \A i \in 1..Len(Writes) :
              Writes[i] = [s \in {t \in PutSlots : Place(t) = i} |-> PutVals[s - PutFirst + 1]]
        /\ \A s \in PutSlots : Place(s) \in 1..Len(Writes)
    BY <1>2, WritesAre
  <1>13. PICK base : PutOver(base) /\ \E j, b \in 0..Len(Writes) : PutsAt(j, b, base)
    BY DEF SectorsPut
  <1>5. PICK j, b \in 0..Len(Writes) : PutsAt(j, b, base)
    BY <1>13
  <1>14. (PutOver(base))'
    BY <1>1, <1>3, <1>13 DEF PutOver
  <1> DEFINE n == Len(Writes)
             here == {t \in PutSlots : Place(t) = j + 1}
  <1>6. /\ b = j /\ todo = [i \in 1..n - j |-> Writes[j + i]]
        /\ before = [i \in 1..j |-> [s \in DOMAIN Writes[i] |-> base[s]]]
        /\ slot = [s \in Slots |-> slot[s]]
        /\ \A s \in Slots : slot[s] = IF s \in PutSlots /\ Place(s) <= j
                                     THEN PutVals[s - PutFirst + 1] ELSE base[s]
    BY <1>1, <1>5 DEF PutsAt
  <1>7. /\ j < n /\ j + 1 \in 0..n /\ j + 1 \in 1..n /\ Head(todo) = Writes[j + 1]
        /\ Tail(todo) = [i \in 1..n - (j + 1) |-> Writes[(j + 1) + i]]
    <2>1. n - j \in Nat /\ todo = [i \in 1..n - j |-> todo[i]]
      BY <1>4, <1>6
    <2>2. n - j > 0 /\ Head(todo) = todo[1] /\ Tail(todo) = [i \in 1..(n - j) - 1 |-> todo[i + 1]]
      BY <1>1, <2>1, EndsOfSeq
    <2>3. \A i \in 1..n - j : todo[i] = Writes[j + i]
      BY <1>6
    <2>4. ASSUME NEW i \in 1..(n - j) - 1 PROVE todo[i + 1] = Writes[(j + 1) + i]
      <3>1. i + 1 \in 1..n - j /\ j + (i + 1) = (j + 1) + i
        BY <1>4
      <3> QED  BY <2>3, <3>1
    <2>5. (n - j) - 1 = n - (j + 1) /\ 1 \in 1..n - j /\ j < n
          /\ j + 1 \in 0..n /\ j + 1 \in 1..n
      BY <1>4, <2>2
    <2>6. Head(todo) = Writes[j + 1]
      BY <2>2, <2>3, <2>5
    <2> HIDE DEF n
    <2>7. Tail(todo) = [i \in 1..(n - j) - 1 |-> Writes[(j + 1) + i]]
      BY <2>2, <2>4
    <2> QED  BY <2>5, <2>6, <2>7
  <1>8. DOMAIN Head(todo) = here /\ here \subseteq Slots
        /\ \A s \in here : Head(todo)[s] = PutVals[s - PutFirst + 1]
    <2>1. Head(todo) = [s \in here |-> PutVals[s - PutFirst + 1]]
      BY <1>4, <1>7
    <2>2. here \subseteq Slots
      BY <1>2 DEF PutShape
    <2> HIDE DEF here
    <2> QED  BY <2>1, <2>2
  <1>9. before' = [i \in 1..j + 1 |-> [s \in DOMAIN Writes[i] |-> base[s]]]
    <2>1. before' = [i \in 1..j + 1 |-> IF i = j + 1 THEN [s \in DOMAIN Head(todo) |-> slot[s]]
                                        ELSE before[i]]
      <3>1. j \in Nat /\ before = [i \in 1..j |-> before[i]]
        BY <1>6
      <3> QED  BY <1>1, <3>1, EndsOfSeq
    <2>2. ASSUME NEW s \in here PROVE slot[s] = base[s]
      BY <1>4, <1>6, <1>8
    <2>3. [s \in DOMAIN Head(todo) |-> slot[s]] = [s \in DOMAIN Writes[j + 1] |-> base[s]]
      BY <1>7, <1>8, <2>2
    <2>4. \A i \in 1..j : before[i] = [s \in DOMAIN Writes[i] |-> base[s]]
      BY <1>6
    <2>5. \A i \in 1..j + 1 : i = j + 1 \/ i \in 1..j
      OBVIOUS
    <2> QED  BY <2>1, <2>3, <2>4, <2>5
  <1>10. /\ slot' = [s \in Slots |-> slot'[s]]
         /\ \A s \in Slots : slot'[s] = IF Landed(o) /\ s \in here
                                       THEN PutVals[s - PutFirst + 1] ELSE slot[s]
    BY <1>1, <1>6, <1>8 DEF Overlay
  <1>11. CASE o = "ok"
    <2>1. \A s \in Slots : slot'[s] = IF s \in PutSlots /\ Place(s) <= j + 1
                                   THEN PutVals[s - PutFirst + 1] ELSE base[s]
      <3>1. Landed(o)
        BY <1>11 DEF Landed
      <3>2. \A s \in PutSlots : Place(s) \in Int
        BY <1>4
      <3> QED  BY <1>6, <1>10, <3>1, <3>2
    <2>2. PutsAt(j + 1, j + 1, base)'
      BY <1>1, <1>3, <1>7, <1>9, <1>10, <1>11, <2>1 DEF PutsAt
    <2> QED  BY <1>2, <1>3, <1>7, <2>2, <1>14 DEF SectorsPut
  <1>12. CASE o # "ok"
    <2>1. ASSUME NEW s \in Slots
          PROVE  \/ slot'[s] = base[s]
                 \/ /\ s \in PutSlots /\ slot'[s] = PutVals[s - PutFirst + 1]
                    /\ Place(s) <= j + 1
      <3>1. s \in PutSlots => Place(s) \in Int
        BY <1>4
      <3> QED  BY <1>6, <1>10, <3>1
    <2>2. PutsAt(j, j + 1, base)'
      BY <1>1, <1>3, <1>6, <1>7, <1>9, <1>10, <1>12, <2>1 DEF PutsAt
    <2> QED  BY <1>2, <1>3, <1>7, <2>2, <1>14 DEF SectorsPut
  <1> QED  BY <1>11, <1>12

LEMMA RestoreKeeps ==
  ASSUME SectorsPut, NEW o \in Outcomes, RestoreSector(o)
  PROVE  SectorsPut'
  <1>1. /\ failed /\ before # <<>> /\ op' = op /\ at' = at
        /\ slot' = IF Landed(o) THEN Overlay(before[Len(before)], slot) ELSE slot
        /\ before' = Front(before) /\ todo' = todo /\ failed' = failed
        /\ restored' = (restored /\ o = "ok") /\ torn' = torn
    BY DEF RestoreSector, past
  <1>2. PutShape /\ PutShape'
    BY <1>1, PutSame DEF SectorsPut, PutShape
  <1>3. /\ PutVals' = PutVals /\ PutFirst' = PutFirst /\ Changed' = Changed
        /\ PutSlots' = PutSlots /\ Writes' = Writes /\ \A s : Place(s)' = Place(s)
    BY <1>1, PutSame
  <1>4. /\ Len(Writes) \in Nat
        /\ \A i \in 1..Len(Writes) :
              Writes[i] = [s \in {t \in PutSlots : Place(t) = i} |-> PutVals[s - PutFirst + 1]]
        /\ \A s \in PutSlots : Place(s) \in 1..Len(Writes)
    BY <1>2, WritesAre
  <1>13. PICK base : PutOver(base) /\ \E j, b \in 0..Len(Writes) : PutsAt(j, b, base)
    BY DEF SectorsPut
  <1>5. PICK j, b \in 0..Len(Writes) : PutsAt(j, b, base)
    BY <1>13
  <1>14. (PutOver(base))'
    BY <1>1, <1>3, <1>13 DEF PutOver
  <1> DEFINE n == Len(Writes)
             here == {t \in PutSlots : Place(t) = b}
  <1>6. /\ todo = [i \in 1..n - j |-> Writes[j + i]]
        /\ before = [i \in 1..b |-> [s \in DOMAIN Writes[i] |-> base[s]]]
        /\ slot = [s \in Slots |-> slot[s]]
        /\ \A s \in Slots :
             \/ slot[s] = base[s]
             \/ /\ s \in PutSlots /\ slot[s] = PutVals[s - PutFirst + 1]
                /\ restored => Place(s) <= b
    BY <1>1, <1>5 DEF PutsAt
  <1>7. /\ b > 0 /\ b - 1 \in 0..n /\ b \in 1..n /\ Len(before) = b
        /\ before' = [i \in 1..b - 1 |-> before[i]]
    <2>1. b \in Nat /\ before = [i \in 1..b |-> before[i]]
      BY <1>4, <1>6
    <2>2. /\ Len(before) = b /\ (before = <<>> <=> b = 0)
          /\ b > 0 => Front(before) = [i \in 1..b - 1 |-> before[i]]
      BY <2>1, EndsOfSeq, Zenon
    <2>3. b > 0
      BY <1>1, <2>1, <2>2
    <2> QED  BY <1>1, <1>4, <2>2, <2>3
  <1>8. before' = [i \in 1..b - 1 |-> [s \in DOMAIN Writes[i] |-> base[s]]]
    <2>1. \A i \in 1..b - 1 : before[i] = [s \in DOMAIN Writes[i] |-> base[s]]
      BY <1>6, <1>7
    <2> QED  BY <1>7, <2>1
  <1>9. before[b] = [s \in here |-> base[s]] /\ here \subseteq Slots
    <2>1. DOMAIN Writes[b] = here
      BY <1>4, <1>7
    <2>2. before[b] = [s \in DOMAIN Writes[b] |-> base[s]]
      BY <1>6, <1>7
    <2>3. here \subseteq Slots
      BY <1>2 DEF PutShape
    <2> QED  BY <2>1, <2>2, <2>3
  <1>10. /\ slot' = [s \in Slots |-> slot'[s]]
         /\ \A s \in Slots : slot'[s] = IF Landed(o) /\ s \in here THEN base[s] ELSE slot[s]
    <2> HIDE DEF here
    <2>1. CASE Landed(o)
      <3>1. slot' = Overlay(before[b], slot)
        BY <1>1, <1>7, <2>1
      <3>2. slot' = [s \in Slots |-> IF s \in here THEN before[b][s] ELSE slot[s]]
        <4>1. DOMAIN before[b] = here /\ DOMAIN slot = Slots
          BY <1>6, <1>9
        <4> QED  BY <3>1, <4>1, Zenon DEF Overlay
      <3> QED  BY <1>9, <2>1, <3>2
    <2>2. CASE ~ Landed(o)
      BY <1>1, <1>6, <2>2
    <2> QED  BY <2>1, <2>2
  <1>11. ASSUME NEW s \in Slots
         PROVE  \/ slot'[s] = base[s]
                \/ /\ s \in PutSlots /\ slot'[s] = PutVals[s - PutFirst + 1]
                   /\ restored' => Place(s) <= b - 1
    <2>1. s \in PutSlots => Place(s) \in Int
      BY <1>4
    <2>2. restored' => restored /\ Landed(o)
      BY <1>1 DEF Landed
    <2> QED  BY <1>4, <1>6, <1>7, <1>10, <2>1, <2>2
  <1>12. PutsAt(j, b - 1, base)'
    BY <1>1, <1>3, <1>6, <1>8, <1>10, <1>11 DEF PutsAt
  <1> QED  BY <1>2, <1>3, <1>7, <1>12, <1>14 DEF SectorsPut

\* What is in the folder meanwhile, when all is written and when all is put back.
LEMMA PutMixes ==
  ASSUME SectorsPut
  PROVE  /\ slot = [s \in Slots |-> slot[s]]
         /\ \E base : /\ PutOver(base)
                      /\ \A s \in Slots : slot[s] = base[s]
                           \/ (s \in PutSlots /\ slot[s] = PutVals[s - PutFirst + 1])
                      /\ (~ failed /\ todo = <<>>) => slot = With(base, PutFirst, PutVals)
                      /\ (failed /\ before = <<>> /\ restored) => slot = base
  <1>1. PutShape
    BY DEF SectorsPut
  <1>2. Len(Writes) \in Nat /\ \A s \in PutSlots : Place(s) \in 1..Len(Writes)
    BY <1>1, WritesAre
  <1>8. PICK base : PutOver(base) /\ \E j, b \in 0..Len(Writes) : PutsAt(j, b, base)
    BY DEF SectorsPut
  <1>3. PICK j, b \in 0..Len(Writes) : PutsAt(j, b, base)
    BY <1>8
  <1>4. slot = [s \in Slots |-> slot[s]]
    BY <1>3 DEF PutsAt
  <1>5. \A s \in Slots : slot[s] = base[s]
                       \/ (s \in PutSlots /\ slot[s] = PutVals[s - PutFirst + 1])
    BY <1>3 DEF PutsAt
  <1>6. ASSUME ~ failed, todo = <<>> PROVE slot = With(base, PutFirst, PutVals)
    <2>1. j = Len(Writes)
      <3>1. Len(Writes) - j \in Nat /\ todo = [i \in 1..Len(Writes) - j |-> todo[i]]
        BY <1>2, <1>3 DEF PutsAt
      <3>2. Len(Writes) - j = 0
        BY <1>6, <3>1, EndsOfSeq
      <3> QED  BY <1>2, <3>2
    <2>2. ASSUME NEW s \in Slots
          PROVE  slot[s] = IF s \in PutSlots THEN PutVals[s - PutFirst + 1] ELSE base[s]
      <3>1. s \in PutSlots => Place(s) <= j
        BY <1>2, <2>1
      <3> QED  BY <1>3, <1>6, <3>1 DEF PutsAt
    <2> QED  BY <1>4, <2>2 DEF With, PutSlots
  <1>7. ASSUME failed, before = <<>>, restored PROVE slot = base
    <2>1. b = 0
      <3>1. b \in Nat /\ before = [i \in 1..b |-> before[i]]
        BY <1>2, <1>3 DEF PutsAt
      <3> QED  BY <1>7, <3>1, EndsOfSeq
    <2>2. ASSUME NEW s \in Slots PROVE slot[s] = base[s]
      <3>1. s \in PutSlots => ~ (Place(s) <= 0)
        BY <1>2
      <3> QED  BY <1>3, <1>7, <2>1, <3>1 DEF PutsAt
    <2>3. base = [s \in Slots |-> base[s]]
      BY <1>8 DEF PutOver, Typed
    <2> QED  BY <1>4, <2>2, <2>3
  <1> QED  BY <1>4, <1>5, <1>6, <1>7, <1>8

-----------------------------------------------------------------------------
(* What a reader finds: the listing is the union of what it finds from each *)
(* slot on, and a chain follows from each cluster's predecessor.            *)

LEMMA Upwards ==
  ASSUME NEW n \in Nat, NEW G, \A k \in 1..n : (\A l \in 1..k - 1 : l \in G) => k \in G
  PROVE  1..n \subseteq G
  <1> DEFINE Bad == (1..n) \ G
  <1> SUFFICES ASSUME Bad # {} PROVE FALSE
    OBVIOUS
  <1> DEFINE k == Min(Bad)
  <1>1. k \in Bad /\ \A y \in Bad : k <= y
    <2>1. Bad \subseteq Nat
      OBVIOUS
    <2> HIDE DEF Bad
    <2> QED  BY <2>1, LeastIs
  <1> HIDE DEF k
  <1>2. ASSUME NEW l \in 1..k - 1 PROVE l \in G
    <2>1. l \in 1..n /\ ~ (k <= l)
      BY <1>1
    <2> QED  BY <1>1, <2>1
  <1> QED  BY <1>1, <1>2

LEMMA Downwards ==
  ASSUME NEW n \in Nat, NEW G, \A k \in 1..n : (\A l \in k + 1..n : l \in G) => k \in G
  PROVE  1..n \subseteq G
  <1> DEFINE H == {k \in 1..n : n + 1 - k \in G}
  <1>1. ASSUME NEW k \in 1..n, \A l \in 1..k - 1 : l \in H PROVE k \in H
    <2>1. ASSUME NEW l \in (n + 1 - k) + 1..n PROVE l \in G
      <3>1. n + 1 - l \in 1..k - 1
        OBVIOUS
      <3>2. n + 1 - (n + 1 - l) \in G
        BY <1>1, <3>1
      <3> QED  BY <3>2
    <2>2. n + 1 - k \in 1..n
      OBVIOUS
    <2> QED  BY <2>1, <2>2
  <1>2. 1..n \subseteq H
    <2> HIDE DEF H
    <2> QED  BY <1>1, Upwards
  <1>3. ASSUME NEW k \in 1..n PROVE k \in G
    <2>1. n + 1 - k \in H
      BY <1>2
    <2>2. n + 1 - (n + 1 - k) = k
      OBVIOUS
    <2> QED  BY <2>1, <2>2
  <1> QED  BY <1>3

\* Sets gathered from the end of 1..n on exist, and are these.
Gathered(f, k, n, S, stop, add, next) ==
  /\ f \in [k..n -> SUBSET S]
  /\ \A p \in k..n : f[p] = IF stop[p] THEN {} ELSE add[p] \cup f[next[p]]

LEMMA GatheredExists ==
  ASSUME NEW n \in Nat, NEW S, NEW stop, NEW add, NEW next,
         \A p \in 1..n : add[p] \subseteq S /\ (~ stop[p] => next[p] \in p + 1..n)
  PROVE  \A k \in 1..n : \E f : Gathered(f, k, n, S, stop, add, next)
  <1> DEFINE G == {k \in 1..n : \E f : Gathered(f, k, n, S, stop, add, next)}
  <1>1. ASSUME NEW k \in 1..n, \A l \in k + 1..n : l \in G PROVE k \in G
    <2>1. PICK h : h \in [k + 1..n -> SUBSET S] /\ \A p \in k + 1..n :
                    h[p] = IF stop[p] THEN {} ELSE add[p] \cup h[next[p]]
      <3>1. CASE k = n
        <4>1. [p \in k + 1..n |-> {}] \in [k + 1..n -> SUBSET S] /\ k + 1..n = {}
          BY <3>1
        <4> QED  BY <4>1
      <3>2. CASE k # n
        <4>1. k + 1 \in k + 1..n
          BY <3>2
        <4>2. PICK h : Gathered(h, k + 1, n, S, stop, add, next)
          BY <1>1, <4>1
        <4> QED  BY <4>2 DEF Gathered
      <3> QED  BY <3>1, <3>2
    <2> DEFINE v == IF stop[k] THEN {} ELSE add[k] \cup h[next[k]]
               f == [p \in k..n |-> IF p = k THEN v ELSE h[p]]
    <2>2. v \subseteq S
      <3>1. CASE stop[k]
        BY <3>1
      <3>2. CASE ~ stop[k]
        <4>1. h[next[k]] \subseteq S
          BY <2>1, <3>2
        <4> QED  BY <3>2, <4>1
      <3> QED  BY <3>1, <3>2
    <2>3. v = IF stop[k] THEN {} ELSE add[k] \cup h[next[k]]
      OBVIOUS
    <2> HIDE DEF v
    <2>4. f \in [k..n -> SUBSET S] /\ f[k] = v /\ \A p \in k + 1..n : f[p] = h[p]
      BY <2>1, <2>2
    <2> HIDE DEF f
    <2>5. ASSUME NEW p \in k..n PROVE f[p] = IF stop[p] THEN {} ELSE add[p] \cup f[next[p]]
      <3>1. ~ stop[p] => next[p] \in k + 1..n
        OBVIOUS
      <3>2. ~ stop[p] => f[next[p]] = h[next[p]]
        BY <2>4, <3>1
      <3>3. CASE p = k
        BY <2>3, <2>4, <3>2, <3>3
      <3>4. CASE p # k
        <4>1. p \in k + 1..n
          BY <3>4
        <4> QED  BY <2>1, <2>4, <3>2, <4>1
      <3> QED  BY <3>3, <3>4
    <2>6. Gathered(f, k, n, S, stop, add, next)
      BY <2>4, <2>5 DEF Gathered
    <2> QED  BY <2>6
  <1>2. 1..n \subseteq G
    <2> HIDE DEF G
    <2> QED  BY <1>1, Downwards
  <1> QED  BY <1>2

\* The slots of an entry set are slots.
LEMMA SetInFolder ==
  ASSUME NEW d, Typed(d), NEW p \in Slots, WellFormed(d, p)
  PROVE  /\ d[p].more \in Nat /\ d[p].more >= 2 /\ p + d[p].more \in Slots
         /\ p + 1 \in Slots /\ d[p + 1].parts \in Nat /\ d[p + 1].parts < d[p].more
         /\ d[p].dir \in BOOLEAN
  <1>1. LastSlot \in Nat /\ p \in Nat /\ p >= 1
    BY FolderAssumption DEF Slots
  <1>2. d[p].more \in Nat /\ d[p].dir \in BOOLEAN
    BY DEF Typed, SlotTyped, WellFormed
  <1>3. d[p].more >= 2 /\ p + d[p].more \in Slots /\ p + 1 \in Slots
    BY <1>1, <1>2 DEF WellFormed, Slots
  <1>4. d[p + 1].parts \in Nat /\ d[p + 1].parts < d[p].more
    BY <1>3 DEF Typed, SlotTyped, WellFormed
  <1> QED  BY <1>2, <1>3, <1>4

Listed(f, d) ==
  f = [p \in 1..LastSlot + 20 |->
         IF p > LastSlot \/ d[p].tag = "end" THEN {}
         ELSE IF WellFormed(d, p) THEN {p} \cup f[p + 1 + d[p].more]
         ELSE f[p + 1]]

LEMMA HeadsAre ==
  ASSUME NEW d, Typed(d)
  PROVE  \E f : Listed(f, d) /\ Heads(d) = f[1]
  <1> DEFINE n == LastSlot + 20
             stop == [p \in 1..n |-> p > LastSlot \/ d[p].tag = "end"]
             add == [p \in 1..n |-> IF p \in Slots /\ WellFormed(d, p) THEN {p} ELSE {}]
             next == [p \in 1..n |-> IF WellFormed(d, p) THEN p + 1 + d[p].more ELSE p + 1]
  <1>1. n \in Nat /\ LastSlot \in Nat /\ 1 \in 1..n /\ n = LastSlot + 20
    BY FolderAssumption
  <1>2. ASSUME NEW p \in 1..n
        PROVE  add[p] \subseteq Slots /\ (~ stop[p] => next[p] \in p + 1..n)
    <2>1. add[p] \subseteq Slots
      OBVIOUS
    <2>2. ASSUME ~ stop[p] PROVE next[p] \in p + 1..n
      <3>1. p \in Slots
        <4>1. ~ (p > LastSlot)
          BY <2>2
        <4> QED  BY <1>1, <4>1 DEF Slots
      <3>2. CASE WellFormed(d, p)
        <4>1. d[p].more \in Nat /\ p + d[p].more \in Slots
          BY <3>1, <3>2, SetInFolder
        <4>2. next[p] = p + 1 + d[p].more
          BY <3>2
        <4> QED  BY <1>1, <4>1, <4>2 DEF Slots
      <3>3. CASE ~ WellFormed(d, p)
        <4>1. next[p] = p + 1
          BY <3>3
        <4> QED  BY <1>1, <3>1, <4>1 DEF Slots
      <3> QED  BY <3>2, <3>3
    <2> QED  BY <2>1, <2>2
  <1>3. PICK f : Gathered(f, 1, n, Slots, stop, add, next)
    <2> HIDE DEF stop, add, next, n
    <2> QED  BY <1>1, <1>2, GatheredExists
  <1>4. Listed(f, d)
    <2>1. ASSUME NEW p \in 1..n
          PROVE  f[p] = IF p > LastSlot \/ d[p].tag = "end" THEN {}
                        ELSE IF WellFormed(d, p) THEN {p} \cup f[p + 1 + d[p].more]
                        ELSE f[p + 1]
      <3>1. f[p] = IF stop[p] THEN {} ELSE add[p] \cup f[next[p]]
        BY <1>3 DEF Gathered
      <3>2. stop[p] <=> p > LastSlot \/ d[p].tag = "end"
        OBVIOUS
      <3>3. ~ (p > LastSlot) => p \in Slots
        BY <1>1 DEF Slots
      <3>4. ~ (p > LastSlot) => add[p] = IF WellFormed(d, p) THEN {p} ELSE {}
        BY <3>3
      <3>5. next[p] = IF WellFormed(d, p) THEN p + 1 + d[p].more ELSE p + 1
        OBVIOUS
      <3> HIDE DEF stop, add, next
      <3> QED  BY <3>1, <3>2, <3>4, <3>5
    <2>2. f = [p \in 1..n |-> f[p]]
      BY <1>3 DEF Gathered
    <2> HIDE DEF stop, add, next
    <2> QED  BY <2>1, <2>2 DEF Listed
  <1> DEFINE from == CHOOSE h : Listed(h, d)
  <1>5. Listed(from, d)
    BY <1>4, Zenon
  <1>6. Heads(d) = from[1]
    BY Zenon DEF Heads, Listed
  <1> QED  BY <1>5, <1>6, Zenon

\* A reader finds only well-formed entry sets.
LEMMA HeadsWellFormed ==
  ASSUME NEW d, Typed(d)
  PROVE  Heads(d) \subseteq {p \in Slots : WellFormed(d, p)}
  <1> DEFINE n == LastSlot + 20
             S == {p \in Slots : WellFormed(d, p)}
  <1>1. n \in Nat /\ LastSlot \in Nat /\ 1 \in 1..n
    BY FolderAssumption
  <1>2. PICK f : Listed(f, d) /\ Heads(d) = f[1]
    BY HeadsAre
  <1>3. ASSUME NEW p \in 1..n
        PROVE  f[p] = IF p > LastSlot \/ d[p].tag = "end" THEN {}
                      ELSE IF WellFormed(d, p) THEN {p} \cup f[p + 1 + d[p].more]
                      ELSE f[p + 1]
    BY <1>2, Zenon DEF Listed
  <1> DEFINE G == {p \in 1..n : f[p] \subseteq S}
  <1>4. ASSUME NEW p \in 1..n, \A l \in p + 1..n : l \in G PROVE p \in G
    <2>1. CASE p > LastSlot \/ d[p].tag = "end"
      BY <1>3, <2>1
    <2>2. CASE ~ (p > LastSlot \/ d[p].tag = "end") /\ WellFormed(d, p)
      <3>1. p \in Slots
        BY <1>1, <2>2 DEF Slots
      <3>2. d[p].more \in Nat /\ p + d[p].more \in Slots
        BY <2>2, <3>1, SetInFolder
      <3>3. p + 1 + d[p].more \in p + 1..n
        BY <1>1, <3>2 DEF Slots
      <3> QED  BY <1>3, <1>4, <2>2, <3>1, <3>3
    <2>3. CASE ~ (p > LastSlot \/ d[p].tag = "end") /\ ~ WellFormed(d, p)
      <3>1. p + 1 \in p + 1..n
        BY <1>1, <2>3
      <3> QED  BY <1>3, <1>4, <2>3, <3>1
    <2> QED  BY <2>1, <2>2, <2>3
  <1>5. 1..n \subseteq G
    <2> HIDE DEF G, n
    <2> QED  BY <1>1, <1>4, Downwards
  <1> QED  BY <1>1, <1>2, <1>5

\* Slots that differ neither in what they are nor in a name or a length.
Alike(v, w) ==
  /\ v.tag = w.tag
  /\ v.tag = "file" => v.more = w.more
  /\ v.tag = "stream" => v.parts = w.parts
  /\ v.tag = "name" => v.part = w.part

LEMMA WellFormedAlike ==
  ASSUME NEW d, NEW e, Typed(d), Typed(e), \A s \in Slots : Alike(d[s], e[s]),
         NEW p \in Slots, WellFormed(d, p)
  PROVE  WellFormed(e, p) /\ e[p].more = d[p].more /\ e[p + 1].parts = d[p + 1].parts
  <1>1. /\ d[p].more \in Nat /\ d[p].more >= 2 /\ p + d[p].more \in Slots
        /\ p + 1 \in Slots /\ d[p + 1].parts \in Nat /\ d[p + 1].parts < d[p].more
    BY SetInFolder
  <1>2. e[p].tag = "file" /\ e[p].more = d[p].more
    BY DEF WellFormed, Alike
  <1>3. e[p + 1].tag = "stream" /\ e[p + 1].parts = d[p + 1].parts
    BY <1>1 DEF WellFormed, Alike
  <1>4. ASSUME NEW k \in 1..d[p + 1].parts PROVE e[p + 1 + k].tag = "name"
    <2>1. p + 1 + k \in Slots
      BY <1>1, FolderAssumption DEF Slots
    <2> QED  BY <2>1 DEF WellFormed, Alike
  <1>5. WellFormed(e, p)
    BY <1>1, <1>2, <1>3, <1>4 DEF WellFormed
  <1> QED  BY <1>2, <1>3, <1>5

LEMMA HeadsAlike ==
  ASSUME NEW d, NEW e, Typed(d), Typed(e), \A s \in Slots : Alike(d[s], e[s])
  PROVE  Heads(d) = Heads(e)
  <1> DEFINE n == LastSlot + 20
  <1>1. n \in Nat /\ LastSlot \in Nat /\ 1 \in 1..n
    BY FolderAssumption
  <1>2. PICK f : Listed(f, d) /\ Heads(d) = f[1]
    BY HeadsAre
  <1>3. PICK g : Listed(g, e) /\ Heads(e) = g[1]
    BY HeadsAre
  <1>4. ASSUME NEW p \in 1..n
        PROVE  /\ f[p] = IF p > LastSlot \/ d[p].tag = "end" THEN {}
                         ELSE IF WellFormed(d, p) THEN {p} \cup f[p + 1 + d[p].more]
                         ELSE f[p + 1]
               /\ g[p] = IF p > LastSlot \/ e[p].tag = "end" THEN {}
                         ELSE IF WellFormed(e, p) THEN {p} \cup g[p + 1 + e[p].more]
                         ELSE g[p + 1]
    BY <1>2, <1>3, Zenon DEF Listed
  <1>5. \A s \in Slots : Alike(e[s], d[s])
    BY DEF Alike
  <1> DEFINE G == {p \in 1..n : f[p] = g[p]}
  <1>6. ASSUME NEW p \in 1..n, \A l \in p + 1..n : l \in G PROVE p \in G
    <2>1. CASE p > LastSlot
      BY <1>4, <2>1
    <2>2. CASE ~ (p > LastSlot)
      <3>1. p \in Slots
        BY <1>1, <2>2 DEF Slots
      <3>2. d[p].tag = e[p].tag
        BY <3>1 DEF Alike
      <3>3. CASE WellFormed(d, p)
        <4>1. WellFormed(e, p) /\ e[p].more = d[p].more
          BY <3>1, <3>3, WellFormedAlike
        <4>2. d[p].more \in Nat /\ p + d[p].more \in Slots
          BY <3>1, <3>3, SetInFolder
        <4>3. p + 1 + d[p].more \in p + 1..n
          BY <1>1, <4>2 DEF Slots
        <4>4. f[p + 1 + d[p].more] = g[p + 1 + d[p].more]
          BY <1>6, <4>3
        <4> QED  BY <1>4, <3>2, <3>3, <4>1, <4>4
      <3>4. CASE ~ WellFormed(d, p)
        <4>1. ~ WellFormed(e, p)
          BY <1>5, <3>1, <3>4, WellFormedAlike
        <4>2. p + 1 \in p + 1..n
          BY <1>1, <2>2
        <4>3. f[p + 1] = g[p + 1]
          BY <1>6, <4>2
        <4> QED  BY <1>4, <3>2, <3>4, <4>1, <4>3
      <3> QED  BY <3>3, <3>4
    <2> QED  BY <2>1, <2>2
  <1>7. 1..n \subseteq G
    <2> HIDE DEF G, n
    <2> QED  BY <1>1, <1>6, Downwards
  <1> QED  BY <1>1, <1>2, <1>3, <1>7

-----------------------------------------------------------------------------
(* A command under way: what it found and where it writes.                 *)

InNew == op.old = NoEntry \/ (op.kind = "rename" /\ Grown)

Command ==
  /\ Typed(op.slot) /\ op.plan \in Seq(Clusters) /\ op.chained \in BOOLEAN
  /\ op.kind \in {"import", "mkdir", "delete", "rename"}
  /\ op.kind # "delete" => op.name \in Names
  /\ op.old # NoEntry => \E p \in Heads(op.slot) : op.old = Entry(op.slot, p)
  /\ op.kind \in {"delete", "rename"} => op.old # NoEntry
  /\ op.kind = "mkdir" => op.old = NoEntry
  /\ op.kind = "import" /\ op.old # NoEntry =>
       /\ op.old.name = op.name /\ op.old.dir = FALSE
       /\ Cardinality(op.old.slots) = SetLen(op.name)
  /\ InNew => /\ op.dest \in Slots
              /\ \A i \in op.dest..op.dest + SetLen(op.name) - 1 :
                   i \in Slots \ op.old.slots /\ Unused(op.slot[i])
  /\ ~ InNew => op.dest = Min(op.old.slots)

Stages ==
  /\ at \in {"idle", "take", "link", "data", "mark", "put", "clear", "take back",
             "undo", "release", "keep", "free"}
  /\ at \in {"take", "link", "data", "mark", "undo", "release", "keep"} =>
       op.kind \in {"import", "mkdir"}
  /\ at = "clear" => op.kind = "rename"
  /\ at = "take back" => op.kind = "rename" /\ Grown
  /\ at = "free" => op.kind # "rename" /\ op.old # NoEntry

\* The entry set that is replaced, renamed or deleted.
OldHead == Min(op.old.slots)

LEMMA EntryAt ==
  ASSUME NEW d, Typed(d), NEW p \in Slots, WellFormed(d, p)
  PROVE  /\ Entry(d, p).slots = p..p + d[p].more /\ Min(Entry(d, p).slots) = p
         /\ Cardinality(Entry(d, p).slots) = d[p].more + 1
         /\ Entry(d, p).dir = d[p].dir /\ Entry(d, p).stream = Stream(d, p)
         /\ Entry(d, p) # NoEntry
  <1>1. d[p].more \in Nat /\ d[p].more >= 2 /\ p \in Nat
    BY SetInFolder DEF Slots
  <1>2. /\ Entry(d, p).slots = p..p + d[p].more
        /\ Entry(d, p).dir = d[p].dir /\ Entry(d, p).stream = Stream(d, p)
    BY DEF Entry
  <1>3. Min(p..p + d[p].more) = p
    <2> DEFINE I == p..p + d[p].more
    <2>1. I \subseteq Nat /\ I # {} /\ p \in I /\ \A y \in I : p <= y
      BY <1>1
    <2>2. Min(I) \in I /\ \A y \in I : Min(I) <= y
      <3> HIDE DEF I
      <3> QED  BY <2>1, LeastIs
    <2> QED  BY <1>1, <2>1, <2>2
  <1>4. Cardinality(p..p + d[p].more) = d[p].more + 1
    <2>1. p \in Int /\ p + d[p].more \in Int
      BY <1>1
    <2>2. Cardinality(p..p + d[p].more) =
            IF p > p + d[p].more THEN 0 ELSE (p + d[p].more) - p + 1
      BY <2>1, FS_Interval
    <2> QED  BY <1>1, <2>2
  <1>5. Entry(d, p) # NoEntry
    <2>1. NoEntry.slots = {} /\ p \in p..p + d[p].more
      BY <1>1 DEF NoEntry
    <2> QED  BY <1>2, <2>1
  <1> QED  BY <1>2, <1>3, <1>4, <1>5

LEMMA OldIs ==
  ASSUME Command, op.old # NoEntry
  PROVE  /\ OldHead \in Slots /\ OldHead \in Heads(op.slot) /\ WellFormed(op.slot, OldHead)
         /\ op.old = Entry(op.slot, OldHead) /\ op.old.stream = Stream(op.slot, OldHead)
         /\ op.slot[OldHead].more \in Nat /\ op.slot[OldHead].more >= 2
         /\ OldHead + op.slot[OldHead].more \in Slots
         /\ op.old.slots = OldHead..OldHead + op.slot[OldHead].more
         /\ Cardinality(op.old.slots) = op.slot[OldHead].more + 1
         /\ op.old.dir \in BOOLEAN /\ op.old.stream.size \in Nat
         /\ op.old.stream.chained \in BOOLEAN
  <1>1. PICK p \in Heads(op.slot) : op.old = Entry(op.slot, p)
    BY DEF Command
  <1>2. Typed(op.slot)
    BY DEF Command
  <1>3. p \in Slots /\ WellFormed(op.slot, p)
    BY <1>2, HeadsWellFormed
  <1>4. /\ op.slot[p].more \in Nat /\ op.slot[p].more >= 2 /\ p + op.slot[p].more \in Slots
        /\ p + 1 \in Slots /\ op.slot[p].dir \in BOOLEAN
    BY <1>2, <1>3, SetInFolder
  <1>5. /\ op.old.slots = p..p + op.slot[p].more /\ OldHead = p
        /\ Cardinality(op.old.slots) = op.slot[p].more + 1
        /\ op.old.dir = op.slot[p].dir /\ op.old.stream = Stream(op.slot, p)
    BY <1>1, <1>2, <1>3, EntryAt DEF OldHead
  <1>6. op.slot[p + 1].size \in Nat /\ op.slot[p + 1].chained \in BOOLEAN
    BY <1>2, <1>3, <1>4 DEF Typed, SlotTyped, WellFormed
  <1>7. op.old.stream.size \in Nat /\ op.old.stream.chained \in BOOLEAN
    BY <1>5, <1>6 DEF Stream
  <1> QED  BY <1>1, <1>3, <1>4, <1>5, <1>7

\* The slots of an entry set have their types.
LEMMA EntrySetTyped ==
  ASSUME NEW name \in Names, NEW dir \in BOOLEAN, NEW st, st.size \in Nat,
         st.chained \in BOOLEAN
  PROVE  \A i \in 1..SetLen(name) : SlotTyped(EntrySet(name, dir, st)[i])
  <1> DEFINE v == EntrySet(name, dir, st)
  <1>1. v[1] = FileSlot(name, dir) /\ v[2] = StreamSlot(name, st)
        /\ \A k \in 1..Len(name) : v[2 + k] = NameSlot(name[k])
    <2>1. v = EntrySet(name, dir, st)
      OBVIOUS
    <2> HIDE DEF v
    <2> QED  BY <2>1, EntrySetIs
  <1>2. Len(name) \in Nat
    BY NameIs
  <1> HIDE DEF v
  <1>3. SlotTyped(v[1]) /\ SlotTyped(v[2])
    BY <1>1, <1>2 DEF SlotTyped, FileSlot, StreamSlot
  <1>4. ASSUME NEW i \in 1..SetLen(name), i # 1, i # 2 PROVE SlotTyped(v[i])
    <2>1. i - 2 \in 1..Len(name) /\ 2 + (i - 2) = i
      BY <1>2, <1>4 DEF SetLen
    <2>2. v[i] = NameSlot(name[i - 2])
      BY <1>1, <2>1
    <2> QED  BY <2>2 DEF SlotTyped, NameSlot
  <1>5. \A i \in 1..SetLen(name) : SlotTyped(v[i])
    BY <1>3, <1>4
  <1> QED  BY <1>5 DEF v

LEMMA NewStreamTyped ==
  ASSUME Command
  PROVE  NewStream.size \in Nat /\ NewStream.chained \in BOOLEAN
BY DEF Command, NewStream

\* The new slots are of an entry set, or erased, and lie in the folder.
LEMMA NewIs ==
  ASSUME Command
  PROVE  /\ op.dest \in Slots /\ Len(NewSet) \in Nat /\ Len(NewSet) >= 3
         /\ IsSeq(NewSet)
         /\ op.dest + Len(NewSet) - 1 \in Slots
         /\ \A i \in 1..Len(NewSet) : SlotTyped(NewSet[i])
         /\ ~ InNew => op.dest = OldHead /\ op.dest + Len(NewSet) - 1 \in op.old.slots
         /\ op.kind # "delete" => Len(NewSet) = SetLen(op.name)
  <1>1. op.kind # "delete" => op.name \in Names
    BY DEF Command
  <1>2. CASE op.kind = "delete"
    <2>1. op.old # NoEntry /\ ~ InNew
      BY <1>2 DEF Command, InNew
    <2>2. /\ OldHead \in Slots /\ op.slot[OldHead].more \in Nat /\ op.slot[OldHead].more >= 2
          /\ OldHead + op.slot[OldHead].more \in Slots
          /\ op.old.slots = OldHead..OldHead + op.slot[OldHead].more
          /\ Cardinality(op.old.slots) = op.slot[OldHead].more + 1
      BY <2>1, OldIs
    <2>3. NewSet = [i \in 1..op.slot[OldHead].more + 1 |-> Cleared] /\ op.dest = OldHead
      BY <1>2, <2>1, <2>2 DEF NewSet, Blank, Command, OldHead
    <2>4. Len(NewSet) = op.slot[OldHead].more + 1
      BY <2>2, <2>3
    <2>5. SlotTyped(Cleared)
      BY DEF SlotTyped, Cleared
    <2>6. /\ op.dest + Len(NewSet) - 1 = OldHead + op.slot[OldHead].more
          /\ Len(NewSet) \in Nat /\ Len(NewSet) >= 3
      BY <2>2, <2>3, <2>4 DEF Slots
    <2>7. OldHead + op.slot[OldHead].more \in op.old.slots
      BY <2>2 DEF Slots
    <2>8. IsSeq(NewSet)
      BY <2>3, <2>4 DEF IsSeq
    <2> QED  BY <1>2, <2>1, <2>2, <2>3, <2>4, <2>5, <2>6, <2>7, <2>8
  <1>3. CASE op.kind # "delete"
    <2>1. PICK dir, st :
            /\ dir \in BOOLEAN /\ st.size \in Nat /\ st.chained \in BOOLEAN
            /\ NewSet = EntrySet(op.name, dir, st)
      <3>1. CASE op.kind = "rename"
        <4>1. /\ op.old.dir \in BOOLEAN /\ op.old.stream.size \in Nat
              /\ op.old.stream.chained \in BOOLEAN
          BY <3>1, OldIs DEF Command
        <4>2. NewSet = EntrySet(op.name, op.old.dir, op.old.stream)
          BY <3>1 DEF NewSet
        <4> QED  BY <4>1, <4>2
      <3>2. CASE op.kind # "rename"
        <4>1. NewSet = EntrySet(op.name, op.kind = "mkdir", NewStream)
          BY <1>3, <3>2 DEF NewSet
        <4>2. (op.kind = "mkdir") \in BOOLEAN
          OBVIOUS
        <4> QED  BY <4>1, <4>2, NewStreamTyped
      <3> QED  BY <3>1, <3>2
    <2>2. /\ Len(NewSet) = SetLen(op.name) /\ SetLen(op.name) \in Nat /\ SetLen(op.name) >= 3
          /\ IsSeq(NewSet)
      BY <1>1, <1>3, <2>1, EntrySetIs
    <2>3. \A i \in 1..Len(NewSet) : SlotTyped(NewSet[i])
      BY <1>1, <1>3, <2>1, <2>2, EntrySetTyped
    <2>4. CASE InNew
      <3>1. op.dest \in Slots
            /\ \A i \in op.dest..op.dest + SetLen(op.name) - 1 : i \in Slots
        BY <2>4 DEF Command
      <3>2. op.dest + SetLen(op.name) - 1 \in op.dest..op.dest + SetLen(op.name) - 1
        BY <2>2, <3>1 DEF Slots
      <3> QED  BY <1>3, <2>2, <2>3, <2>4, <3>1, <3>2
    <2>5. CASE ~ InNew
      <3>1. /\ op.old # NoEntry /\ op.dest = OldHead
        BY <2>5 DEF InNew, Command, OldHead
      <3>2. /\ OldHead \in Slots /\ op.slot[OldHead].more \in Nat
            /\ OldHead + op.slot[OldHead].more \in Slots
            /\ op.old.slots = OldHead..OldHead + op.slot[OldHead].more
            /\ Cardinality(op.old.slots) = op.slot[OldHead].more + 1
        BY <3>1, OldIs
      <3>3. SetLen(op.name) <= Cardinality(op.old.slots)
        <4>1. CASE op.kind = "rename"
          BY <2>2, <2>5, <3>2, <4>1 DEF InNew, Grown
        <4>2. CASE op.kind = "import"
          BY <3>1, <3>2, <4>2 DEF Command
        <4> QED  BY <1>3, <3>1, <4>1, <4>2 DEF Command
      <3>4. op.dest + SetLen(op.name) - 1 \in op.old.slots
            /\ op.dest + SetLen(op.name) - 1 \in Slots
        <4>1. LastSlot \in Nat
          BY FolderAssumption
        <4>2. OldHead \in Nat /\ OldHead >= 1 /\ OldHead + op.slot[OldHead].more <= LastSlot
          BY <3>2, <4>1 DEF Slots
        <4>3. SetLen(op.name) <= op.slot[OldHead].more + 1
          BY <3>2, <3>3
        <4> QED  BY <2>2, <3>1, <3>2, <4>1, <4>2, <4>3 DEF Slots
      <3> QED  BY <1>3, <2>2, <2>3, <2>5, <3>1, <3>2, <3>4
    <2> QED  BY <2>4, <2>5
  <1> QED  BY <1>2, <1>3

LEMMA ChangedTyped == Command => Typed(Changed)
  <1> SUFFICES ASSUME Command PROVE Typed(Changed)
    OBVIOUS
  <1>1. /\ op.dest \in Slots /\ Len(NewSet) \in Nat
        /\ \A i \in 1..Len(NewSet) : SlotTyped(NewSet[i])
    BY NewIs
  <1>2. \A s \in Slots : SlotTyped(op.slot[s])
    BY DEF Command, Typed
  <1>3. Changed = [s \in Slots |-> IF s \in op.dest..op.dest + Len(NewSet) - 1
                                   THEN NewSet[s - op.dest + 1] ELSE op.slot[s]]
    BY DEF Changed, With
  <1>4. ASSUME NEW s \in Slots PROVE SlotTyped(Changed[s])
    <2>1. CASE s \in op.dest..op.dest + Len(NewSet) - 1
      <3>1. s - op.dest + 1 \in 1..Len(NewSet)
        BY <1>1, <2>1 DEF Slots
      <3> QED  BY <1>1, <1>3, <2>1, <3>1
    <2>2. CASE s \notin op.dest..op.dest + Len(NewSet) - 1
      BY <1>2, <1>3, <2>2
    <2> QED  BY <2>1, <2>2
  <1> QED  BY <1>3, <1>4 DEF Typed


LEMMA ShapeHolds ==
  Command /\ Stages /\ Putting =>
    /\ PutShape
    /\ \A i \in 1..Len(PutVals) : SlotTyped(PutVals[i])
  <1> SUFFICES ASSUME Command, Stages, Putting
               PROVE  /\ PutShape
                      /\ \A i \in 1..Len(PutVals) : SlotTyped(PutVals[i])
    OBVIOUS
  <1>1. Typed(op.slot) /\ Typed(Changed)
    BY ChangedTyped DEF Command
  <1>4. SlotTyped(Cleared)
    BY DEF SlotTyped, Cleared
  <1>5. SUFFICES /\ PutFirst \in Nat \ {0} /\ Len(PutVals) \in Nat
                 /\ PutVals = [i \in 1..Len(PutVals) |-> PutVals[i]]
                 /\ \A s \in PutFirst..PutFirst + Len(PutVals) - 1 : s \in Slots
                 /\ \A i \in 1..Len(PutVals) : SlotTyped(PutVals[i])
    BY DEF PutShape, PutSlots
  <1>6. CASE at = "put"
    <2>1. PutVals = NewSet /\ PutFirst = op.dest
      BY <1>6 DEF PutVals, PutFirst
    <2>2. /\ op.dest \in Slots /\ Len(NewSet) \in Nat
          /\ IsSeq(NewSet)
          /\ op.dest + Len(NewSet) - 1 \in Slots
          /\ \A i \in 1..Len(NewSet) : SlotTyped(NewSet[i])
      BY NewIs
    <2>3. op.dest \in Nat \ {0} /\ \A s \in op.dest..op.dest + Len(NewSet) - 1 : s \in Slots
      BY <2>2, FolderAssumption DEF Slots
    <2> QED  BY <2>1, <2>2, <2>3 DEF IsSeq
  <1>7. CASE at = "clear"
    <2>1. op.kind = "rename" /\ op.old # NoEntry
      BY <1>7 DEF Stages, Command
    <2>2. /\ OldHead \in Slots /\ op.slot[OldHead].more \in Nat
          /\ OldHead + op.slot[OldHead].more \in Slots
          /\ op.old.slots = OldHead..OldHead + op.slot[OldHead].more
          /\ Cardinality(op.old.slots) = op.slot[OldHead].more + 1
      BY <2>1, OldIs
    <2> DEFINE more == op.slot[OldHead].more
    <2>3. OldHead \in Nat \ {0} /\ more \in Nat /\ \A s \in OldHead..OldHead + more : s \in Slots
      BY <2>2, FolderAssumption DEF Slots
    <2> HIDE DEF more
    <2>4. CASE Grown
      <3>1. PutFirst = OldHead /\ PutVals = [i \in 1..more + 1 |-> Cleared]
        BY <1>7, <2>2, <2>4 DEF PutFirst, PutVals, Blank, OldHead, more
      <3>2. Len(PutVals) = more + 1
        BY <2>3, <3>1
      <3>3. PutFirst + Len(PutVals) - 1 = OldHead + more
        BY <2>3, <3>1, <3>2
      <3> QED  BY <1>4, <2>3, <3>1, <3>2, <3>3
    <2>5. CASE ~ Grown
      <3> DEFINE n == SetLen(op.name)
      <3>1. op.dest = OldHead
        BY <2>1, <2>5 DEF Command, InNew, OldHead
      <3>2. n \in Nat /\ n <= more + 1
        <4>1. op.name \in Names
          BY <2>1 DEF Command
        <4>2. n \in Nat
          BY <4>1, NameIs DEF SetLen
        <4> QED  BY <2>2, <2>3, <2>5, <4>2 DEF Grown, more
      <3> HIDE DEF n
      <3>3. Surplus = OldHead + n..OldHead + more
        <4>1. Surplus = {s \in OldHead..OldHead + more : s >= OldHead + n}
          BY <2>2, <3>1 DEF Surplus, n, more
        <4> QED  BY <2>3, <3>2, <4>1
      <3>4. Cardinality(Surplus) = more + 1 - n
        <4>1. OldHead + n \in Int /\ OldHead + more \in Int
          BY <2>3, <3>2
        <4>2. Cardinality(Surplus) = IF OldHead + n > OldHead + more THEN 0
                                     ELSE (OldHead + more) - (OldHead + n) + 1
          BY <3>3, <4>1, FS_Interval
        <4> QED  BY <2>3, <3>2, <4>2
      <3>5. PutFirst = OldHead + n /\ PutVals = [i \in 1..more + 1 - n |-> Cleared]
        BY <1>7, <2>5, <3>1, <3>4 DEF PutFirst, PutVals, Blank, n
      <3>6. Len(PutVals) = more + 1 - n /\ more + 1 - n \in Nat
        BY <2>3, <3>2, <3>5
      <3>7. PutFirst \in Nat \ {0} /\ PutFirst >= OldHead
            /\ PutFirst + Len(PutVals) - 1 = OldHead + more
        BY <2>3, <3>2, <3>5, <3>6
      <3>8. \A s \in PutFirst..OldHead + more : s \in OldHead..OldHead + more
        BY <2>3, <3>7
      <3> QED  BY <1>4, <2>3, <3>5, <3>6, <3>7, <3>8
    <2> QED  BY <2>4, <2>5
  <1>8. CASE at = "take back"
    <2> DEFINE n == SetLen(op.name)
    <2>1. op.kind = "rename" /\ InNew
      BY <1>8 DEF Stages, InNew
    <2>2. n \in Nat
      <3>1. op.name \in Names
        BY <2>1 DEF Command
      <3> QED  BY <3>1, NameIs DEF SetLen
    <2>3. op.dest \in Slots /\ \A i \in op.dest..op.dest + n - 1 : i \in Slots
      BY <2>1 DEF Command
    <2> HIDE DEF n
    <2>4. PutFirst = op.dest /\ PutVals = [i \in 1..n |-> op.slot[op.dest + i - 1]]
      BY <1>8 DEF PutFirst, PutVals, n
    <2>5. Len(PutVals) = n /\ PutVals = [i \in 1..Len(PutVals) |-> PutVals[i]]
      BY <2>2, <2>4
    <2>6. ASSUME NEW i \in 1..n PROVE SlotTyped(PutVals[i])
      <3>1. op.dest + i - 1 \in op.dest..op.dest + n - 1
        BY <2>2, <2>3 DEF Slots
      <3>2. PutVals[i] = op.slot[op.dest + i - 1]
        BY <2>4
      <3> QED  BY <1>1, <2>3, <3>1, <3>2 DEF Typed
    <2>7. op.dest \in Nat \ {0}
      BY <2>3 DEF Slots
    <2> QED  BY <2>2, <2>3, <2>4, <2>5, <2>6, <2>7
  <1> QED  BY <1>6, <1>7, <1>8 DEF Putting

-----------------------------------------------------------------------------
(* The folder, step by step.                                               *)

\* Slots of what the command found and slots of its new entry set.
Mixed ==
  /\ slot = [s \in Slots |-> slot[s]]
  /\ \A s \in Slots : slot[s] = op.slot[s]
       \/ (s \in op.dest..op.dest + Len(NewSet) - 1 /\ slot[s] = NewSet[s - op.dest + 1])

FolderNow ==
  /\ at = "idle" => Typed(slot)
  /\ at \in {"take", "link", "data", "mark", "undo", "release"} => slot = op.slot
  /\ Putting => SectorsPut
  /\ at = "free" => slot = Changed
  /\ at = "keep" => torn /\ Mixed

FolderHolds == (at # "idle" => Command) /\ Stages /\ FolderNow

LEMMA CommandSame ==
  ASSUME op' = op
  PROVE  /\ Command' = Command /\ NewSet' = NewSet /\ Changed' = Changed
         /\ Grown' = Grown /\ Surplus' = Surplus /\ OldHead' = OldHead /\ InNew' = InNew
  <1>1. Grown' = Grown /\ Surplus' = Surplus /\ OldHead' = OldHead
    BY DEF Grown, Surplus, OldHead
  <1>2. NewSet' = NewSet
    BY DEF NewSet, NewStream
  <1>3. Changed' = Changed
    BY <1>2 DEF Changed
  <1>4. InNew' = InNew
    BY <1>1 DEF InNew
  <1>5. Command' = Command
    BY <1>4 DEF Command
  <1> QED  BY <1>1, <1>2, <1>3, <1>4, <1>5

LEMMA WithTyped ==
  ASSUME NEW d, Typed(d), NEW first \in Nat \ {0}, NEW vals, Len(vals) \in Nat,
         \A i \in 1..Len(vals) : SlotTyped(vals[i]), NEW e, e = [s \in Slots |-> e[s]],
         \A s \in Slots : e[s] = d[s]
            \/ (s \in first..first + Len(vals) - 1 /\ e[s] = vals[s - first + 1])
  PROVE  Typed(e)
  <1>1. ASSUME NEW s \in Slots PROVE SlotTyped(e[s])
    <2>1. CASE e[s] = d[s]
      BY <2>1 DEF Typed
    <2>2. CASE s \in first..first + Len(vals) - 1 /\ e[s] = vals[s - first + 1]
      <3>1. s - first + 1 \in 1..Len(vals)
        BY <2>2
      <3> QED  BY <2>2, <3>1
    <2> QED  BY <2>1, <2>2
  <1> QED  BY <1>1 DEF Typed

\* Every slot of the folder has a type, whatever was torn.
LEMMA FolderTyped ==
  ASSUME FolderHolds
  PROVE  Typed(slot)
  <1>1. at # "idle" => Command /\ Typed(op.slot) /\ Typed(Changed)
    BY ChangedTyped DEF FolderHolds, Command
  <1>2. CASE Putting
    <2>1. PutShape /\ \A i \in 1..Len(PutVals) : SlotTyped(PutVals[i])
      BY <1>1, <1>2, ShapeHolds DEF FolderHolds, Putting
    <2>2. SectorsPut
      BY <1>2 DEF FolderHolds, FolderNow
    <2>3. slot = [s \in Slots |-> slot[s]]
      BY <2>2, PutMixes
    <2>4. PICK base : PutOver(base) /\ \A s \in Slots : slot[s] = base[s]
                           \/ (s \in PutSlots /\ slot[s] = PutVals[s - PutFirst + 1])
      BY <2>2, PutMixes
    <2>5. Typed(base)
      BY <2>4 DEF PutOver
    <2>6. PutFirst \in Nat \ {0} /\ Len(PutVals) \in Nat
      BY <2>1 DEF PutShape
    <2> QED  BY <2>1, <2>3, <2>4, <2>5, <2>6, WithTyped DEF PutSlots
  <1>3. CASE at = "keep"
    <2>1. Mixed /\ Command
      BY <1>1, <1>3 DEF FolderHolds, FolderNow
    <2>2. /\ op.dest \in Slots /\ Len(NewSet) \in Nat
          /\ \A i \in 1..Len(NewSet) : SlotTyped(NewSet[i])
      BY <2>1, NewIs
    <2>3. op.dest \in Nat \ {0}
      BY <2>2 DEF Slots
    <2> QED  BY <1>1, <1>3, <2>1, <2>2, <2>3, WithTyped DEF Mixed
  <1>4. CASE ~ Putting /\ at # "keep"
    BY <1>1, <1>4 DEF FolderHolds, FolderNow, Stages, Putting
  <1> QED  BY <1>2, <1>3, <1>4

\* A step that leaves the command and the folder as they are.
LEMMA FolderRests ==
  ASSUME FolderHolds, at # "idle", UNCHANGED <<op, slot>>,
         at \in {"take", "link", "data", "mark", "undo", "release"},
         at' \in {"take", "link", "data", "mark", "undo", "release", "idle"}
  PROVE  FolderHolds'
  <1>1. Typed(slot)
    BY FolderTyped
  <1>2. Command'
    BY CommandSame DEF FolderHolds
  <1>3. Stages'
    BY DEF FolderHolds, Stages
  <1>4. FolderNow'
    BY <1>1 DEF FolderHolds, FolderNow, Putting
  <1> QED  BY <1>2, <1>3, <1>4 DEF FolderHolds

\* A command that ends leaves a folder whose slots have types.
LEMMA FolderEnds ==
  ASSUME FolderHolds, slot' = slot, at' = "idle"
  PROVE  FolderHolds'
  <1>1. Typed(slot)
    BY FolderTyped
  <1> QED  BY <1>1 DEF FolderHolds, FolderNow, Stages, Putting

\* A put begins over the folder as it is.
LEMMA FolderPuts ==
  (Command /\ Stages /\ Putting /\ todo = Writes /\ before = <<>> /\ ~ failed /\ PutOver(slot)
     => FolderHolds)'
  <1>1. Command /\ Stages /\ Putting /\ todo = Writes /\ before = <<>> /\ ~ failed /\ PutOver(slot)
          => FolderHolds
    <2> SUFFICES ASSUME Command, Stages, Putting, todo = Writes, before = <<>>, ~ failed,
                        PutOver(slot)
                 PROVE  FolderHolds
      OBVIOUS
    <2>1. SectorsPut
      BY ShapeHolds, PutStarts
    <2> QED  BY <2>1 DEF FolderHolds, FolderNow, Putting
  <1> QED  BY <1>1, PTL

\* What a command finds when it begins.
LEMMA MountCommand ==
  ASSUME CancelHolds', at' # "idle", Typed(slot),
         NEW kind, NEW name, NEW old, NEW dest, NEW n, Mount(kind, name, old, dest, n),
         kind \in {"import", "mkdir", "delete", "rename"}, kind # "delete" => name \in Names,
         old # NoEntry => \E p \in Heads(slot) : old = Entry(slot, p),
         kind \in {"delete", "rename"} => old # NoEntry, kind = "mkdir" => old = NoEntry,
         kind = "import" /\ old # NoEntry =>
           /\ old.name = name /\ old.dir = FALSE /\ Cardinality(old.slots) = SetLen(name),
         old = NoEntry \/ (kind = "rename" /\ SetLen(name) > Cardinality(old.slots)) =>
           /\ dest \in Slots
           /\ \A i \in dest..dest + SetLen(name) - 1 : i \in Slots \ old.slots /\ Unused(slot[i]),
         ~ (old = NoEntry \/ (kind = "rename" /\ SetLen(name) > Cardinality(old.slots))) =>
           dest = Min(old.slots)
  PROVE  /\ Command' /\ slot' = slot /\ op'.slot = slot /\ op'.kind = kind /\ op'.name = name
         /\ op'.old = old /\ op'.dest = dest
  <1>1. /\ op'.slot = slot /\ op'.kind = kind /\ op'.name = name
        /\ op'.old = old /\ op'.dest = dest /\ op'.chained = ~ Contiguous(n)
    BY DEF Mount
  <1>2. slot' = slot
    BY DEF Mount, card
  <1>3. op'.plan \in Seq(Clusters)
    BY DEF CancelHolds, CardTypes
  <1>4. op'.chained \in BOOLEAN
    BY <1>1 DEF Contiguous
  <1>5. InNew' <=> old = NoEntry \/ (kind = "rename" /\ SetLen(name) > Cardinality(old.slots))
    BY <1>1 DEF InNew, Grown
  <1>6. Command'
    BY <1>1, <1>3, <1>4, <1>5 DEF Command
  <1> QED  BY <1>1, <1>2, <1>6

LEMMA FreeRunIs ==
  ASSUME NEW d, NEW n, NEW skip, FreeRuns(d, n, skip) # {}
  PROVE  /\ Min(FreeRuns(d, n, skip)) \in Slots
         /\ \A i \in Min(FreeRuns(d, n, skip))..Min(FreeRuns(d, n, skip)) + n - 1 :
              i \in Slots \ skip /\ Unused(d[i])
  <1> DEFINE I == FreeRuns(d, n, skip)
  <1>1. I \subseteq Nat /\ I # {}
    BY DEF FreeRuns, Slots
  <1>2. Min(I) \in I
    <2> HIDE DEF I
    <2> QED  BY <1>1, LeastIs
  <1> QED  BY <1>2 DEF FreeRuns

LEMMA ListedEntry ==
  ASSUME NEW d, Typed(d), NEW old \in Listing(d)
  PROVE  /\ \E p \in Heads(d) : old = Entry(d, p)
         /\ old # NoEntry /\ old.dir \in BOOLEAN /\ Min(old.slots) \in Slots
  <1>1. PICK p \in Heads(d) : old = Entry(d, p)
    BY DEF Listing
  <1>2. p \in Slots /\ WellFormed(d, p)
    BY HeadsWellFormed
  <1>3. old # NoEntry /\ old.dir = d[p].dir /\ Min(old.slots) = p
    BY <1>1, <1>2, EntryAt
  <1>4. d[p].dir \in BOOLEAN
    BY <1>2, SetInFolder
  <1> QED  BY <1>1, <1>2, <1>3, <1>4

LEMMA FolderTakes ==
  ASSUME Command', slot' = slot, op'.slot = slot, at' = "take", op'.kind \in {"import", "mkdir"}
  PROVE  FolderHolds'
BY DEF FolderHolds, Stages, FolderNow, Putting

LEMMA FolderBegins ==
  ASSUME CancelHolds', FolderHolds, Begin PROVE FolderHolds'
  <1>1. Typed(slot)
    BY FolderTyped
  <1>2. NoEntry.slots = {}
    BY DEF NoEntry
  <1>3. ASSUME NEW name \in Names, NEW n \in Sizes, Import(name, n) PROVE FolderHolds'
    <2> DEFINE free == FreeRuns(slot, SetLen(name), {})
    <2>1. PICK old \in Named(slot, name) \cup {NoEntry} :
            /\ IF old = NoEntry THEN Named(slot, name) = {} /\ free # {}
               ELSE ~ old.dir /\ Cardinality(old.slots) = SetLen(name)
            /\ Mount("import", name, old,
                     IF old = NoEntry THEN Min(free) ELSE Min(old.slots), n)
      BY <1>3, Zenon DEF Import
    <2>2. at' = "take"
      BY <1>3 DEF Import
    <2>3. old # NoEntry => /\ \E p \in Heads(slot) : old = Entry(slot, p)
                           /\ old.name = name /\ old.dir = FALSE
                           /\ Cardinality(old.slots) = SetLen(name)
      <3> SUFFICES ASSUME old # NoEntry
                   PROVE  /\ \E p \in Heads(slot) : old = Entry(slot, p)
                          /\ old.name = name /\ old.dir = FALSE
                          /\ Cardinality(old.slots) = SetLen(name)
        OBVIOUS
      <3>1. old \in Listing(slot) /\ old.name = name
        BY DEF Named
      <3>2. (\E p \in Heads(slot) : old = Entry(slot, p)) /\ old.dir \in BOOLEAN
        BY <1>1, <3>1, ListedEntry
      <3> QED  BY <2>1, <3>1, <3>2
    <2>4. old = NoEntry => /\ Min(free) \in Slots
                           /\ \A i \in Min(free)..Min(free) + SetLen(name) - 1 :
                                i \in Slots \ old.slots /\ Unused(slot[i])
      BY <1>2, <2>1, FreeRunIs
    <2> DEFINE dest == IF old = NoEntry THEN Min(free) ELSE Min(old.slots)
    <2>5. Mount("import", name, old, dest, n)
      BY <2>1
    <2>6. /\ old = NoEntry => dest = Min(free)
          /\ old # NoEntry => dest = Min(old.slots)
      OBVIOUS
    <2> HIDE DEF dest, free
    <2>7. Command' /\ slot' = slot /\ op'.slot = slot /\ op'.kind = "import"
      BY <1>1, <2>2, <2>3, <2>4, <2>5, <2>6, MountCommand
    <2> QED  BY <2>2, <2>7, FolderTakes
  <1>4. ASSUME NEW name \in Names, MakeDir(name) PROVE FolderHolds'
    <2> DEFINE free == FreeRuns(slot, SetLen(name), {})
    <2>1. /\ free # {} /\ Mount("mkdir", name, NoEntry, Min(free), 1) /\ at' = "take"
      BY <1>4, Zenon DEF MakeDir
    <2>2. /\ Min(free) \in Slots
          /\ \A i \in Min(free)..Min(free) + SetLen(name) - 1 :
               i \in Slots \ NoEntry.slots /\ Unused(slot[i])
      BY <1>2, <2>1, FreeRunIs
    <2> HIDE DEF free
    <2>4. /\ Mount("mkdir", name, NoEntry, Min(free), 1) /\ at' # "idle"
          /\ "mkdir" \in {"import", "mkdir", "delete", "rename"}
          /\ ~ ("mkdir" \in {"delete", "rename"}) /\ "mkdir" # "import"
          /\ NoEntry = NoEntry
      BY <2>1
    <2>3. Command' /\ slot' = slot /\ op'.slot = slot /\ op'.kind = "mkdir"
      BY <1>1, <2>2, <2>4, MountCommand, Zenon
    <2> QED  BY <2>1, <2>3, FolderTakes
  <1>5. ASSUME NEW old \in Listing(slot), Delete(old) PROVE FolderHolds'
    <2>1. /\ Mount("delete", old.name, old, Min(old.slots), 0)
          /\ StartPut(Min(old.slots), [i \in 1..Cardinality(old.slots) |-> Cleared], "put")
      BY <1>5 DEF Delete
    <2>2. (\E p \in Heads(slot) : old = Entry(slot, p)) /\ old # NoEntry
      BY <1>1, ListedEntry
    <2>3. at' = "put" /\ before' = <<>> /\ ~ failed'
          /\ todo' = SectorWrites(Min(old.slots), [i \in 1..Cardinality(old.slots) |-> Cleared])
      BY <2>1 DEF StartPut
    <2>4. /\ Command' /\ slot' = slot /\ op'.slot = slot /\ op'.kind = "delete"
          /\ op'.old = old /\ op'.dest = Min(old.slots)
      <3> DEFINE name == old.name
                 dest == Min(old.slots)
      <3>1. /\ at' # "idle" /\ "delete" \in {"import", "mkdir", "delete", "rename"}
            /\ "delete" # "import" /\ "delete" # "mkdir" /\ "delete" # "rename"
        BY <2>3
      <3>2. ~ (old = NoEntry \/ ("delete" = "rename" /\ SetLen(name) > Cardinality(old.slots)))
        BY <2>2
      <3>3. Mount("delete", name, old, dest, 0) /\ dest = Min(old.slots)
        BY <2>1
      <3> HIDE DEF NoEntry, SetLen, name, dest
      <3>4. /\ Command' /\ slot' = slot /\ op'.slot = slot /\ op'.kind = "delete"
            /\ op'.old = old /\ op'.dest = dest
        <4> DEFINE kind == "delete"
        <4>1. /\ at' # "idle" /\ kind \in {"import", "mkdir", "delete", "rename"}
              /\ (kind # "delete" => name \in Names)
              /\ (kind \in {"delete", "rename"} => old # NoEntry)
              /\ (kind = "mkdir" => old = NoEntry)
          BY <2>2, <3>1
        <4>2. kind = "import" /\ old # NoEntry =>
                old.name = name /\ old.dir = FALSE /\ Cardinality(old.slots) = SetLen(name)
          BY <3>1
        <4>3. Mount(kind, name, old, dest, 0)
          BY <3>3
        <4>4. ~ (old = NoEntry \/ (kind = "rename" /\ SetLen(name) > Cardinality(old.slots)))
          BY <3>2
        <4>5. kind = "delete"
          OBVIOUS
        <4> HIDE DEF kind
        <4>6. /\ Command' /\ slot' = slot /\ op'.slot = slot /\ op'.kind = kind
              /\ op'.old = old /\ op'.dest = dest
          BY <1>1, <2>2, <3>3, <4>1, <4>2, <4>3, <4>4, MountCommand, Zenon
        <4> QED  BY <4>5, <4>6
      <3> QED  BY <3>3, <3>4
    <2>5. Stages' /\ Putting' /\ PutOver(slot)'
      BY <1>1, <2>3, <2>4 DEF Stages, Putting, PutOver
    <2>6. NewSet' = [i \in 1..Cardinality(old.slots) |-> Cleared]
      BY <2>4 DEF NewSet, Blank
    <2>7. todo' = Writes'
      BY <2>3, <2>4, <2>6 DEF Writes, PutFirst, PutVals
    <2> QED  BY <2>3, <2>4, <2>5, <2>7, FolderPuts
  <1>6. ASSUME NEW old \in Listing(slot), NEW name \in Names, Rename(old, name)
        PROVE  FolderHolds'
    <2> DEFINE free == FreeRuns(slot, SetLen(name), old.slots)
    <2>1. PICK s \in Slots :
            /\ IF SetLen(name) <= Cardinality(old.slots) THEN s = Min(old.slots)
               ELSE free # {} /\ s = Min(free)
            /\ Mount("rename", name, old, s, 0)
            /\ StartPut(s, EntrySet(name, old.dir, old.stream), "put")
      BY <1>6, Zenon DEF Rename
    <2>2. (\E p \in Heads(slot) : old = Entry(slot, p)) /\ old # NoEntry
      BY <1>1, ListedEntry
    <2>3. at' = "put" /\ before' = <<>> /\ ~ failed'
          /\ todo' = SectorWrites(s, EntrySet(name, old.dir, old.stream))
      BY <2>1 DEF StartPut
    <2>4. SetLen(name) \in Nat /\ Cardinality(old.slots) \in Nat
      <3>1. PICK p \in Heads(slot) : old = Entry(slot, p)
        BY <2>2
      <3>2. p \in Slots /\ WellFormed(slot, p)
        BY <1>1, HeadsWellFormed
      <3>3. Cardinality(old.slots) = slot[p].more + 1 /\ slot[p].more \in Nat
        BY <1>1, <3>1, <3>2, EntryAt, SetInFolder
      <3> QED  BY <3>3, NameIs DEF SetLen
    <2>5. ASSUME SetLen(name) > Cardinality(old.slots)
          PROVE  /\ s \in Slots
                 /\ \A i \in s..s + SetLen(name) - 1 : i \in Slots \ old.slots /\ Unused(slot[i])
      <3>1. free # {} /\ s = Min(free)
        BY <2>1, <2>4, <2>5
      <3> QED  BY <3>1, FreeRunIs
    <2>6. ~ (SetLen(name) > Cardinality(old.slots)) => s = Min(old.slots)
      BY <2>1, <2>4
    <2>7. Mount("rename", name, old, s, 0)
      BY <2>1
    <2> HIDE DEF free
    <2>8. /\ Command' /\ slot' = slot /\ op'.slot = slot /\ op'.kind = "rename"
          /\ op'.old = old /\ op'.dest = s /\ op'.name = name
      <3>1. /\ at' # "idle" /\ "rename" \in {"import", "mkdir", "delete", "rename"}
            /\ "rename" # "import" /\ "rename" # "mkdir" /\ "rename" # "delete"
        BY <2>3
      <3>2. old = NoEntry \/ ("rename" = "rename" /\ SetLen(name) > Cardinality(old.slots)) <=>
              SetLen(name) > Cardinality(old.slots)
        BY <2>2
      <3> HIDE DEF NoEntry, SetLen
      <3> QED  BY <1>1, <2>2, <2>5, <2>6, <2>7, <3>1, <3>2, MountCommand, Zenon
    <2>9. Stages' /\ Putting' /\ PutOver(slot)'
      BY <1>1, <2>3, <2>8 DEF Stages, Putting, PutOver
    <2>10. NewSet' = EntrySet(name, old.dir, old.stream)
      BY <2>8 DEF NewSet
    <2>11. todo' = Writes'
      BY <2>3, <2>8, <2>10 DEF Writes, PutFirst, PutVals
    <2> QED  BY <2>3, <2>8, <2>9, <2>11, FolderPuts
  <1> QED  BY <1>3, <1>4, <1>5, <1>6 DEF Begin

\* A step that leaves the command, the folder and where it stands as they are.
LEMMA FolderSame ==
  ASSUME FolderHolds, UNCHANGED <<op, slot, at, todo, before, failed, restored, torn>>
  PROVE  FolderHolds'
  <1>1. /\ op' = op /\ slot' = slot /\ at' = at /\ todo' = todo /\ before' = before
        /\ failed' = failed /\ restored' = restored /\ torn' = torn
    OBVIOUS
  <1>2. /\ PutVals' = PutVals /\ PutFirst' = PutFirst /\ Changed' = Changed
        /\ PutSlots' = PutSlots /\ Writes' = Writes /\ \A s : Place(s)' = Place(s)
    BY <1>1, PutSame
  <1>3. Command' = Command /\ NewSet' = NewSet
    BY <1>1, CommandSame
  <1>4. Stages'
    <2>1. Grown' = Grown
      BY <1>1 DEF Grown
    <2> QED  BY <1>1, <2>1 DEF FolderHolds, Stages
  <1>5. Putting' = Putting /\ Mixed' = Mixed
    BY <1>1, <1>3 DEF Putting, Mixed
  <1>6. SectorsPut => SectorsPut'
    <2>1. PutShape => PutShape'
      BY <1>2 DEF PutShape
    <2>2. ASSUME NEW base, PutOver(base) PROVE (PutOver(base))'
      <3>1. at' = at /\ torn' = torn /\ Changed' = Changed /\ op' = op
        BY <1>1, <1>2
      <3>2. Typed(base) /\ (at = "put" => base = op.slot)
        BY <2>2 DEF PutOver
      <3>3. at = "clear" \/ (at = "take back" /\ ~ torn) => base = Changed
        BY <2>2 DEF PutOver
      <3>4. at' = "clear" \/ (at' = "take back" /\ ~ torn') => base = Changed'
        <4>1. torn' <=> torn
          OBVIOUS
        <4> QED  BY <3>1, <3>3, <4>1
      <3>5. at' = "put" => base = op'.slot
        BY <3>1, <3>2
      <3> QED  BY <3>2, <3>4, <3>5 DEF PutOver
    <2>3. ASSUME NEW base, NEW j, NEW b, PutsAt(j, b, base) PROVE (PutsAt(j, b, base))'
      BY <1>1, <1>2, <2>3 DEF PutsAt
    <2> QED  BY <1>2, <2>1, <2>2, <2>3 DEF SectorsPut
  <1> QED  BY <1>1, <1>2, <1>3, <1>4, <1>5, <1>6 DEF FolderHolds, FolderNow

LEMMA FolderInit == Init => FolderHolds
  <1> SUFFICES ASSUME Init PROVE FolderHolds
    OBVIOUS
  <1>1. at = "idle" /\ \E c \in Cards : slot = c.slot
    BY DEF Init
  <1>2. Typed(slot)
    BY <1>1, SoundCards DEF Typed
  <1> QED  BY <1>1, <1>2 DEF FolderHolds, FolderNow, Stages, Putting

\* All of the entry set has been written, or all of it put back.
LEMMA PutDone ==
  ASSUME FolderHolds, Putting
  PROVE  /\ Command /\ Typed(slot)
         /\ (Put("put") => slot = Changed)
         /\ (Put("take back") /\ ~ torn => slot = With(Changed, PutFirst, PutVals))
         /\ (Put("clear") => slot = With(Changed, PutFirst, PutVals))
         /\ (at = "put" /\ failed /\ before = <<>> /\ restored => slot = op.slot)
         /\ (at = "clear" /\ failed /\ before = <<>> /\ restored => slot = Changed)
         /\ (PutBack("take back") /\ restored /\ ~ torn => slot = Changed)
         /\ (at = "put" => Mixed)
  <1>1. SectorsPut /\ Command /\ Typed(slot)
    BY FolderTyped DEF FolderHolds, FolderNow, Putting
  <1>2. /\ slot = [s \in Slots |-> slot[s]]
        /\ \E base : /\ PutOver(base)
                     /\ \A s \in Slots : slot[s] = base[s]
                          \/ (s \in PutSlots /\ slot[s] = PutVals[s - PutFirst + 1])
                     /\ (~ failed /\ todo = <<>>) => slot = With(base, PutFirst, PutVals)
                     /\ (failed /\ before = <<>> /\ restored) => slot = base
    BY <1>1, PutMixes
  <1>3. PICK base : /\ PutOver(base)
                    /\ \A s \in Slots : slot[s] = base[s]
                         \/ (s \in PutSlots /\ slot[s] = PutVals[s - PutFirst + 1])
                    /\ (~ failed /\ todo = <<>>) => slot = With(base, PutFirst, PutVals)
                    /\ (failed /\ before = <<>> /\ restored) => slot = base
    BY <1>2
  <1>4. /\ at = "put" => base = op.slot
        /\ at = "clear" \/ (at = "take back" /\ ~ torn) => base = Changed
    BY <1>3 DEF PutOver
  <1>5. at = "put" => PutFirst = op.dest /\ PutVals = NewSet
    BY DEF PutFirst, PutVals
  <1>6. Put("put") => slot = Changed
    BY <1>3, <1>4, <1>5 DEF Put, Changed
  <1>7. at = "put" => Mixed
    BY <1>2, <1>3, <1>4, <1>5 DEF Mixed, PutSlots
  <1>8. PutBack("take back") /\ restored /\ ~ torn => slot = Changed
    BY <1>3, <1>4 DEF PutBack
  <1> QED  BY <1>1, <1>3, <1>4, <1>6, <1>7, <1>8 DEF Put

LEMMA FolderMarks ==
  ASSUME FolderHolds, NEW o \in Outcomes, MarkClusters(o)
  PROVE  FolderHolds'
  <1>1. at = "mark" /\ op' = op /\ slot' = slot
    BY DEF MarkClusters, SyncBitmap
  <1>2. CASE o # "ok"
    BY <1>1, <1>2, FolderRests DEF MarkClusters
  <1>3. CASE o = "ok"
    <2>1. /\ todo' = SectorWrites(op.dest, EntrySet(op.name, op.kind = "mkdir", NewStream))
          /\ before' = <<>> /\ ~ failed' /\ at' = "put"
      BY <1>3 DEF MarkClusters, PutNewEntry, StartPut, NewStream
    <2>2. Command /\ slot = op.slot /\ op.kind \in {"import", "mkdir"} /\ Typed(slot)
      BY <1>1, FolderTyped DEF FolderHolds, FolderNow, Stages
    <2>3. Command' /\ NewSet' = NewSet
      BY <1>1, <2>2, CommandSame
    <2>4. Stages' /\ Putting' /\ PutOver(slot)'
      BY <1>1, <2>1, <2>2 DEF Stages, Putting, PutOver
    <2>5. NewSet = EntrySet(op.name, op.kind = "mkdir", NewStream)
      BY <2>2 DEF NewSet
    <2>6. todo' = Writes'
      BY <1>1, <2>1, <2>3, <2>5 DEF Writes, PutFirst, PutVals
    <2> QED  BY <2>1, <2>3, <2>4, <2>6, FolderPuts
  <1> QED  BY <1>2, <1>3

LEMMA FolderRenames ==
  ASSUME FolderHolds, Renamed
  PROVE  FolderHolds'
  <1>1. /\ Put("put") /\ op.kind = "rename" /\ op' = op /\ slot' = slot
        /\ at' = "clear" /\ before' = <<>> /\ ~ failed'
        /\ todo' = IF Grown THEN SectorWrites(Min(op.old.slots), Blank(op.old.slots))
                   ELSE SectorWrites(op.dest + SetLen(op.name), Blank(Surplus))
    BY DEF Renamed, StartPut, card
  <1>2. Command /\ Typed(slot) /\ slot = Changed
    BY <1>1, PutDone DEF Put, Putting
  <1>3. Command' /\ Changed' = Changed /\ Grown' = Grown /\ Surplus' = Surplus
    BY <1>1, <1>2, CommandSame
  <1>4. Stages' /\ Putting' /\ PutOver(slot)'
    BY <1>1, <1>2, <1>3 DEF Stages, Putting, PutOver
  <1>5. todo' = Writes'
    BY <1>1, <1>3 DEF Writes, PutFirst, PutVals
  <1> QED  BY <1>1, <1>3, <1>4, <1>5, FolderPuts

LEMMA FolderTakesBack ==
  ASSUME FolderHolds, OldNameStays
  PROVE  FolderHolds'
  <1>1. /\ at = "clear" /\ failed /\ before = <<>> /\ slot' = slot
        /\ torn' = (torn \/ ~ restored)
    BY DEF OldNameStays, PutBack, card
  <1>2. CASE ~ Grown
    <2>1. at' = "idle"
      BY <1>2 DEF OldNameStays, Done
    <2> QED  BY <1>1, <2>1, FolderEnds
  <1>3. CASE Grown
    <2>1. /\ op' = op /\ at' = "take back" /\ before' = <<>> /\ ~ failed'
          /\ todo' = SectorWrites(op.dest, [i \in 1..SetLen(op.name) |->
                                              op.slot[op.dest + i - 1]])
      BY <1>3 DEF OldNameStays, StartPut
    <2>2. Command /\ Typed(slot) /\ (restored => slot = Changed)
      BY <1>1, PutDone DEF Putting
    <2>3. Command' /\ Changed' = Changed /\ Grown' = Grown
      BY <2>1, <2>2, CommandSame
    <2>4. op.kind = "rename"
      BY <1>1 DEF FolderHolds, Stages
    <2>5. Stages' /\ Putting' /\ PutOver(slot)'
      BY <1>1, <1>3, <2>1, <2>2, <2>3, <2>4 DEF Stages, Putting, PutOver
    <2>6. todo' = Writes'
      BY <2>1 DEF Writes, PutFirst, PutVals
    <2> QED  BY <2>1, <2>3, <2>5, <2>6, FolderPuts
  <1> QED  BY <1>2, <1>3

LEMMA FolderFailsCreate ==
  ASSUME FolderHolds, CreateFailed
  PROVE  FolderHolds'
  <1>1. /\ at = "put" /\ failed /\ before = <<>> /\ slot' = slot /\ op' = op
        /\ torn' = (torn \/ ~ restored) /\ at' = IF restored THEN "undo" ELSE "keep"
        /\ op.kind \in {"import", "mkdir"}
    BY DEF CreateFailed, PutBack, card
  <1>2. Command /\ (restored => slot = op.slot) /\ Mixed
    BY <1>1, PutDone DEF Putting
  <1>3. Command' /\ NewSet' = NewSet
    BY <1>1, <1>2, CommandSame
  <1>4. Mixed'
    BY <1>1, <1>2, <1>3 DEF Mixed
  <1>5. Stages'
    BY <1>1 DEF Stages
  <1>6. FolderNow'
    BY <1>1, <1>2, <1>4 DEF FolderNow, Putting
  <1> QED  BY <1>3, <1>5, <1>6 DEF FolderHolds

LEMMA FolderFrees ==
  ASSUME FolderHolds, FreeOld
  PROVE  FolderHolds'
  <1>1. /\ Put("put") /\ op.kind # "rename" /\ op.old # NoEntry /\ at' = "free"
        /\ slot' = slot /\ op' = op
    BY Zenon DEF FreeOld, card
  <1>2. Command /\ slot = Changed
    BY <1>1, PutDone DEF Put, Putting
  <1>3. Command' /\ Changed' = Changed
    BY <1>1, <1>2, CommandSame
  <1>4. Stages' /\ FolderNow'
    BY <1>1, <1>2, <1>3 DEF Stages, FolderNow, Putting
  <1> QED  BY <1>3, <1>4 DEF FolderHolds

LEMMA FolderFatWrite ==
  ASSUME FolderHolds, NEW o \in Outcomes, FatWrite(o)
  PROVE  FolderHolds'
  <1>1. /\ at \in {"link", "release", "free"} /\ slot' = slot /\ op' = op
        /\ UNCHANGED <<todo, before, failed, restored, torn>>
        /\ at' = IF o # "ok" /\ at = "link" THEN "undo" ELSE at
    BY DEF FatWrite, entrySet, past
  <1>2. CASE at = "link"
    BY <1>1, <1>2, FolderRests
  <1>3. CASE at # "link"
    BY <1>1, <1>3, FolderSame
  <1> QED  BY <1>2, <1>3

LEMMA FolderWrites ==
  ASSUME FolderHolds, NEW o \in Outcomes, PutSector(o) \/ RestoreSector(o)
  PROVE  FolderHolds'
  <1>1. Putting /\ op' = op /\ at' = at
    BY DEF PutSector, RestoreSector
  <1>2. Command /\ SectorsPut
    BY <1>1 DEF FolderHolds, FolderNow, Putting
  <1>3. SectorsPut'
    BY <1>2, PutSectorKeeps, RestoreKeeps
  <1>4. Command' /\ Grown' = Grown
    BY <1>1, <1>2, CommandSame
  <1>5. Stages' /\ FolderNow'
    BY <1>1, <1>3, <1>4 DEF FolderHolds, Stages, FolderNow, Putting
  <1> QED  BY <1>4, <1>5 DEF FolderHolds

LEMMA FolderWriteStep ==
  ASSUME FolderHolds, NEW o \in Outcomes, Write(o)
  PROVE  FolderHolds'
  <1>1. CASE TakeCluster(o)
    <2>1. UNCHANGED <<op, slot>> /\ at = "take" /\ at' \in {"take", "undo"}
      BY <1>1 DEF TakeCluster
    <2> QED  BY <2>1, FolderRests
  <1>2. CASE WriteCluster(o)
    <2>1. UNCHANGED <<op, slot>> /\ at = "data" /\ at' \in {"data", "undo"}
      BY <1>2 DEF WriteCluster
    <2> QED  BY <2>1, FolderRests
  <1>3. CASE Released(o) \/ Kept(o) \/ Freed(o)
    <2>1. slot' = slot /\ at' = "idle"
      BY <1>3 DEF Released, Kept, Freed, SyncBitmap, Done
    <2> QED  BY <2>1, FolderEnds
  <1> QED  BY <1>1, <1>2, <1>3, FolderMarks, FolderWrites, FolderFatWrite DEF Write

LEMMA FolderOtherStep ==
  ASSUME FolderHolds, Step
  PROVE  FolderHolds'
  <1>1. CASE LinkClusters \/ Linked \/ Cancel \/ DataWritten
    <2>1. /\ UNCHANGED <<op, slot>> /\ at \in {"take", "link", "data"}
          /\ at' \in {"link", "data", "mark", "undo"}
      BY <1>1 DEF LinkClusters, Linked, Cancel, DataWritten, card
    <2> QED  BY <2>1, FolderRests
  <1>2. CASE Undo
    <2>1. UNCHANGED <<op, slot>> /\ at = "undo" /\ at' \in {"release", "idle"}
      BY <1>2 DEF Undo, Done, card
    <2> QED  BY <2>1, FolderRests
  <1>3. CASE Created \/ OldNameCleared \/ EntryWriteFailed \/ NewNameTakenBack
    <2>1. slot' = slot /\ at' = "idle"
      BY <1>3 DEF Created, OldNameCleared, EntryWriteFailed, NewNameTakenBack, Done, card
    <2> QED  BY <2>1, FolderEnds
  <1> QED  BY <1>1, <1>2, <1>3, FolderFrees, FolderRenames, FolderFailsCreate,
              FolderTakesBack DEF Step

LEMMA FolderStep ==
  CancelHolds' /\ FolderHolds /\ [Next]_vars => FolderHolds'
  <1> SUFFICES ASSUME CancelHolds', FolderHolds, [Next]_vars PROVE FolderHolds'
    OBVIOUS
  <1>1. CASE Unplug
    <2>1. UNCHANGED <<op, slot, at, todo, before, failed, restored, torn>>
      BY <1>1 DEF Unplug, card, entrySet, past
    <2> QED  BY <2>1, FolderSame
  <1>2. CASE UNCHANGED vars \/ Over
    <2>1. UNCHANGED <<op, slot, at, todo, before, failed, restored, torn>>
      BY <1>2 DEF Over, vars, card, entrySet, past
    <2> QED  BY <2>1, FolderSame
  <1> QED  BY <1>1, <1>2, FolderBegins, FolderWriteStep, FolderOtherStep DEF Next

-----------------------------------------------------------------------------
(* A file being replaced: its entry set keeps its shape and its name.      *)

LEMMA ImportMixes ==
  ASSUME FolderHolds, at # "idle", op.kind \in {"import", "mkdir"}
  PROVE  Mixed
  <1>1. Command /\ Typed(slot) /\ Stages /\ FolderNow
    BY FolderTyped DEF FolderHolds
  <1>2. slot = [s \in Slots |-> slot[s]]
    BY <1>1 DEF Typed
  <1>3. CASE at \in {"take", "link", "data", "mark", "undo", "release"}
    BY <1>1, <1>2, <1>3 DEF FolderNow, Mixed
  <1>4. CASE at = "put"
    BY <1>4, PutDone DEF Putting
  <1>5. CASE at = "keep"
    BY <1>1, <1>5 DEF FolderNow
  <1>6. CASE at = "free"
    <2>1. slot = Changed
      BY <1>1, <1>6 DEF FolderNow
    <2>2. \A s \in Slots : slot[s] = op.slot[s]
            \/ (s \in op.dest..op.dest + Len(NewSet) - 1 /\ slot[s] = NewSet[s - op.dest + 1])
      BY <2>1 DEF Changed, With
    <2> QED  BY <1>2, <2>2 DEF Mixed
  <1> QED  BY <1>1, <1>3, <1>4, <1>5, <1>6 DEF Stages

LEMMA ReplacedAlike ==
  ASSUME FolderHolds, at # "idle", op.kind = "import", op.old # NoEntry,
         NEW s \in Slots
  PROVE  /\ Alike(op.slot[s], slot[s])
         /\ op.slot[s].tag = "stream" /\ s = OldHead + 1 =>
              slot[s].ver \in {op.slot[s].ver, op.ver}
  <1>1. Command /\ Mixed
    BY ImportMixes DEF FolderHolds
  <1> DEFINE p == OldHead
             n == Len(op.name)
  <1>2. /\ p \in Slots /\ WellFormed(op.slot, p) /\ op.old = Entry(op.slot, p)
        /\ Cardinality(op.old.slots) = op.slot[p].more + 1 /\ op.slot[p].more \in Nat
    BY <1>1, OldIs
  <1>3. /\ p + 1 \in Slots /\ op.slot[p + 1].parts \in Nat
    BY <1>1, <1>2, SetInFolder DEF Command
  <1>4. op.name \in Names /\ op.name = op.old.name /\ Cardinality(op.old.slots) = SetLen(op.name)
    BY <1>1 DEF Command
  <1>5. ~ InNew /\ op.dest = p
    BY <1>1 DEF InNew, Command, OldHead
  <1>6. n \in Nat /\ op.slot[p].more = 1 + n
    <2>1. n \in Nat
      BY <1>4, NameIs
    <2> QED  BY <1>2, <1>4, <2>1 DEF SetLen
  <1>7. op.slot[p + 1].parts = n /\ \A k \in 1..n : op.slot[p + 1 + k].part = op.name[k]
    <2>1. op.name = [k \in 1..op.slot[p + 1].parts |-> op.slot[p + 1 + k].part]
      BY <1>2, <1>4 DEF Entry
    <2>2. Len(op.name) = op.slot[p + 1].parts
      BY <1>3, <2>1
    <2> QED  BY <2>1, <2>2
  <1>8. NewSet = EntrySet(op.name, op.kind = "mkdir", NewStream)
    BY DEF NewSet
  <1>9. /\ Len(NewSet) = SetLen(op.name) /\ NewSet[1] = FileSlot(op.name, op.kind = "mkdir")
        /\ NewSet[2] = StreamSlot(op.name, NewStream)
        /\ \A k \in 1..n : NewSet[2 + k] = NameSlot(op.name[k])
    BY <1>4, <1>8, EntrySetIs
  <1>10. /\ op.slot[p].tag = "file" /\ op.slot[p + 1].tag = "stream"
         /\ \A k \in 1..n : op.slot[p + 1 + k].tag = "name"
    BY <1>2, <1>7 DEF WellFormed
  <1>11. p \in Nat
    BY <1>2 DEF Slots
  <1> HIDE DEF p, n
  <1>12. CASE slot[s] = op.slot[s]
    BY <1>12 DEF Alike
  <1>13. CASE s \in p..p + Len(NewSet) - 1 /\ slot[s] = NewSet[s - p + 1]
    <2>1. Len(NewSet) = 2 + n
      BY <1>9 DEF SetLen, n
    <2>2. CASE s = p
      <3>1. slot[s] = FileSlot(op.name, op.kind = "mkdir")
        BY <1>9, <1>11, <1>13, <2>2
      <3> QED  BY <1>6, <1>10, <2>2, <3>1, <1>11 DEF Alike, FileSlot, n, p
    <2>3. CASE s = p + 1
      <3>1. slot[s] = StreamSlot(op.name, NewStream)
        BY <1>9, <1>11, <1>13, <2>3
      <3>2. slot[s].tag = "stream" /\ slot[s].parts = n /\ slot[s].ver = op.ver
        BY <3>1 DEF StreamSlot, NewStream, n
      <3> QED  BY <1>7, <1>10, <2>3, <3>2 DEF Alike
    <2>4. CASE s # p /\ s # p + 1
      <3> DEFINE k == s - p - 1
      <3>1. k \in 1..n /\ s = p + 1 + k /\ s - p + 1 = 2 + k
        BY <1>6, <1>11, <1>13, <2>1, <2>4
      <3> HIDE DEF k
      <3>2. slot[s] = NameSlot(op.name[k])
        BY <1>9, <1>13, <3>1
      <3>3. op.slot[s].tag = "name" /\ op.slot[s].part = op.name[k]
        BY <1>7, <1>10, <3>1
      <3>4. slot[s].tag = "name" /\ slot[s].part = op.name[k]
        BY <3>2 DEF NameSlot
      <3> QED  BY <2>4, <3>3, <3>4 DEF Alike, p
    <2> QED  BY <2>2, <2>3, <2>4
  <1> QED  BY <1>1, <1>5, <1>12, <1>13 DEF Mixed

LEMMA ReplaceFollows == FolderHolds => ReplaceAtomic
  <1> SUFFICES ASSUME FolderHolds, at # "idle", op.kind = "import", op.old # NoEntry
               PROVE  \E e \in Named(slot, op.name) :
                         e.stream.ver \in {op.old.stream.ver, op.ver}
    BY DEF ReplaceAtomic
  <1> DEFINE p == OldHead
             e == Entry(slot, p)
  <1>1. Command /\ Typed(slot) /\ Typed(op.slot)
    BY FolderTyped DEF FolderHolds, Command
  <1>2. /\ p \in Slots /\ WellFormed(op.slot, p) /\ op.old = Entry(op.slot, p)
        /\ p \in Heads(op.slot) /\ op.old.stream = Stream(op.slot, p)
    BY <1>1, OldIs
  <1>3. \A s \in Slots : Alike(op.slot[s], slot[s])
    BY ReplacedAlike
  <1>4. p \in Heads(slot)
    BY <1>1, <1>2, <1>3, HeadsAlike
  <1>5. WellFormed(slot, p) /\ slot[p + 1].parts = op.slot[p + 1].parts
    BY <1>1, <1>2, <1>3, WellFormedAlike
  <1>6. /\ p + 1 \in Slots /\ op.slot[p + 1].parts \in Nat
        /\ op.slot[p + 1].parts < op.slot[p].more
        /\ p + op.slot[p].more \in Slots /\ op.slot[p].more \in Nat
    BY <1>1, <1>2, SetInFolder
  <1>7. op.old.name = op.name
    BY <1>1 DEF Command
  <1>8. e.name = op.name
    <2>1. ASSUME NEW k \in 1..op.slot[p + 1].parts
          PROVE  slot[p + 1 + k].part = op.slot[p + 1 + k].part
      <3>1. p + 1 + k \in Slots
        BY <1>2, <1>6, FolderAssumption DEF Slots
      <3>2. op.slot[p + 1 + k].tag = "name"
        BY <1>2 DEF WellFormed
      <3> QED  BY <1>3, <3>1, <3>2 DEF Alike
    <2>2. e.name = [k \in 1..slot[p + 1].parts |-> slot[p + 1 + k].part]
      BY DEF Entry
    <2>3. op.old.name = [k \in 1..op.slot[p + 1].parts |-> op.slot[p + 1 + k].part]
      BY <1>2 DEF Entry
    <2> HIDE DEF e, p
    <2> QED  BY <1>5, <1>7, <2>1, <2>2, <2>3
  <1>9. e.stream.ver = slot[p + 1].ver /\ op.old.stream.ver = op.slot[p + 1].ver
    BY <1>2 DEF Entry, Stream
  <1>10. slot[p + 1].ver \in {op.slot[p + 1].ver, op.ver}
    <2>1. op.slot[p + 1].tag = "stream"
      BY <1>2 DEF WellFormed
    <2> QED  BY <1>6, <2>1, ReplacedAlike
  <1>11. e \in Named(slot, op.name)
    BY <1>4, <1>8 DEF Named, Listing
  <1> QED  BY <1>9, <1>10, <1>11

\* While a file is replaced, whatever fails and wherever the cable is pulled, the
\* folder lists it under its name with its old contents or its new ones: the new
\* entry set goes over the old one slot for slot (exfat_create_file_in,
\* exfat_write_entry_slabs_restoring).
THEOREM ReplaceIsAtomic == Spec => []ReplaceAtomic
  <1>1. Init => CancelHolds /\ FolderHolds
    BY CardStarts, FolderInit
  <1>2. CancelHolds /\ FolderHolds /\ [Next]_vars => CancelHolds' /\ FolderHolds'
    BY CardStep, FolderStep
  <1> QED  BY <1>1, <1>2, ReplaceFollows, PTL DEF Spec

HIDE CardsAssumption

-----------------------------------------------------------------------------
(* A chain, cluster by cluster.                                            *)

Links(c, f, st) ==
  c = [i \in 1..st.size |->
         IF i = 1 THEN st.first
         ELSE IF ~ st.chained THEN c[i - 1] + 1
         ELSE IF c[i - 1] \in Clusters /\ f[c[i - 1]] \in Clusters
              THEN f[c[i - 1]] ELSE 0]

LEMMA ChainIs ==
  ASSUME NEW f, NEW st, st.size \in Nat
  PROVE  Links(Chain(f, st), f, st)
  <1> DEFINE n == st.size
             After(c, i) == IF i = 1 THEN st.first
                            ELSE IF ~ st.chained THEN c[i - 1] + 1
                            ELSE IF c[i - 1] \in Clusters /\ f[c[i - 1]] \in Clusters
                                 THEN f[c[i - 1]] ELSE 0
             G == {k \in 1..n : \E c : c = [i \in 1..k |-> After(c, i)]}
  <1>1. ASSUME NEW k \in 1..n, \A l \in 1..k - 1 : l \in G PROVE k \in G
    <2>1. CASE k = 1
      <3> DEFINE c == [i \in 1..1 |-> st.first]
      <3>1. c = [i \in 1..1 |-> After(c, i)]
        BY DEF c
      <3> QED  BY <2>1, <3>1
    <2>2. CASE k # 1
      <3>1. k - 1 \in 1..k - 1
        BY <2>2
      <3>2. PICK c : c = [i \in 1..k - 1 |-> After(c, i)]
        BY <1>1, <3>1
      <3> DEFINE e == [i \in 1..k |-> IF i = k THEN After(c, k) ELSE c[i]]
      <3>3. ASSUME NEW i \in 1..k PROVE e[i] = After(e, i)
        <4>1. i # 1 => i - 1 \in 1..k /\ i - 1 # k
          OBVIOUS
        <4>2. i # 1 => e[i - 1] = c[i - 1]
          BY <4>1
        <4>3. After(e, i) = After(c, i)
          <5> HIDE DEF e
          <5> QED  BY <4>2
        <4>4. CASE i = k
          <5>1. e[i] = After(c, k)
            BY <4>4
          <5> QED  BY <4>3, <4>4, <5>1
        <4>5. CASE i # k
          <5>1. e[i] = c[i] /\ i \in 1..k - 1
            BY <4>5
          <5> HIDE DEF e, After
          <5> QED  BY <3>2, <4>3, <5>1
        <4> QED  BY <4>4, <4>5
      <3>4. e = [i \in 1..k |-> e[i]]
        OBVIOUS
      <3> HIDE DEF e, After
      <3>5. e = [i \in 1..k |-> After(e, i)]
        BY <3>3, <3>4
      <3> QED  BY <3>5
    <2> QED  BY <2>1, <2>2
  <1>2. 1..n \subseteq G
    <2> HIDE DEF G
    <2> QED  BY <1>1, Upwards
  <1>3. \E c : c = [i \in 1..n |-> After(c, i)]
    <2>1. CASE n = 0
      <3> DEFINE c == [i \in 1..0 |-> 0]
      <3>1. c = [i \in 1..0 |-> After(c, i)]
        <4> HIDE DEF After
        <4> QED  OBVIOUS
      <3> QED  BY <2>1, <3>1
    <2>2. CASE n # 0
      <3>1. n \in 1..n
        BY <2>2
      <3> HIDE DEF After
      <3> QED  BY <1>2, <3>1
    <2> QED  BY <2>1, <2>2
  <1>4. \E c : Links(c, f, st)
    BY <1>3 DEF Links
  <1> DEFINE c == CHOOSE h : Links(h, f, st)
  <1>5. Links(c, f, st)
    BY <1>4, Zenon
  <1>6. Chain(f, st) = c
    BY Zenon DEF Chain, Links
  <1> QED  BY <1>5, <1>6

LEMMA ChainAt ==
  ASSUME NEW f, NEW st, st.size \in Nat
  PROVE  /\ DOMAIN Chain(f, st) = 1..st.size
         /\ Chain(f, st) = [i \in 1..st.size |-> Chain(f, st)[i]]
         /\ Range(Chain(f, st)) = {Chain(f, st)[i] : i \in 1..st.size}
         /\ 1 \in 1..st.size => Chain(f, st)[1] = st.first
         /\ \A i \in 2..st.size :
              Chain(f, st)[i] = IF ~ st.chained THEN Chain(f, st)[i - 1] + 1
                                ELSE IF Chain(f, st)[i - 1] \in Clusters
                                        /\ f[Chain(f, st)[i - 1]] \in Clusters
                                     THEN f[Chain(f, st)[i - 1]] ELSE 0
  <1> DEFINE c == Chain(f, st)
  <1>1. Links(c, f, st)
    BY ChainIs
  <1> HIDE DEF c
  <1>2. DOMAIN c = 1..st.size /\ c = [i \in 1..st.size |-> c[i]]
    BY <1>1 DEF Links
  <1>3. Range(c) = {c[i] : i \in 1..st.size}
    BY <1>2 DEF Range
  <1>4. 1 \in 1..st.size => c[1] = st.first
    BY <1>1 DEF Links
  <1>5. \A i \in 2..st.size :
           c[i] = IF ~ st.chained THEN c[i - 1] + 1
                  ELSE IF c[i - 1] \in Clusters /\ f[c[i - 1]] \in Clusters
                       THEN f[c[i - 1]] ELSE 0
    <2>1. \A i \in 2..st.size : i \in 1..st.size /\ i # 1
      OBVIOUS
    <2> QED  BY <1>1, <2>1 DEF Links
  <1> QED  BY <1>2, <1>3, <1>4, <1>5 DEF c

\* A chain is what the FAT says of its own clusters.
LEMMA ChainSame ==
  ASSUME NEW f, NEW g, NEW st, st.size \in Nat,
         \A k \in Range(Chain(f, st)) : g[k] = f[k]
  PROVE  Chain(g, st) = Chain(f, st)
  <1> DEFINE n == st.size
             c == Chain(f, st)
             e == Chain(g, st)
             G == {i \in 1..n : e[i] = c[i]}
  <1>1. /\ c = [i \in 1..n |-> c[i]] /\ Range(c) = {c[i] : i \in 1..n}
        /\ 1 \in 1..n => c[1] = st.first
        /\ \A i \in 2..n : c[i] = IF ~ st.chained THEN c[i - 1] + 1
                                  ELSE IF c[i - 1] \in Clusters /\ f[c[i - 1]] \in Clusters
                                       THEN f[c[i - 1]] ELSE 0
    BY ChainAt
  <1>2. /\ e = [i \in 1..n |-> e[i]]
        /\ 1 \in 1..n => e[1] = st.first
        /\ \A i \in 2..n : e[i] = IF ~ st.chained THEN e[i - 1] + 1
                                  ELSE IF e[i - 1] \in Clusters /\ g[e[i - 1]] \in Clusters
                                       THEN g[e[i - 1]] ELSE 0
    BY ChainAt
  <1> HIDE DEF c, e
  <1>3. ASSUME NEW i \in 1..n, \A l \in 1..i - 1 : l \in G PROVE i \in G
    <2>1. CASE i = 1
      BY <1>1, <1>2, <2>1
    <2>2. CASE i # 1
      <3>1. i \in 2..n /\ i - 1 \in 1..i - 1 /\ i - 1 \in 1..n
        BY <2>2
      <3>2. e[i - 1] = c[i - 1]
        BY <1>3, <3>1
      <3>3. g[c[i - 1]] = f[c[i - 1]]
        <4>1. c[i - 1] \in Range(c)
          BY <1>1, <3>1
        <4> QED  BY <4>1 DEF c
      <3>4. e[i] = c[i]
        <4>1. c[i] = IF ~ st.chained THEN c[i - 1] + 1
                     ELSE IF c[i - 1] \in Clusters /\ f[c[i - 1]] \in Clusters
                          THEN f[c[i - 1]] ELSE 0
          BY <1>1, <3>1
        <4>2. e[i] = IF ~ st.chained THEN e[i - 1] + 1
                     ELSE IF e[i - 1] \in Clusters /\ g[e[i - 1]] \in Clusters
                          THEN g[e[i - 1]] ELSE 0
          BY <1>2, <3>1
        <4> DEFINE a == c[i - 1]
        <4>3. c[i - 1] = a /\ e[i - 1] = a /\ g[a] = f[a]
          BY <3>2, <3>3
        <4> HIDE DEF a
        <4> QED  BY <4>1, <4>2, <4>3, Zenon
      <3> QED  BY <3>4
    <2> QED  BY <2>1, <2>2
  <1>4. 1..n \subseteq G
    <2> HIDE DEF G
    <2> QED  BY <1>3, Upwards
  <1> QED  BY <1>1, <1>2, <1>4 DEF c, e

\* Clusters that follow one another are a chain.
LEMMA ChainFollows ==
  ASSUME NEW f, NEW st, st.size \in Nat, NEW q, st.size > 0 => st.first = q[1],
         \A i \in 1..st.size : q[i] \in Clusters,
         st.chained => \A i \in 1..st.size - 1 : f[q[i]] = q[i + 1],
         ~ st.chained => \A i \in 1..st.size : q[i] = q[1] + i - 1
  PROVE  \A i \in 1..st.size : Chain(f, st)[i] = q[i]
  <1> DEFINE n == st.size
             c == Chain(f, st)
             G == {i \in 1..n : c[i] = q[i]}
  <1>1. /\ 1 \in 1..n => c[1] = st.first
        /\ \A i \in 2..n : c[i] = IF ~ st.chained THEN c[i - 1] + 1
                                  ELSE IF c[i - 1] \in Clusters /\ f[c[i - 1]] \in Clusters
                                       THEN f[c[i - 1]] ELSE 0
    BY ChainAt
  <1> HIDE DEF c
  <1>2. ASSUME NEW i \in 1..n, \A l \in 1..i - 1 : l \in G PROVE i \in G
    <2>1. CASE i = 1
      BY <1>1, <2>1
    <2>2. CASE i # 1
      <3>1. i \in 2..n /\ i - 1 \in 1..i - 1 /\ i - 1 \in 1..n - 1 /\ i - 1 \in 1..n
            /\ (i - 1) + 1 = i
        BY <2>2
      <3>2. c[i - 1] = q[i - 1] /\ q[i - 1] \in Clusters /\ q[i] \in Clusters
        BY <1>2, <3>1
      <3>3. CASE st.chained
        <4>1. f[q[i - 1]] = q[i]
          BY <3>1, <3>3
        <4> QED  BY <1>1, <3>1, <3>2, <3>3, <4>1
      <3>4. CASE ~ st.chained
        <4>1. q[i] = q[1] + i - 1 /\ q[i - 1] = q[1] + (i - 1) - 1 /\ q[1] \in Int
          <5>1. 1 \in 1..n
            BY <3>1
          <5> QED  BY <3>1, <3>4, <5>1 DEF Clusters
        <4>2. c[i] = c[i - 1] + 1
          BY <1>1, <3>1, <3>4
        <4>3. c[i] = q[i]
          BY <3>2, <4>1, <4>2
        <4> QED  BY <4>3
      <3> QED  BY <3>3, <3>4
    <2> QED  BY <2>1, <2>2
  <1>3. 1..n \subseteq G
    <2> HIDE DEF G
    <2> QED  BY <1>2, Upwards
  <1> QED  BY <1>3 DEF c

-----------------------------------------------------------------------------
(* What the clusters hold while a command works.                           *)

FilesWhole(d, m, f, x) ==
  \A p \in Slots : d[p].tag = "file" /\ p + 1 \in Slots /\ d[p + 1].tag = "stream" =>
     ChainWhole(Stream(d, p), m, f, x)

\* The clusters planned for are the command's own, in a row if they need no chain.
Fresh ==
  /\ \A i, j \in 1..Len(op.plan) : op.plan[i] = op.plan[j] => i = j
  /\ \A i \in 1..Len(op.plan) : op.plan[i] \notin op.marked
  /\ op.chained \/ \A i \in 1..Len(op.plan) : op.plan[i] = op.plan[1] + i - 1

Creates == op.kind \in {"import", "mkdir"}
Chained == op.chained => \A i \in 1..Len(op.plan) - 1 : fat[op.plan[i]] = op.plan[i + 1]
Written(n) == \A i \in 1..n : data[op.plan[i]] = <<op.ver, i>>

\* The FAT entries still to be written are the ones that are not as they shall be.
Chaining ==
  \A i \in 1..Len(op.plan) - 1 :
     \/ fat[op.plan[i]] = op.plan[i + 1]
     \/ \E k \in 1..Len(fatq) : fatq[k] = <<op.plan[i], op.plan[i + 1]>>
ChainOnly ==
  \A k \in 1..Len(fatq) :
     \E i \in 1..Len(op.plan) - 1 : fatq[k] = <<op.plan[i], op.plan[i + 1]>>

Queued == fatq \in Seq(Clusters \X (0..ChainEnd))

Progress ==
  /\ at \in {"link", "release"} =>
       /\ Queued
       /\ \A k \in 1..Len(fatq) : \E i \in 1..Len(op.plan) : fatq[k][1] = op.plan[i]
  /\ at = "take" => \A i \in 1..got : op.plan[i] \in ram
  /\ at \in {"link", "data", "mark"} => \A i \in 1..Len(op.plan) : op.plan[i] \in ram
  /\ at = "link" => got = 0 /\ (op.chained => Chaining /\ ChainOnly)
  /\ at \in {"data", "mark"} \/ (at = "put" /\ Creates) => Chained
  /\ at = "data" => Written(got)
  /\ at = "mark" => Written(Len(op.plan))
  /\ at = "put" /\ Creates =>
       Written(Len(op.plan)) /\ \A i \in 1..Len(op.plan) : op.plan[i] \in marked \cap ram

\* While a command works the files that it found are as it found them.
Working ==
  /\ Sound(op.slot, op.marked, fat, data)
  /\ op.marked \subseteq marked \cap ram
  /\ Progress

\* What is given back is no file's any more.
Freeing ==
  /\ Sound(slot, marked \cap ram, fat, data)
  /\ Queued
  /\ \A k \in 1..Len(fatq) : \A p \in Slots :
       slot[p].tag = "file" => fatq[k][1] \notin Range(Chain(fat, Stream(slot, p)))

KeptHolds ==
  /\ DOMAIN data = Clusters
  /\ at # "idle" => Fresh
  /\ ~ torn =>
       /\ at \notin {"idle", "free"} => Working
       /\ at = "free" => Freeing
       /\ at = "idle" => FilesWhole(slot, marked, fat, data)
       /\ at = "idle" /\ ~ Warned => Sound(slot, marked, fat, data)

-----------------------------------------------------------------------------
(* A sound folder.                                                         *)

LEMMA StreamTyped ==
  ASSUME NEW d, Typed(d), NEW p, p + 1 \in Slots, d[p + 1].tag = "stream"
  PROVE  Stream(d, p).size \in Nat /\ Stream(d, p).chained \in BOOLEAN
BY DEF Typed, SlotTyped, Stream

LEMMA SoundFile ==
  ASSUME NEW d, Typed(d), NEW m, NEW f, NEW x, Sound(d, m, f, x),
         NEW p \in Slots, d[p].tag = "file"
  PROVE  /\ WellFormed(d, p) /\ p + 1 \in Slots /\ d[p + 1].tag = "stream"
         /\ Stream(d, p).size \in Nat /\ Stream(d, p).chained \in BOOLEAN
         /\ ChainWhole(Stream(d, p), m, f, x)
         /\ Range(Chain(f, Stream(d, p))) \subseteq m
  <1>1. WellFormed(d, p) /\ ChainWhole(Stream(d, p), m, f, x)
    BY Zenon DEF Sound, Laid
  <1>2. p + 1 \in Slots /\ d[p + 1].tag = "stream"
    BY <1>1, SetInFolder DEF WellFormed
  <1>3. Stream(d, p).size \in Nat /\ Stream(d, p).chained \in BOOLEAN
    BY <1>2, StreamTyped
  <1> DEFINE st == Stream(d, p)
  <1> HIDE DEF st
  <1>4. Range(Chain(f, st)) = {Chain(f, st)[i] : i \in 1..st.size}
    BY <1>3, ChainAt DEF st
  <1>5. \A i \in 1..st.size : Chain(f, st)[i] \in m
    BY <1>1 DEF ChainWhole, st
  <1>6. Range(Chain(f, st)) \subseteq m
    BY <1>4, <1>5
  <1> QED  BY <1>1, <1>2, <1>3, <1>6 DEF st

\* What is done to clusters of no file.
LEMMA SoundAside ==
  ASSUME NEW d, Typed(d), NEW m, NEW f, NEW x, Sound(d, m, f, x), NEW n, NEW g, NEW y,
         \A p \in Slots : d[p].tag = "file" =>
            \A c \in Range(Chain(f, Stream(d, p))) : c \in n /\ g[c] = f[c] /\ y[c] = x[c]
  PROVE  /\ Sound(d, n, g, y)
         /\ \A p \in Slots : d[p].tag = "file" =>
               Chain(g, Stream(d, p)) = Chain(f, Stream(d, p))
  <1>1. ASSUME NEW p \in Slots, d[p].tag = "file"
        PROVE  /\ Chain(g, Stream(d, p)) = Chain(f, Stream(d, p))
               /\ ChainWhole(Stream(d, p), n, g, y)
    <2> DEFINE st == Stream(d, p)
    <2>1. st.size \in Nat /\ ChainWhole(st, m, f, x)
      BY <1>1, SoundFile
    <2>2. \A c \in Range(Chain(f, st)) : c \in n /\ g[c] = f[c] /\ y[c] = x[c]
      BY <1>1
    <2> HIDE DEF st
    <2>3. Chain(g, st) = Chain(f, st)
      BY <2>1, <2>2, ChainSame
    <2>4. ASSUME NEW i \in 1..st.size
          PROVE  Chain(g, st)[i] \in n /\ y[Chain(g, st)[i]] = <<st.ver, i>>
      <3> DEFINE c == Chain(f, st)[i]
      <3>1. Range(Chain(f, st)) = {Chain(f, st)[j] : j \in 1..st.size}
        BY <2>1, ChainAt
      <3>2. c \in Range(Chain(f, st))
        BY <3>1
      <3>3. x[c] = <<st.ver, i>>
        BY <2>1 DEF ChainWhole
      <3> QED  BY <2>2, <2>3, <3>2, <3>3
    <2>5. ChainWhole(st, n, g, y)
      BY <2>4 DEF ChainWhole
    <2> QED  BY <2>3, <2>5 DEF st
  <1>2. Laid(d)
    BY DEF Sound
  <1>3. ASSUME NEW p \in Slots, NEW q \in Slots \ {p}, d[p].tag = "file", d[q].tag = "file"
        PROVE  Range(Chain(g, Stream(d, p))) \cap Range(Chain(g, Stream(d, q))) = {}
    <2>1. Range(Chain(f, Stream(d, p))) \cap Range(Chain(f, Stream(d, q))) = {}
      BY <1>3, Zenon DEF Sound
    <2>2. /\ Chain(g, Stream(d, p)) = Chain(f, Stream(d, p))
          /\ Chain(g, Stream(d, q)) = Chain(f, Stream(d, q))
      BY <1>1, <1>3
    <2> QED  BY <2>1, <2>2
  <1>4. Sound(d, n, g, y)
    BY <1>1, <1>2, <1>3 DEF Sound
  <1> QED  BY <1>1, <1>4

LEMMA SoundElsewhere ==
  ASSUME NEW d, Typed(d), NEW m, NEW f, NEW x, Sound(d, m, f, x), NEW n, NEW g, NEW y,
         \A c \in m : c \in n /\ g[c] = f[c] /\ y[c] = x[c]
  PROVE  Sound(d, n, g, y)
  <1>1. ASSUME NEW p \in Slots, d[p].tag = "file", NEW c \in Range(Chain(f, Stream(d, p)))
        PROVE  c \in n /\ g[c] = f[c] /\ y[c] = x[c]
    <2>1. Range(Chain(f, Stream(d, p))) \subseteq m
      BY <1>1, SoundFile
    <2> QED  BY <2>1
  <1> QED  BY <1>1, SoundAside

LEMMA WholeIn ==
  ASSUME NEW d, Typed(d), NEW m, NEW f, NEW x, Sound(d, m, f, x), NEW n, m \subseteq n
  PROVE  FilesWhole(d, n, f, x)
  <1>1. ASSUME NEW p \in Slots, d[p].tag = "file" PROVE ChainWhole(Stream(d, p), n, f, x)
    <2>1. ChainWhole(Stream(d, p), m, f, x)
      BY <1>1, SoundFile
    <2> QED  BY <2>1 DEF ChainWhole
  <1> QED  BY <1>1 DEF FilesWhole

\* Slots that go out of use leave the other files whole.
LEMMA WholeCleared ==
  ASSUME NEW d, NEW e, NEW m, NEW f, NEW x, FilesWhole(d, m, f, x),
         \A s \in Slots : e[s] = d[s] \/ Unused(e[s])
  PROVE  FilesWhole(e, m, f, x)
  <1>1. ASSUME NEW p \in Slots, e[p].tag = "file", p + 1 \in Slots, e[p + 1].tag = "stream"
        PROVE  ChainWhole(Stream(e, p), m, f, x)
    <2>1. e[p] = d[p] /\ e[p + 1] = d[p + 1]
      BY <1>1 DEF Unused
    <2>2. Stream(e, p) = Stream(d, p)
      BY <2>1 DEF Stream
    <2> QED  BY <1>1, <2>1, <2>2 DEF FilesWhole
  <1> QED  BY <1>1 DEF FilesWhole

\* A folder of files of a sound one and of one that takes the place of h.
SoundlyMoved(d, m, f, x, e, h, q, st, n) ==
  /\ Typed(d) /\ Sound(d, m, f, x) /\ Laid(e) /\ m \subseteq n
  /\ \A p \in Slots : e[p].tag = "file" =>
       \/ p # h /\ d[p].tag = "file" /\ Stream(e, p) = Stream(d, p)
       \/ p = q /\ Stream(e, p) = st
  /\ ChainWhole(st, n, f, x)
  /\ \A p \in Slots \ {h} : d[p].tag = "file" =>
       Range(Chain(f, st)) \cap Range(Chain(f, Stream(d, p))) = {}

LEMMA SoundMoves ==
  ASSUME NEW d, NEW m, NEW f, NEW x, NEW e, NEW h, NEW q, NEW st, NEW n,
         SoundlyMoved(d, m, f, x, e, h, q, st, n)
  PROVE  Sound(e, n, f, x)
  <1> SUFFICES ASSUME
        Typed(d), Sound(d, m, f, x), Laid(e), m \subseteq n,
        \A p \in Slots : e[p].tag = "file" =>
          \/ p # h /\ d[p].tag = "file" /\ Stream(e, p) = Stream(d, p)
          \/ p = q /\ Stream(e, p) = st,
        ChainWhole(st, n, f, x),
        \A p \in Slots \ {h} : d[p].tag = "file" =>
          Range(Chain(f, st)) \cap Range(Chain(f, Stream(d, p))) = {}
      PROVE Sound(e, n, f, x)
    BY Zenon DEF SoundlyMoved
  <1>1. ASSUME NEW p \in Slots, e[p].tag = "file" PROVE ChainWhole(Stream(e, p), n, f, x)
    <2>1. CASE d[p].tag = "file" /\ Stream(e, p) = Stream(d, p)
      <3>1. ChainWhole(Stream(d, p), m, f, x)
        BY <2>1, SoundFile
      <3> QED  BY <2>1, <3>1 DEF ChainWhole
    <2>2. CASE Stream(e, p) = st
      BY <2>2
    <2> QED  BY <1>1, <2>1, <2>2
  <1>2. ASSUME NEW p \in Slots, NEW r \in Slots \ {p}, e[p].tag = "file", e[r].tag = "file"
        PROVE  Range(Chain(f, Stream(e, p))) \cap Range(Chain(f, Stream(e, r))) = {}
    <2>1. \/ p # h /\ d[p].tag = "file" /\ Stream(e, p) = Stream(d, p)
          \/ p = q /\ Stream(e, p) = st
      BY <1>2
    <2>2. \/ r # h /\ d[r].tag = "file" /\ Stream(e, r) = Stream(d, r)
          \/ r = q /\ Stream(e, r) = st
      BY <1>2
    <2>3. CASE d[p].tag = "file" /\ d[r].tag = "file" /\ Stream(e, p) = Stream(d, p)
               /\ Stream(e, r) = Stream(d, r)
      <3>1. Range(Chain(f, Stream(d, p))) \cap Range(Chain(f, Stream(d, r))) = {}
        BY <2>3, Zenon DEF Sound
      <3> QED  BY <2>3, <3>1
    <2>4. CASE p # h /\ d[p].tag = "file" /\ Stream(e, p) = Stream(d, p) /\ Stream(e, r) = st
      <3>1. Range(Chain(f, st)) \cap Range(Chain(f, Stream(d, p))) = {}
        BY <2>4
      <3> QED  BY <2>4, <3>1
    <2>5. CASE r # h /\ d[r].tag = "file" /\ Stream(e, r) = Stream(d, r) /\ Stream(e, p) = st
      <3>1. Range(Chain(f, st)) \cap Range(Chain(f, Stream(d, r))) = {}
        BY <2>5
      <3> QED  BY <2>5, <3>1
    <2> QED  BY <2>1, <2>2, <2>3, <2>4, <2>5
  <1> QED  BY <1>1, <1>2 DEF Sound

-----------------------------------------------------------------------------
(* What a command makes of a sound folder.                                 *)

LEMMA FilesApart ==
  ASSUME NEW d, Typed(d), Laid(d), NEW p \in Slots, NEW q \in Slots, p # q,
         d[p].tag = "file", d[q].tag = "file",
         NEW s \in p..p + d[p].more
  PROVE  s \notin q..q + d[q].more
  <1>1. d[p].more \in Nat /\ d[q].more \in Nat /\ p \in Nat /\ q \in Nat
    BY DEF Typed, SlotTyped, Slots
  <1>2. q \notin p + 1..p + d[p].more
    BY DEF Laid
  <1>3. p \notin q + 1..q + d[q].more
    BY DEF Laid
  <1> QED  BY <1>1, <1>2, <1>3

\* The old entry set's head, if there is one.
Gone == IF op.old = NoEntry THEN 0 ELSE OldHead
NewSlots == op.dest..op.dest + Len(NewSet) - 1
\* The stream of the entry set a command leaves.
KeptStream == IF op.kind = "rename" THEN op.old.stream ELSE NewStream

LEMMA NewSetIs ==
  ASSUME Command
  PROVE  /\ op.kind = "delete" =>
              /\ \A i \in 1..Len(NewSet) : NewSet[i] = Cleared
              /\ NewSlots = op.old.slots
         /\ op.kind # "delete" =>
              /\ Len(op.name) \in Nat \ {0} /\ Len(NewSet) = 2 + Len(op.name)
              /\ NewSet[1].tag = "file" /\ NewSet[1].more = 1 + Len(op.name)
              /\ NewSet[2] = StreamSlot(op.name, KeptStream)
              /\ \A i \in 3..Len(NewSet) : NewSet[i].tag = "name"
  <1>1. CASE op.kind = "delete"
    <2>1. NewSet = Blank(op.old.slots)
      BY <1>1 DEF NewSet
    <2>2. op.old # NoEntry /\ op.dest = OldHead
      BY <1>1 DEF Command, InNew, OldHead
    <2>3. /\ op.old.slots = OldHead..OldHead + op.slot[OldHead].more
          /\ Cardinality(op.old.slots) = op.slot[OldHead].more + 1
          /\ op.slot[OldHead].more \in Nat /\ OldHead \in Slots
      BY <2>2, OldIs
    <2>4. NewSet = [i \in 1..op.slot[OldHead].more + 1 |-> Cleared]
      BY <2>1, <2>3 DEF Blank
    <2>5. Len(NewSet) = op.slot[OldHead].more + 1
      BY <2>3, <2>4
    <2>6. NewSlots = op.old.slots
      <3>1. OldHead + Len(NewSet) - 1 = OldHead + op.slot[OldHead].more
        BY <2>3, <2>5 DEF Slots
      <3> QED  BY <2>2, <2>3, <3>1 DEF NewSlots
    <2> QED  BY <1>1, <2>4, <2>5, <2>6
  <1>2. CASE op.kind # "delete"
    <2>1. op.name \in Names
      BY <1>2 DEF Command
    <2>2. Len(op.name) \in Nat \ {0}
      BY <2>1, NameIs
    <2>3. PICK dir : NewSet = EntrySet(op.name, dir, KeptStream)
      BY <1>2 DEF NewSet, KeptStream
    <2>4. /\ Len(NewSet) = SetLen(op.name) /\ NewSet[1] = FileSlot(op.name, dir)
          /\ NewSet[2] = StreamSlot(op.name, KeptStream)
          /\ \A k \in 1..Len(op.name) : NewSet[2 + k] = NameSlot(op.name[k])
      BY <2>1, <2>3, EntrySetIs
    <2>5. NewSet[1].tag = "file" /\ NewSet[1].more = 1 + Len(op.name)
      BY <2>4 DEF FileSlot
    <2>6. Len(NewSet) = 2 + Len(op.name)
      BY <2>4 DEF SetLen
    <2>7. ASSUME NEW i \in 3..Len(NewSet) PROVE NewSet[i].tag = "name"
      <3>1. i - 2 \in 1..Len(op.name) /\ 2 + (i - 2) = i
        BY <2>2, <2>6
      <3>2. NewSet[i] = NameSlot(op.name[i - 2])
        BY <2>4, <3>1
      <3> QED  BY <3>2 DEF NameSlot
    <2> QED  BY <1>2, <2>2, <2>4, <2>5, <2>6, <2>7
  <1> QED  BY <1>1, <1>2

\* A file that a command is not about has its slots elsewhere.
LEMMA OthersApart ==
  ASSUME Command, Laid(op.slot), NEW p \in Slots, op.slot[p].tag = "file", p # Gone,
         NEW s \in p..p + op.slot[p].more
  PROVE  s \in Slots /\ s \notin NewSlots /\ s \notin op.old.slots
  <1> DEFINE d == op.slot
  <1>1. Typed(d)
    BY DEF Command
  <1>2. WellFormed(d, p)
    BY DEF Laid
  <1>3. d[p].more \in Nat /\ p + d[p].more \in Slots /\ p \in Nat
    BY <1>1, <1>2, SetInFolder DEF Slots
  <1>4. s \in Slots
    BY <1>3, FolderAssumption DEF Slots
  <1>5. ~ Unused(d[s])
    <2>1. CASE s = p
      BY <2>1 DEF Unused
    <2>2. CASE s # p
      <3>1. s \in p + 1..p + d[p].more
        BY <1>3, <2>2
      <3>2. d[s].tag \in {"stream", "name"}
        BY <3>1 DEF Laid
      <3> QED  BY <3>2 DEF Unused
    <2> QED  BY <2>1, <2>2
  <1>6. s \notin op.old.slots
    <2>1. CASE op.old = NoEntry
      BY <2>1 DEF NoEntry
    <2>2. CASE op.old # NoEntry
      <3>1. /\ OldHead \in Slots /\ WellFormed(op.slot, OldHead)
            /\ op.old.slots = OldHead..OldHead + op.slot[OldHead].more
        BY <2>2, OldIs
      <3>2. p # OldHead /\ d[OldHead].tag = "file"
        BY <2>2, <3>1 DEF Gone, WellFormed
      <3> QED  BY <1>1, <3>1, <3>2, FilesApart
    <2> QED  BY <2>1, <2>2
  <1>7. s \notin NewSlots
    <2>1. CASE InNew
      <3>1. op.kind # "delete"
        BY <2>1 DEF InNew, Command
      <3>2. Len(NewSet) = SetLen(op.name)
        BY <3>1, NewIs
      <3>3. \A i \in NewSlots : Unused(d[i])
        BY <2>1, <3>2 DEF Command, NewSlots
      <3> QED  BY <1>5, <3>3
    <2>2. CASE ~ InNew
      <3>1. op.old # NoEntry
        BY <2>2 DEF InNew
      <3>2. op.dest = OldHead /\ op.dest + Len(NewSet) - 1 \in op.old.slots
        BY <2>2, NewIs
      <3>3. /\ OldHead \in Slots /\ op.slot[OldHead].more \in Nat
            /\ op.old.slots = OldHead..OldHead + op.slot[OldHead].more
        BY <3>1, OldIs
      <3>4. \A i \in NewSlots : i \in op.old.slots
        BY <3>2, <3>3, NewIs DEF NewSlots, Slots
      <3> QED  BY <1>6, <3>4
    <2> QED  BY <2>1, <2>2
  <1> QED  BY <1>4, <1>6, <1>7

LEMMA KeptIs ==
  ASSUME Command, op.kind # "delete", NEW e, NEW p,
         e[p + 1] = StreamSlot(op.name, KeptStream)
  PROVE  Stream(e, p) = KeptStream
  <1>1. Stream(e, p) = [first |-> KeptStream.first, size |-> KeptStream.size,
                        chained |-> KeptStream.chained, ver |-> KeptStream.ver]
    BY DEF Stream, StreamSlot
  <1>2. CASE op.kind = "rename"
    <2>1. op.old.stream = Stream(op.slot, OldHead)
      BY <1>2, OldIs DEF Command
    <2>2. KeptStream = Stream(op.slot, OldHead)
      BY <1>2, <2>1 DEF KeptStream
    <2> QED  BY <1>1, <2>2 DEF Stream
  <1>3. CASE op.kind # "rename"
    <2>1. KeptStream = NewStream
      BY <1>3 DEF KeptStream
    <2> QED  BY <1>1, <2>1 DEF NewStream
  <1> QED  BY <1>2, <1>3

\* While it writes: files as they were, and its own.
LEMMA MixedFiles ==
  ASSUME Command, Laid(op.slot), NEW e,
         \A s \in Slots : e[s] = op.slot[s]
            \/ (s \in NewSlots /\ e[s] = NewSet[s - op.dest + 1]),
         NEW p \in Slots, p + 1 \in Slots, e[p].tag = "file", e[p + 1].tag = "stream"
  PROVE  \/ op.slot[p].tag = "file" /\ Stream(e, p) = Stream(op.slot, p)
         \/ op.kind # "delete" /\ p = op.dest /\ Stream(e, p) = KeptStream
  <1> DEFINE d == op.slot
  <1>1. p \in Nat /\ op.dest \in Nat /\ Len(NewSet) \in Nat /\ Len(NewSet) >= 3
    BY NewIs DEF Slots
  <1>2. e[p + 1] = d[p + 1] => Stream(e, p) = Stream(d, p)
    BY DEF Stream
  <1>3. ASSUME NEW i \in 1..Len(NewSet), NewSet[i].tag = "file"
        PROVE  op.kind # "delete" /\ i = 1
    BY <1>1, <1>3, NewSetIs DEF Cleared, StreamSlot
  <1>4. ASSUME NEW i \in 1..Len(NewSet), NewSet[i].tag = "stream"
        PROVE  op.kind # "delete" /\ i = 2 /\ NewSet[i] = StreamSlot(op.name, KeptStream)
    BY <1>1, <1>4, NewSetIs DEF Cleared
  <1>5. ASSUME e[p + 1] # d[p + 1] PROVE op.kind # "delete" /\ p = op.dest /\ Stream(e, p) = KeptStream
    <2>1. p + 1 \in NewSlots /\ e[p + 1] = NewSet[(p + 1) - op.dest + 1]
      BY <1>5
    <2>2. (p + 1) - op.dest + 1 \in 1..Len(NewSet)
      BY <1>1, <2>1 DEF NewSlots
    <2>3. /\ op.kind # "delete" /\ (p + 1) - op.dest + 1 = 2
          /\ e[p + 1] = StreamSlot(op.name, KeptStream)
      BY <1>4, <2>1, <2>2
    <2>4. p = op.dest
      BY <1>1, <2>3
    <2> QED  BY <2>3, <2>4, KeptIs
  <1>6. CASE d[p].tag # "file"
    <2>1. p \in NewSlots /\ e[p] = NewSet[p - op.dest + 1]
      BY <1>6
    <2>2. p - op.dest + 1 \in 1..Len(NewSet)
      BY <1>1, <2>1 DEF NewSlots
    <2>3. op.kind # "delete" /\ p - op.dest + 1 = 1
      BY <1>3, <2>1, <2>2
    <2>4. p = op.dest /\ p + 1 \in NewSlots
      BY <1>1, <2>3 DEF NewSlots
    <2>5. InNew
      <3> SUFFICES ASSUME ~ InNew PROVE FALSE
        OBVIOUS
      <3>1. op.old # NoEntry /\ op.dest = OldHead
        BY NewIs DEF InNew
      <3>2. d[OldHead].tag = "file"
        BY <3>1, OldIs DEF WellFormed
      <3> QED  BY <1>6, <2>4, <3>1, <3>2
    <2>6. Unused(d[p + 1])
      <3>1. Len(NewSet) = SetLen(op.name)
        BY <2>3, NewIs
      <3> QED  BY <2>4, <2>5, <3>1 DEF Command, NewSlots
    <2>7. e[p + 1] # d[p + 1]
      BY <2>6 DEF Unused
    <2> QED  BY <1>5, <2>7
  <1> QED  BY <1>2, <1>5, <1>6

\* The new entry set is one.
LEMMA NewSetLaid ==
  ASSUME Command, NEW e, \A s \in Slots : s \in NewSlots => e[s] = NewSet[s - op.dest + 1],
         NEW p \in Slots, p \in NewSlots, e[p].tag = "file"
  PROVE  /\ WellFormed(e, p) /\ \A s \in p + 1..p + e[p].more : e[s].tag \in {"stream", "name"}
         /\ op.kind # "delete" /\ p = op.dest /\ Stream(e, p) = KeptStream
  <1>0. /\ p \in Nat /\ op.dest \in Nat \ {0} /\ op.dest \in Slots /\ Len(NewSet) \in Nat
        /\ Len(NewSet) >= 3 /\ op.dest + Len(NewSet) - 1 \in Slots
    BY NewIs DEF Slots
  <1>1. p - op.dest + 1 \in 1..Len(NewSet) /\ e[p] = NewSet[p - op.dest + 1]
    BY <1>0 DEF NewSlots
  <1>2. op.kind # "delete" /\ p - op.dest + 1 = 1
    <2>1. ASSUME NEW i \in 1..Len(NewSet), NewSet[i].tag = "file"
          PROVE  op.kind # "delete" /\ i = 1
      <3>1. op.kind # "delete"
        <4>1. Cleared.tag # "file"
          BY DEF Cleared
        <4> QED  BY <2>1, <4>1, NewSetIs
      <3>2. i # 2
        <4>1. NewSet[2].tag = "stream"
          BY <3>1, NewSetIs DEF StreamSlot
        <4> QED  BY <2>1, <4>1
      <3>3. i \notin 3..Len(NewSet)
        BY <2>1, <3>1, NewSetIs
      <3> QED  BY <1>0, <3>1, <3>2, <3>3
    <2> QED  BY <1>1, <2>1
  <1> DEFINE n == Len(op.name)
  <1>3. /\ n \in Nat \ {0} /\ Len(NewSet) = 2 + n /\ NewSet[1].more = 1 + n
        /\ NewSet[1].tag = "file" /\ NewSet[2] = StreamSlot(op.name, KeptStream)
        /\ \A i \in 3..Len(NewSet) : NewSet[i].tag = "name"
    BY <1>2, NewSetIs
  <1>4. p = op.dest /\ e[p].more = 1 + n /\ p + e[p].more \in Slots
    BY <1>0, <1>1, <1>2, <1>3
  <1> HIDE DEF n
  <1>5. ASSUME NEW s \in p..p + 1 + n PROVE e[s] = NewSet[s - p + 1]
    <2>1. s \in NewSlots /\ s \in Slots
      BY <1>0, <1>3, <1>4, FolderAssumption DEF NewSlots, Slots
    <2> QED  BY <1>4, <2>1
  <1>6. e[p + 1] = StreamSlot(op.name, KeptStream)
    <2>1. p + 1 \in p..p + 1 + n /\ (p + 1) - p + 1 = 2
      <3>1. p \in Nat /\ n \in Nat
        BY <1>0, <1>3
      <3> QED  BY <3>1
    <2> QED  BY <1>3, <1>5, <2>1
  <1>7. ASSUME NEW s \in p + 2..p + 1 + n PROVE e[s].tag = "name"
    <2>1. s \in p..p + 1 + n /\ s - p + 1 \in 3..Len(NewSet)
      <3>1. p \in Nat /\ n \in Nat /\ Len(NewSet) = 2 + n
        BY <1>0, <1>3
      <3> QED  BY <3>1
    <2> QED  BY <1>3, <1>5, <2>1
  <1>8. e[p + 1].tag = "stream" /\ e[p + 1].parts = n
    BY <1>6 DEF StreamSlot, n
  <1>9. WellFormed(e, p)
    <2>1. ASSUME NEW k \in 1..e[p + 1].parts PROVE e[p + 1 + k].tag = "name"
      <3>1. p + 1 + k \in p + 2..p + 1 + n
        BY <1>0, <1>3, <1>8
      <3> QED  BY <1>7, <3>1
    <2>2. e[p].more >= 2 /\ p + e[p].more <= LastSlot /\ e[p + 1].parts < e[p].more
      BY <1>0, <1>3, <1>4, <1>8 DEF Slots
    <2> QED  BY <1>8, <2>1, <2>2 DEF WellFormed
  <1>10. \A s \in p + 1..p + e[p].more : e[s].tag \in {"stream", "name"}
    <2> SUFFICES ASSUME NEW s \in p + 1..p + e[p].more PROVE e[s].tag \in {"stream", "name"}
      OBVIOUS
    <2>1. s = p + 1 \/ s \in p + 2..p + 1 + n
      BY <1>0, <1>3, <1>4
    <2> QED  BY <1>7, <1>8, <2>1
  <1> QED  BY <1>2, <1>4, <1>6, <1>9, <1>10, KeptIs

\* Its entry set is there, and the old one is replaced or gone.
Replaced(e) ==
  /\ \A s \in Slots : s \in NewSlots => e[s] = NewSet[s - op.dest + 1]
  /\ \A s \in Slots : s \notin NewSlots =>
       e[s] = op.slot[s] \/ (s \in op.old.slots /\ Unused(e[s]))
  /\ op.old # NoEntry /\ OldHead \notin NewSlots => Unused(e[OldHead])

LEMMA ReplacedFiles ==
  ASSUME Command, Laid(op.slot), NEW e, Replaced(e), NEW p \in Slots, e[p].tag = "file"
  PROVE  /\ WellFormed(e, p) /\ \A s \in p + 1..p + e[p].more : e[s].tag \in {"stream", "name"}
         /\ \/ p # Gone /\ op.slot[p].tag = "file" /\ Stream(e, p) = Stream(op.slot, p)
            \/ op.kind # "delete" /\ p = op.dest /\ Stream(e, p) = KeptStream
  <1> DEFINE d == op.slot
  <1>1. /\ p \in Nat /\ op.dest \in Nat \ {0} /\ op.dest \in Slots /\ Len(NewSet) \in Nat
        /\ Len(NewSet) >= 3 /\ op.dest + Len(NewSet) - 1 \in Slots
    BY NewIs DEF Slots
  <1>2. CASE p \in NewSlots
    BY <1>2, NewSetLaid DEF Replaced
  <1>3. CASE p \notin NewSlots
    <2>1. e[p] = d[p]
      BY <1>3 DEF Replaced, Unused
    <2>2. p # Gone
      <3>1. CASE op.old = NoEntry
        BY <1>1, <3>1 DEF Gone, Slots
      <3>2. CASE op.old # NoEntry
        BY <1>3, <3>2 DEF Gone, Replaced, Unused
      <3> QED  BY <3>1, <3>2
    <2>3. ASSUME NEW s \in p..p + d[p].more PROVE e[s] = d[s]
      <3>1. s \in Slots /\ s \notin NewSlots /\ s \notin op.old.slots
        BY <2>1, <2>2, OthersApart
      <3> QED  BY <3>1 DEF Replaced
    <2>4. WellFormed(d, p) /\ \A s \in p + 1..p + d[p].more : d[s].tag \in {"stream", "name"}
      BY <2>1, Zenon DEF Laid
    <2>5. /\ d[p].more \in Nat /\ d[p].more >= 2 /\ d[p + 1].parts \in Nat
          /\ d[p + 1].parts < d[p].more
      BY <2>4, SetInFolder DEF Command
    <2>6. e[p + 1] = d[p + 1]
      <3>1. p + 1 \in p..p + d[p].more
        BY <1>1, <2>5
      <3> QED  BY <2>3, <3>1
    <2>7. WellFormed(e, p)
      <3>1. ASSUME NEW k \in 1..e[p + 1].parts PROVE e[p + 1 + k].tag = "name"
        <4>1. p + 1 + k \in p..p + d[p].more /\ k \in 1..d[p + 1].parts
          BY <1>1, <2>5, <2>6
        <4>2. d[p + 1 + k].tag = "name"
          BY <2>4, <4>1 DEF WellFormed
        <4> QED  BY <2>3, <4>1, <4>2
      <3> QED  BY <2>1, <2>4, <2>6, <3>1 DEF WellFormed
    <2>8. \A s \in p + 1..p + e[p].more : e[s].tag \in {"stream", "name"}
      <3> SUFFICES ASSUME NEW s \in p + 1..p + d[p].more PROVE e[s].tag \in {"stream", "name"}
        BY <2>1
      <3>1. s \in p..p + d[p].more
        BY <1>1, <2>5
      <3> QED  BY <2>3, <2>4, <3>1
    <2>9. Stream(e, p) = Stream(d, p)
      BY <2>6 DEF Stream
    <2> QED  BY <2>1, <2>2, <2>7, <2>8, <2>9
  <1> QED  BY <1>2, <1>3

LEMMA SoundAfter ==
  ASSUME Command, NEW m, NEW f, NEW x, Sound(op.slot, m, f, x), NEW e, Replaced(e),
         NEW n, m \subseteq n,
         Creates => /\ ChainWhole(NewStream, n, f, x)
                    /\ \A c \in Range(Chain(f, NewStream)) : c \notin m
  PROVE  Sound(e, n, f, x)
  <1> DEFINE d == op.slot
             q == IF op.kind = "delete" THEN 0 ELSE op.dest
             st == IF op.kind = "delete" THEN NoStream ELSE KeptStream
  <1>1. Typed(d) /\ Laid(d) /\ op.kind \in {"import", "mkdir", "delete", "rename"}
    BY DEF Command, Sound
  <1>2. Laid(e)
    BY <1>1, ReplacedFiles DEF Laid
  <1>3. ASSUME NEW p \in Slots, e[p].tag = "file"
        PROVE  \/ p # Gone /\ d[p].tag = "file" /\ Stream(e, p) = Stream(d, p)
               \/ p = q /\ Stream(e, p) = st
    BY <1>1, <1>3, ReplacedFiles
  <1>4. ChainWhole(st, n, f, x) /\ \A p \in Slots \ {Gone} : d[p].tag = "file" =>
            Range(Chain(f, st)) \cap Range(Chain(f, Stream(d, p))) = {}
    <2>1. CASE op.kind = "delete"
      <3>1. st = NoStream /\ NoStream.size = 0
        BY <2>1 DEF NoStream
      <3>2. ChainWhole(NoStream, n, f, x)
        BY <3>1 DEF ChainWhole
      <3>3. Range(Chain(f, NoStream)) = {}
        <4>1. NoStream.size \in Nat /\ 1..NoStream.size = {}
          BY <3>1
        <4>2. Range(Chain(f, NoStream)) = {Chain(f, NoStream)[i] : i \in 1..NoStream.size}
          BY <4>1, ChainAt
        <4> QED  BY <4>1, <4>2
      <3> QED  BY <3>1, <3>2, <3>3
    <2>2. CASE op.kind = "rename"
      <3>1. op.old # NoEntry /\ st = op.old.stream /\ Gone = OldHead
        BY <2>2 DEF Command, KeptStream, Gone
      <3>2. /\ OldHead \in Slots /\ d[OldHead].tag = "file" /\ st = Stream(d, OldHead)
        BY <3>1, OldIs DEF WellFormed
      <3>3. ChainWhole(Stream(d, OldHead), m, f, x)
        BY <1>1, <3>2, SoundFile
      <3>4. ASSUME NEW p \in Slots \ {OldHead}, d[p].tag = "file"
            PROVE  Range(Chain(f, Stream(d, OldHead))) \cap Range(Chain(f, Stream(d, p))) = {}
        <4>1. OldHead # p
          OBVIOUS
        <4> QED  BY <3>2, <3>4, <4>1, Zenon DEF Sound
      <3> QED  BY <3>1, <3>2, <3>3, <3>4 DEF ChainWhole
    <2>3. CASE op.kind \in {"import", "mkdir"}
      <3>1. st = NewStream /\ Creates
        BY <2>3 DEF KeptStream, Creates
      <3>2. ASSUME NEW p \in Slots, d[p].tag = "file"
            PROVE  Range(Chain(f, NewStream)) \cap Range(Chain(f, Stream(d, p))) = {}
        <4>1. Range(Chain(f, Stream(d, p))) \subseteq m
          BY <1>1, <3>2, SoundFile
        <4> QED  BY <3>1, <4>1
      <3> QED  BY <3>1, <3>2
    <2> QED  BY <1>1, <2>1, <2>2, <2>3
  <1> HIDE DEF q, st
  <1>5. SoundlyMoved(d, m, f, x, e, Gone, q, st, n)
    BY <1>1, <1>2, <1>3, <1>4, Zenon DEF SoundlyMoved
  <1> QED  BY <1>5, SoundMoves, Zenon

LEMMA WholeMixed ==
  ASSUME Command, NEW m, NEW f, NEW x, Sound(op.slot, m, f, x), NEW e, NEW n, m \subseteq n,
         \A s \in Slots : e[s] = op.slot[s]
            \/ (s \in NewSlots /\ e[s] = NewSet[s - op.dest + 1]),
         Creates => ChainWhole(NewStream, n, f, x)
  PROVE  FilesWhole(e, n, f, x)
  <1> DEFINE d == op.slot
  <1>1. Typed(d) /\ Laid(d) /\ op.kind \in {"import", "mkdir", "delete", "rename"}
    BY DEF Command, Sound
  <1>2. ASSUME NEW p \in Slots, d[p].tag = "file" PROVE ChainWhole(Stream(d, p), n, f, x)
    <2>1. ChainWhole(Stream(d, p), m, f, x)
      BY <1>1, <1>2, SoundFile
    <2> QED  BY <2>1 DEF ChainWhole
  <1>3. op.kind # "delete" => ChainWhole(KeptStream, n, f, x)
    <2>1. CASE op.kind = "rename"
      <3>1. OldHead \in Slots /\ d[OldHead].tag = "file" /\ op.old.stream = Stream(d, OldHead)
        BY <2>1, OldIs DEF WellFormed, Command
      <3>2. ChainWhole(Stream(d, OldHead), n, f, x)
        BY <1>2, <3>1
      <3> QED  BY <2>1, <3>1, <3>2 DEF KeptStream
    <2>2. CASE op.kind \in {"import", "mkdir"}
      BY <2>2 DEF KeptStream, Creates
    <2> QED  BY <1>1, <2>1, <2>2
  <1>4. ASSUME NEW p \in Slots, p + 1 \in Slots, e[p].tag = "file", e[p + 1].tag = "stream"
        PROVE  ChainWhole(Stream(e, p), n, f, x)
    <2>1. \/ d[p].tag = "file" /\ Stream(e, p) = Stream(d, p)
          \/ op.kind # "delete" /\ p = op.dest /\ Stream(e, p) = KeptStream
      BY <1>1, <1>4, MixedFiles
    <2>2. CASE d[p].tag = "file" /\ Stream(e, p) = Stream(d, p)
      BY <1>2, <2>2
    <2>3. CASE op.kind # "delete" /\ Stream(e, p) = KeptStream
      BY <1>3, <2>3
    <2> QED  BY <2>1, <2>2, <2>3
  <1> QED  BY <1>4 DEF FilesWhole

\* The new file has been written, linked and is in use.
LEMMA NewIsWhole ==
  ASSUME Command, Fresh, Chained, Written(Len(op.plan)), NEW n,
         \A i \in 1..Len(op.plan) : op.plan[i] \in n
  PROVE  /\ ChainWhole(NewStream, n, fat, data)
         /\ \A c \in Range(Chain(fat, NewStream)) : c \notin op.marked
  <1> DEFINE st == NewStream
             q == op.plan
  <1>1. q \in Seq(Clusters) /\ op.chained \in BOOLEAN
    BY DEF Command
  <1>2. /\ st.size = Len(q) /\ st.size \in Nat /\ st.chained = op.chained /\ st.ver = op.ver
        /\ st.first = IF q = <<>> THEN 0 ELSE q[1]
    BY <1>1 DEF NewStream
  <1>3. st.size > 0 => st.first = q[1]
    BY <1>1, <1>2
  <1>4. \A i \in 1..st.size : q[i] \in Clusters
    BY <1>1, <1>2
  <1>5. st.chained => \A i \in 1..st.size - 1 : fat[q[i]] = q[i + 1]
    BY <1>2 DEF Chained
  <1>6. ~ st.chained => \A i \in 1..st.size : q[i] = q[1] + i - 1
    BY <1>2 DEF Fresh
  <1> HIDE DEF st, q
  <1>7. \A i \in 1..st.size : Chain(fat, st)[i] = q[i]
    BY <1>2, <1>3, <1>4, <1>5, <1>6, ChainFollows
  <1>8. ChainWhole(st, n, fat, data)
    BY <1>2, <1>7 DEF ChainWhole, Written, q
  <1>9. Range(Chain(fat, st)) = {Chain(fat, st)[i] : i \in 1..st.size}
    BY <1>2, ChainAt
  <1>10. \A c \in Range(Chain(fat, st)) : c \notin op.marked
    BY <1>2, <1>7, <1>9 DEF Fresh, q
  <1> QED  BY <1>8, <1>10 DEF st

\* What a rename clears is the old name's, and none of the new one's.
LEMMA ClearIs ==
  ASSUME Command, Stages, at = "clear"
  PROVE  /\ \A i \in 1..Len(PutVals) : PutVals[i] = Cleared
         /\ \A s \in PutSlots : s \in op.old.slots /\ s \notin NewSlots
         /\ Grown => OldHead \in PutSlots
         /\ Len(PutVals) \in Nat /\ PutFirst \in Nat
  <1>1. op.kind = "rename" /\ op.old # NoEntry /\ op.name \in Names
    BY DEF Stages, Command
  <1>2. /\ OldHead \in Slots /\ op.slot[OldHead].more \in Nat
        /\ op.old.slots = OldHead..OldHead + op.slot[OldHead].more
        /\ Cardinality(op.old.slots) = op.slot[OldHead].more + 1
    BY <1>1, OldIs
  <1> DEFINE more == op.slot[OldHead].more
             n == SetLen(op.name)
  <1>3. OldHead \in Nat /\ more \in Nat /\ n \in Nat /\ Len(NewSet) = n
    BY <1>1, <1>2, NameIs, NewIs DEF Slots, SetLen
  <1>4. op.old.slots = OldHead..OldHead + more
    BY <1>2
  <1>5. Grown <=> n > more + 1
    BY <1>2 DEF Grown
  <1>6. NewSlots = op.dest..op.dest + n - 1
    BY <1>3 DEF NewSlots
  <1> HIDE DEF more, n
  <1>7. CASE Grown
    <2>1. PutFirst = OldHead /\ PutVals = [i \in 1..more + 1 |-> Cleared]
      BY <1>2, <1>7 DEF PutFirst, PutVals, Blank, OldHead, more
    <2>2. Len(PutVals) = more + 1
      BY <1>3, <2>1
    <2>3. PutSlots = op.old.slots
      <3>1. PutFirst + Len(PutVals) - 1 = OldHead + more
        BY <1>3, <2>1, <2>2
      <3> QED  BY <1>4, <2>1, <3>1 DEF PutSlots
    <2>4. \A i \in NewSlots : i \notin op.old.slots
      <3>1. InNew
        BY <1>1, <1>7 DEF InNew
      <3> QED  BY <1>6, <3>1 DEF Command, n
    <2>5. OldHead \in op.old.slots
      BY <1>3, <1>4
    <2> QED  BY <1>3, <2>1, <2>2, <2>3, <2>4, <2>5
  <1>8. CASE ~ Grown
    <2>1. op.dest = OldHead
      BY <1>1, <1>8 DEF Command, InNew, OldHead
    <2>2. Surplus = OldHead + n..OldHead + more
      <3>1. Surplus = {s \in OldHead..OldHead + more : s >= OldHead + n}
        BY <1>4, <2>1 DEF Surplus, n
      <3> QED  BY <1>3, <3>1
    <2>3. Cardinality(Surplus) = more + 1 - n /\ more + 1 - n \in Nat
      <3>1. OldHead + n \in Int /\ OldHead + more \in Int
        BY <1>3
      <3>2. Cardinality(Surplus) = IF OldHead + n > OldHead + more THEN 0
                                   ELSE (OldHead + more) - (OldHead + n) + 1
        BY <2>2, <3>1, FS_Interval
      <3> QED  BY <1>3, <1>5, <1>8, <3>2
    <2>4. PutFirst = OldHead + n /\ PutVals = [i \in 1..more + 1 - n |-> Cleared]
      BY <1>8, <2>1, <2>3 DEF PutFirst, PutVals, Blank, n
    <2>5. Len(PutVals) = more + 1 - n
      BY <2>3, <2>4
    <2>6. PutFirst \in Nat /\ PutFirst + Len(PutVals) - 1 = OldHead + more
      <3>1. PutFirst = OldHead + n
        BY <2>4
      <3> QED  BY <1>3, <2>5, <3>1
    <2>7. ASSUME NEW s \in PutSlots PROVE s \in op.old.slots /\ s \notin NewSlots
      <3>1. s \in OldHead + n..OldHead + more
        BY <2>4, <2>6 DEF PutSlots
      <3> QED  BY <1>3, <1>4, <1>6, <2>1, <3>1
    <2> QED  BY <1>8, <2>3, <2>4, <2>5, <2>6, <2>7
  <1> QED  BY <1>7, <1>8

LEMMA ChangedReplaces ==
  ASSUME Command, op.old = NoEntry \/ ~ InNew
  PROVE  Replaced(Changed)
  <1>1. \A s \in Slots : Changed[s] = IF s \in NewSlots THEN NewSet[s - op.dest + 1]
                                      ELSE op.slot[s]
    BY DEF Changed, With, NewSlots
  <1>2. op.old # NoEntry => OldHead \in NewSlots
    BY NewIs DEF NewSlots, Slots
  <1> QED  BY <1>1, <1>2 DEF Replaced

\* All of a rename is on the card.
LEMMA ClearedReplaces ==
  ASSUME Command, Stages, at = "clear"
  PROVE  Replaced(With(Changed, PutFirst, PutVals))
  <1> DEFINE e == With(Changed, PutFirst, PutVals)
  <1>1. /\ \A i \in 1..Len(PutVals) : PutVals[i] = Cleared
        /\ \A s \in PutSlots : s \in op.old.slots /\ s \notin NewSlots
        /\ Grown => OldHead \in PutSlots
        /\ Len(PutVals) \in Nat /\ PutFirst \in Nat
    BY ClearIs
  <1>2. \A s \in Slots : Changed[s] = IF s \in NewSlots THEN NewSet[s - op.dest + 1]
                                      ELSE op.slot[s]
    BY DEF Changed, With, NewSlots
  <1>3. ASSUME NEW s \in Slots
        PROVE  IF s \in PutSlots THEN Unused(e[s]) ELSE e[s] = Changed[s]
    <2>1. e[s] = IF s \in PutSlots THEN PutVals[s - PutFirst + 1] ELSE Changed[s]
      BY DEF With, PutSlots
    <2>2. ASSUME s \in PutSlots PROVE PutVals[s - PutFirst + 1] = Cleared
      <3>1. s - PutFirst + 1 \in 1..Len(PutVals)
        BY <1>1, <2>2 DEF PutSlots, Slots
      <3> QED  BY <1>1, <3>1
    <2> HIDE DEF e
    <2> QED  BY <2>1, <2>2 DEF Unused, Cleared
  <1> HIDE DEF e
  <1>4. op.old # NoEntry /\ OldHead \notin NewSlots => Unused(e[OldHead])
    <2> SUFFICES ASSUME op.old # NoEntry, OldHead \notin NewSlots PROVE Unused(e[OldHead])
      OBVIOUS
    <2>1. OldHead \in Slots
      BY OldIs
    <2>2. Grown
      <3> SUFFICES ASSUME ~ Grown PROVE FALSE
        OBVIOUS
      <3>1. ~ InNew
        BY DEF InNew
      <3>2. OldHead \in NewSlots
        BY <3>1, NewIs DEF NewSlots, Slots
      <3> QED  BY <3>2
    <2> QED  BY <1>1, <1>3, <2>1, <2>2
  <1>5. \A s \in Slots : s \in NewSlots => e[s] = NewSet[s - op.dest + 1]
    BY <1>1, <1>2, <1>3
  <1>6. \A s \in Slots : s \notin NewSlots =>
          e[s] = op.slot[s] \/ (s \in op.old.slots /\ Unused(e[s]))
    BY <1>1, <1>2, <1>3
  <1>7. Replaced(e)
    BY <1>4, <1>5, <1>6 DEF Replaced
  <1> QED  BY <1>7 DEF e

\* What takes a new name back is what was in its slots.
LEMMA TakeBackIs ==
  ASSUME Command, Stages
  PROVE  at = "take back" =>
           /\ PutSlots = NewSlots
           /\ \A s \in PutSlots : PutVals[s - PutFirst + 1] = op.slot[s]
           /\ With(Changed, PutFirst, PutVals) = op.slot
  <1>0. SUFFICES ASSUME at = "take back"
                 PROVE  /\ PutSlots = NewSlots
                        /\ \A s \in PutSlots : PutVals[s - PutFirst + 1] = op.slot[s]
                        /\ With(Changed, PutFirst, PutVals) = op.slot
    OBVIOUS
  <1>1. op.kind = "rename" /\ op.kind # "delete"
    BY <1>0 DEF Stages
  <1>2. /\ op.dest \in Nat /\ Len(NewSet) = SetLen(op.name) /\ Len(NewSet) \in Nat
    <2>1. op.dest \in Slots /\ Len(NewSet) = SetLen(op.name) /\ Len(NewSet) \in Nat
      BY <1>1, NewIs
    <2> QED  BY <2>1, FolderAssumption DEF Slots
  <1>3. PutFirst = op.dest /\ PutVals = [i \in 1..Len(NewSet) |-> op.slot[op.dest + i - 1]]
    BY <1>0, <1>2 DEF PutFirst, PutVals
  <1> DEFINE n == Len(NewSet)
  <1>4. Len(PutVals) = n
    <2>1. n \in Nat /\ PutVals = [i \in 1..n |-> op.slot[op.dest + i - 1]]
      BY <1>2, <1>3
    <2> HIDE DEF n
    <2>2. Len(PutVals) = n /\ PutVals = [i \in 1..Len(PutVals) |-> PutVals[i]]
      BY <2>1
    <2> QED  BY <2>2
  <1>5. PutSlots = NewSlots
    BY <1>3, <1>4 DEF PutSlots, NewSlots
  <1>6. ASSUME NEW s \in PutSlots PROVE PutVals[s - PutFirst + 1] = op.slot[s]
    <2>1. s - op.dest + 1 \in 1..Len(NewSet) /\ op.dest + (s - op.dest + 1) - 1 = s
      BY <1>2, <1>5 DEF NewSlots
    <2>2. PutVals[s - op.dest + 1] = op.slot[op.dest + (s - op.dest + 1) - 1]
      BY <1>3, <2>1
    <2> QED  BY <1>3, <2>1, <2>2
  <1>7. \A s \in Slots : s \notin NewSlots => Changed[s] = op.slot[s]
    BY DEF Changed, With, NewSlots
  <1>8. With(Changed, PutFirst, PutVals) =
          [s \in Slots |-> IF s \in PutSlots THEN PutVals[s - PutFirst + 1] ELSE Changed[s]]
    BY DEF With, PutSlots
  <1>9. op.slot = [s \in Slots |-> op.slot[s]]
    BY DEF Command, Typed
  <1>10. \A s \in Slots : (IF s \in PutSlots THEN PutVals[s - PutFirst + 1] ELSE Changed[s])
                            = op.slot[s]
    BY <1>5, <1>6, <1>7
  <1>11. With(Changed, PutFirst, PutVals) = op.slot
    BY <1>8, <1>9, <1>10
  <1> QED  BY <1>5, <1>6, <1>11

-----------------------------------------------------------------------------
(* What a reader finds at every moment.                                    *)

LEMMA FilesNow ==
  ASSUME FolderHolds, KeptHolds, ~ torn
  PROVE  FilesWhole(slot, marked, fat, data)
  <1>1. Typed(slot) /\ Stages
    BY FolderTyped DEF FolderHolds
  <1>2. CASE at = "idle"
    BY <1>2 DEF KeptHolds
  <1>3. CASE at = "free"
    <2>1. Sound(slot, marked \cap ram, fat, data)
      BY <1>3 DEF KeptHolds, Freeing
    <2>2. marked \cap ram \subseteq marked
      OBVIOUS
    <2> QED  BY <1>1, <2>1, <2>2, WholeIn
  <1>4. CASE at \notin {"idle", "free"}
    <2>1. /\ Command /\ Sound(op.slot, op.marked, fat, data) /\ op.marked \subseteq marked
          /\ Progress
      BY <1>4 DEF FolderHolds, KeptHolds, Working
    <2>2. Typed(op.slot)
      BY <2>1 DEF Command
    <2>3. CASE at \in {"take", "link", "data", "mark", "undo", "release"}
      <3>1. slot = op.slot
        BY <2>3 DEF FolderHolds, FolderNow
      <3> QED  BY <2>1, <2>2, <3>1, WholeIn
    <2>4. CASE at = "put"
      <3>1. \A s \in Slots : slot[s] = op.slot[s]
              \/ (s \in NewSlots /\ slot[s] = NewSet[s - op.dest + 1])
        BY <2>4, PutDone DEF Putting, Mixed, NewSlots
      <3>2. Creates => ChainWhole(NewStream, marked, fat, data)
        <4> SUFFICES ASSUME Creates PROVE ChainWhole(NewStream, marked, fat, data)
          OBVIOUS
        <4>1. Chained /\ Written(Len(op.plan)) /\ \A i \in 1..Len(op.plan) : op.plan[i] \in marked
          BY <2>1, <2>4 DEF Progress
        <4>2. Fresh
          BY <2>4 DEF KeptHolds
        <4> QED  BY <2>1, <4>1, <4>2, NewIsWhole
      <3> QED  BY <2>1, <3>1, <3>2, WholeMixed
    <2>5. CASE at \in {"clear", "take back"}
      <3>1. SectorsPut /\ op.kind = "rename" /\ ~ Creates
        BY <1>1, <2>5 DEF FolderHolds, FolderNow, Putting, Stages, Creates
      <3>2. PICK base : PutOver(base) /\ \A s \in Slots : slot[s] = base[s]
                          \/ (s \in PutSlots /\ slot[s] = PutVals[s - PutFirst + 1])
        BY <3>1, PutMixes
      <3>3. base = Changed
        BY <2>5, <3>2 DEF PutOver
      <3>4. \A s \in Slots : Changed[s] = IF s \in NewSlots THEN NewSet[s - op.dest + 1]
                                          ELSE op.slot[s]
        BY DEF Changed, With, NewSlots
      <3>5. CASE at = "clear"
        <4>1. FilesWhole(Changed, marked, fat, data)
          BY <2>1, <3>1, <3>4, WholeMixed
        <4>2. ASSUME NEW s \in Slots, s \in PutSlots, slot[s] = PutVals[s - PutFirst + 1]
              PROVE  Unused(slot[s])
          <5>1. /\ \A i \in 1..Len(PutVals) : PutVals[i] = Cleared
                /\ Len(PutVals) \in Nat /\ PutFirst \in Nat
            BY <1>1, <2>1, <3>5, ClearIs
          <5>2. s - PutFirst + 1 \in 1..Len(PutVals)
            BY <4>2, <5>1 DEF PutSlots, Slots
          <5> QED  BY <4>2, <5>1, <5>2 DEF Unused, Cleared
        <4>3. \A s \in Slots : slot[s] = Changed[s] \/ Unused(slot[s])
          BY <3>2, <3>3, <4>2
        <4> QED  BY <4>1, <4>3, WholeCleared
      <3>6. CASE at = "take back"
        <4>1. PutSlots = NewSlots /\ \A s \in PutSlots : PutVals[s - PutFirst + 1] = op.slot[s]
          BY <1>1, <2>1, <3>6, TakeBackIs
        <4>2. \A s \in Slots : slot[s] = op.slot[s]
                \/ (s \in NewSlots /\ slot[s] = NewSet[s - op.dest + 1])
          BY <3>2, <3>3, <3>4, <4>1
        <4> QED  BY <2>1, <3>1, <4>2, WholeMixed
      <3> QED  BY <2>5, <3>5, <3>6
    <2>6. at # "keep"
      BY DEF FolderHolds, FolderNow
    <2> QED  BY <1>1, <1>4, <2>3, <2>4, <2>5, <2>6 DEF Stages
  <1> QED  BY <1>2, <1>3, <1>4

LEMMA WholeFollows ==
  ASSUME Typed(slot), FilesWhole(slot, marked, fat, data)
  PROVE  LiveMarked /\ ContentKept
  <1>1. ASSUME NEW p \in Heads(slot)
        PROVE  /\ Stream(slot, p).size \in Nat /\ ChainWhole(Stream(slot, p), marked, fat, data)
               /\ Range(Chain(fat, Stream(slot, p))) \subseteq marked
    <2>1. p \in Slots /\ WellFormed(slot, p)
      BY HeadsWellFormed
    <2>2. p + 1 \in Slots /\ slot[p].tag = "file" /\ slot[p + 1].tag = "stream"
      BY <2>1, SetInFolder DEF WellFormed
    <2> DEFINE st == Stream(slot, p)
    <2>3. st.size \in Nat /\ ChainWhole(st, marked, fat, data)
      BY <2>1, <2>2, StreamTyped DEF FilesWhole
    <2> HIDE DEF st
    <2>4. Range(Chain(fat, st)) = {Chain(fat, st)[i] : i \in 1..st.size}
      BY <2>3, ChainAt
    <2>5. Range(Chain(fat, st)) \subseteq marked
      BY <2>3, <2>4 DEF ChainWhole
    <2> QED  BY <2>3, <2>5 DEF st
  <1>2. ASSUME NEW e \in Listing(slot), NEW i \in 1..e.stream.size
        PROVE  data[Chain(fat, e.stream)[i]] = <<e.stream.ver, i>>
    <2>1. PICK p \in Heads(slot) : e = Entry(slot, p)
      BY DEF Listing
    <2>2. e.stream = Stream(slot, p)
      BY <2>1 DEF Entry
    <2> QED  BY <1>1, <2>2 DEF ChainWhole
  <1> QED  BY <1>1, <1>2 DEF LiveMarked, ContentKept

-----------------------------------------------------------------------------
(* The files, step by step.                                                *)

LEMMA PlanIsFresh ==
  ASSUME NEW n \in Nat, n <= Cardinality(Clusters \ marked)
  PROVE  /\ \A i, j \in 1..Len(Plan(n)) : Plan(n)[i] = Plan(n)[j] => i = j
         /\ \A i \in 1..Len(Plan(n)) : Plan(n)[i] \notin marked
         /\ Contiguous(n) => \A i \in 1..Len(Plan(n)) : Plan(n)[i] = Plan(n)[1] + i - 1
  <1> DEFINE F == Clusters \ marked
  <1>1. F \subseteq Nat /\ IsFiniteSet(F)
    <2>1. IsFiniteSet(Clusters)
      BY FS_Interval, CardsAssumption DEF Clusters
    <2> QED  BY <2>1, FS_Subset, CardsAssumption DEF Clusters
  <1>2. Plan(n) \in Seq(F)
    BY PlanIsFree
  <1>3. CASE n = 0
    BY <1>3 DEF Plan
  <1>4. CASE n # 0 /\ Contiguous(n)
    <2>1. Runs(n) \subseteq Nat /\ Runs(n) # {}
      BY <1>4 DEF Contiguous, Runs, Clusters
    <2> DEFINE m == Min(Runs(n))
    <2>2. m \in Nat
      BY <2>1, LeastIs
    <2>3. Plan(n) = [i \in 1..n |-> m + i - 1]
      BY <1>4 DEF Plan
    <2> HIDE DEF m
    <2>4. Len(Plan(n)) = n /\ \A i \in 1..n : Plan(n)[i] = m + i - 1
      BY <2>3
    <2>5. Plan(n)[1] = m
      BY <1>4, <2>2, <2>4
    <2> QED  BY <1>2, <2>2, <2>4, <2>5
  <1>5. CASE n # 0 /\ ~ Contiguous(n)
    <2>1. \E p \in [1..n -> F] : Ordered(p, n, F)
      BY <1>1, InOrder
    <2> DEFINE p == FirstFree(n)
    <2>2. p \in [1..n -> F] /\ Ordered(p, n, F)
      BY <2>1 DEF Ordered, FirstFree
    <2>3. Plan(n) = p
      BY <1>5 DEF Plan
    <2> HIDE DEF p
    <2>4. ASSUME NEW i \in 1..n, NEW j \in 1..n, i < j PROVE p[i] < p[j]
      <3>1. i \in 1..j - 1
        BY <2>4
      <3>2. p[i] \in {c \in F : c < p[j]}
        BY <2>2, <3>1 DEF Ordered
      <3> QED  BY <3>2
    <2>5. Len(p) = n
      BY <2>2
    <2>6. ASSUME NEW i \in 1..n, NEW j \in 1..n, p[i] = p[j] PROVE i = j
      <3>1. p[i] \in Nat
        BY <1>1, <2>2
      <3>2. ~ (i < j) /\ ~ (j < i)
        BY <2>4, <2>6, <3>1
      <3> QED  BY <3>2
    <2> QED  BY <1>2, <1>5, <2>3, <2>5, <2>6
  <1> QED  BY <1>3, <1>4, <1>5

LEMMA FreeCounted ==
  Cardinality(Clusters \ marked) \in Nat /\ IsFiniteSet(Clusters \ marked)
  <1>1. IsFiniteSet(Clusters)
    BY FS_Interval, CardsAssumption DEF Clusters
  <1> QED  BY <1>1, FS_Subset, FS_CardinalityType

LEMMA BeginMounts ==
  ASSUME Begin
  PROVE  \E kind, name, old, dest : \E n \in Nat :
            /\ n <= Cardinality(Clusters \ marked) /\ Mount(kind, name, old, dest, n)
            /\ at' = "take" \/ (at' = "put" /\ kind \in {"delete", "rename"} /\ n = 0)
  <1> DEFINE R(kind, name, old, dest, n) ==
               /\ n <= Cardinality(Clusters \ marked) /\ Mount(kind, name, old, dest, n)
               /\ at' = "take" \/ (at' = "put" /\ kind \in {"delete", "rename"} /\ n = 0)
             Result == \E kind, name, old, dest : \E n \in Nat : R(kind, name, old, dest, n)
  <1>0. ASSUME NEW kind, NEW name, NEW old, NEW dest, NEW n \in Nat,
               R(kind, name, old, dest, n)
        PROVE  Result
    BY <1>0, Zenon
  <1>1. Cardinality(Clusters \ marked) \in Nat /\ IsFiniteSet(Clusters \ marked)
    BY FreeCounted, Zenon
  <1>2. ASSUME NEW name \in Names, NEW n \in Sizes, Import(name, n) PROVE Result
    <2>1. n \in Nat /\ n <= Cardinality(Clusters \ marked) /\ at' = "take"
      BY <1>1, <1>2, CardsAssumption DEF Import, HasRoom
    <2>2. PICK old, dest : Mount("import", name, old, dest, n)
      BY <1>2, Zenon DEF Import
    <2>3. R("import", name, old, dest, n)
      BY <2>1, <2>2
    <2> HIDE DEF R, Result
    <2> QED  BY <1>0, <2>1, <2>3
  <1>3. ASSUME NEW name \in Names, MakeDir(name) PROVE Result
    <2>1. at' = "take" /\ Clusters \ marked # {}
      BY <1>3, Zenon DEF MakeDir
    <2>2. PICK dest : Mount("mkdir", name, NoEntry, dest, 1)
      BY <1>3, Zenon DEF MakeDir
    <2>3. 1 <= Cardinality(Clusters \ marked)
      BY <1>1, <2>1, FS_EmptySet
    <2>4. R("mkdir", name, NoEntry, dest, 1)
      BY <2>1, <2>2, <2>3
    <2> HIDE DEF R, Result
    <2> QED  BY <1>0, <2>4
  <1>4. ASSUME NEW old, Delete(old) PROVE Result
    <2>1. Mount("delete", old.name, old, Min(old.slots), 0) /\ at' = "put"
      BY <1>4, Zenon DEF Delete, StartPut
    <2>2. R("delete", old.name, old, Min(old.slots), 0)
      BY <1>1, <2>1
    <2> HIDE DEF R, Result
    <2> QED  BY <1>0, <2>2
  <1>5. ASSUME NEW old, NEW name \in Names, Rename(old, name) PROVE Result
    <2>1. PICK s : Mount("rename", name, old, s, 0) /\ at' = "put"
      BY <1>5, Zenon DEF Rename, StartPut
    <2>2. R("rename", name, old, s, 0)
      BY <1>1, <2>1
    <2> HIDE DEF R, Result
    <2> QED  BY <1>0, <2>2
  <1> HIDE DEF R
  <1>6. Result
    BY <1>2, <1>3, <1>4, <1>5 DEF Begin
  <1> QED  BY <1>6, Zenon DEF R

\* A step of a command that goes on, and one that ends it.
LEMMA KeptGoes ==
  ASSUME KeptHolds, at # "idle", op' = op, DOMAIN data' = DOMAIN data,
         at' \notin {"idle", "free"}, ~ torn' => Working'
  PROVE  KeptHolds'
  <1>1. Fresh'
    BY DEF KeptHolds, Fresh
  <1> QED  BY <1>1 DEF KeptHolds

LEMMA KeptEnds ==
  ASSUME KeptHolds, DOMAIN data' = DOMAIN data, at' = "idle",
         ~ torn' => Typed(slot') /\ Sound(slot', marked', fat', data')
  PROVE  KeptHolds'
  <1>1. ~ torn' => FilesWhole(slot', marked', fat', data')
    BY WholeIn
  <1> QED  BY <1>1 DEF KeptHolds

\* What a command's step leaves of what it found.
LEMMA WorkingGoes ==
  ASSUME Working, Typed(op.slot), op' = op,
         \A c \in op.marked : fat'[c] = fat[c] /\ data'[c] = data[c],
         op.marked \subseteq marked' \cap ram', Progress'
  PROVE  Working'
  <1>1. Sound(op.slot, op.marked, fat', data')
    BY SoundElsewhere DEF Working
  <1> QED  BY <1>1 DEF Working

LEMMA WorkingNow ==
  ASSUME FolderHolds, KeptHolds, at \notin {"idle", "free"}, ~ torn
  PROVE  /\ Working /\ Command /\ Fresh /\ Progress /\ Typed(op.slot)
         /\ Sound(op.slot, op.marked, fat, data) /\ op.marked \subseteq marked \cap ram
         /\ op.plan \in Seq(Clusters) /\ Len(op.plan) \in Nat
BY DEF FolderHolds, KeptHolds, Working, Command

LEMMA KeptOn ==
  ASSUME FolderHolds, KeptHolds, at \notin {"idle", "free"}, at' \notin {"idle", "free"},
         op' = op, DOMAIN data' = DOMAIN data,
         ~ torn' =>
           /\ ~ torn
           /\ \A c \in op.marked : fat'[c] = fat[c] /\ data'[c] = data[c]
           /\ op.marked \subseteq marked' \cap ram'
           /\ Progress'
  PROVE  KeptHolds'
  <1>1. ASSUME ~ torn' PROVE Working'
    <2>1. ~ torn /\ Working /\ Typed(op.slot)
      BY <1>1, WorkingNow
    <2> QED  BY <1>1, <2>1, WorkingGoes
  <1> QED  BY <1>1, KeptGoes

LEMMA KeptBegins ==
  ASSUME FolderHolds', KeptHolds, Begin PROVE KeptHolds'
  <1>1. at = "idle" /\ ~ Warned
    BY DEF Begin
  <1>2. PICK kind, name, old, dest : \E n \in Nat :
            /\ n <= Cardinality(Clusters \ marked) /\ Mount(kind, name, old, dest, n)
            /\ at' = "take" \/ (at' = "put" /\ kind \in {"delete", "rename"} /\ n = 0)
    BY BeginMounts
  <1>3. PICK n \in Nat :
            /\ n <= Cardinality(Clusters \ marked) /\ Mount(kind, name, old, dest, n)
            /\ at' = "take" \/ (at' = "put" /\ kind \in {"delete", "rename"} /\ n = 0)
    BY <1>2
  <1>4. /\ op'.plan = Plan(n) /\ op'.chained = ~ Contiguous(n) /\ op'.kind = kind
        /\ op'.slot = slot /\ op'.marked = marked
    BY <1>3 DEF Mount
  <1>5. /\ marked' = marked /\ fat' = fat /\ data' = data /\ ram' = marked /\ got' = 0
        /\ torn' = torn
    BY <1>3 DEF Mount, card
  <1>6. Fresh'
    <2>1. /\ \A i, j \in 1..Len(Plan(n)) : Plan(n)[i] = Plan(n)[j] => i = j
          /\ \A i \in 1..Len(Plan(n)) : Plan(n)[i] \notin marked
          /\ Contiguous(n) => \A i \in 1..Len(Plan(n)) : Plan(n)[i] = Plan(n)[1] + i - 1
      BY <1>3, PlanIsFresh
    <2> QED  BY <1>4, <2>1 DEF Fresh
  <1>7. ASSUME ~ torn' PROVE Working'
    <2>1. ~ torn
      BY <1>5, <1>7
    <2>2. Sound(slot, marked, fat, data)
      BY <1>1, <2>1 DEF KeptHolds
    <2>3. at' = "put" => ~ Creates'
      BY <1>3, <1>4 DEF Creates
    <2>4. Progress'
      BY <1>3, <1>5, <2>3 DEF Progress
    <2> QED  BY <1>4, <1>5, <2>2, <2>4 DEF Working
  <1> QED  BY <1>3, <1>5, <1>6, <1>7 DEF KeptHolds

LEMMA KeptTakes ==
  ASSUME CancelHolds, FolderHolds, KeptHolds, NEW o \in Outcomes, TakeCluster(o)
  PROVE  KeptHolds'
  <1>1. /\ at = "take" /\ got < Len(op.plan)
        /\ fat' = [fat EXCEPT ![op.plan[got + 1]] = IF Landed(o) THEN ChainEnd ELSE @]
        /\ UNCHANGED <<marked, data, op, torn>> /\ ram \subseteq ram'
        /\ at' \in {"take", "undo"}
        /\ at' = "take" => got' = got + 1 /\ ram' = ram \cup {op.plan[got + 1]}
    BY DEF TakeCluster, past
  <1>2. got \in Nat /\ got + 1 \in 1..Len(op.plan) /\ DOMAIN fat = Clusters
    BY <1>1, Next1 DEF CancelHolds, CardTypes
  <1>3. ASSUME ~ torn'
        PROVE  /\ ~ torn /\ op.marked \subseteq marked' \cap ram' /\ Progress'
               /\ \A c \in op.marked : fat'[c] = fat[c] /\ data'[c] = data[c]
    <2>1. torn' <=> torn
      BY <1>1
    <2>2. Fresh /\ Progress /\ op.marked \subseteq marked \cap ram
      BY <1>1, <1>3, <2>1, WorkingNow
    <2>3. marked \subseteq Clusters /\ op.plan[got + 1] \notin op.marked
      BY <1>2, <2>2 DEF CancelHolds, CardTypes, Fresh
    <2>4. \A c \in op.marked : fat'[c] = fat[c]
      BY <1>1, <1>2, <2>2, <2>3
    <2>5. \A i \in 1..got : op.plan[i] \in ram
      BY <1>1, <2>2 DEF Progress
    <2>6. at' = "take" => \A i \in 1..got' : op.plan[i] \in ram'
      BY <1>1, <1>2, <2>5
    <2>7. Progress'
      BY <1>1, <2>6 DEF Progress
    <2> QED  BY <1>1, <1>3, <2>1, <2>2, <2>4, <2>7
  <1> QED  BY <1>1, <1>3, KeptOn

LEMMA KeptLinks ==
  ASSUME CancelHolds, FolderHolds, KeptHolds, LinkClusters PROVE KeptHolds'
  <1>1. /\ at = "take" /\ got = Len(op.plan) /\ at' = "link" /\ got' = 0
        /\ UNCHANGED <<marked, fat, data, ram, op, torn>>
        /\ fatq' = IF op.chained
                   THEN Each(Front(op.plan), LAMBDA i : op.plan[i + 1])
                   ELSE Each(op.plan, LAMBDA i : Free)
    BY DEF LinkClusters, card, past
  <1>2. ASSUME ~ torn'
        PROVE  /\ ~ torn /\ op.marked \subseteq marked' \cap ram' /\ Progress'
               /\ \A c \in op.marked : fat'[c] = fat[c] /\ data'[c] = data[c]
    <2>1. torn' <=> torn
      BY <1>1
    <2>2. /\ Fresh /\ Progress /\ op.marked \subseteq marked \cap ram
          /\ op.plan \in Seq(Clusters) /\ Len(op.plan) \in Nat
      BY <1>1, <1>2, <2>1, WorkingNow
    <2>3. \A i \in 1..Len(op.plan) : op.plan[i] \in ram
      BY <1>1, <2>2 DEF Progress
    <2> DEFINE n == Len(op.plan)
               m == IF op.chained THEN IF n = 0 THEN 0 ELSE n - 1 ELSE n
               to(i) == IF op.chained THEN op.plan[i + 1] ELSE Free
    <2>4. n \in Nat /\ m \in 0..n /\ \A i \in 1..m : to(i) \in 0..ChainEnd
      <3>1. Clusters \subseteq 0..ChainEnd /\ Free \in 0..ChainEnd
        BY CardsAssumption DEF Clusters, ChainEnd, Free
      <3>2. n \in Nat /\ m \in 0..n
        BY <2>2
      <3>3. ASSUME NEW i \in 1..m PROVE to(i) \in 0..ChainEnd
        <4>1. CASE op.chained
          <5>1. i + 1 \in 1..n
            BY <2>2, <4>1
          <5>2. op.plan[i + 1] \in Clusters
            BY <2>2, <5>1
          <5> QED  BY <3>1, <4>1, <5>2
        <4>2. CASE ~ op.chained
          BY <3>1, <4>2
        <4> QED  BY <4>1, <4>2
      <3> QED  BY <3>2, <3>3
    <2>5. fatq' = [i \in 1..m |-> <<op.plan[i], to(i)>>]
      <3>1. CASE op.chained
        <4> DEFINE c == Front(op.plan)
        <4>1. c = SubSeq(op.plan, 1, n - 1)
          BY DEF Front
        <4>2. Len(c) = m /\ \A i \in 1..m : c[i] = op.plan[i]
          <5>1. CASE n = 0
            BY <2>2, <3>1, <4>1, <5>1
          <5>2. CASE n # 0
            BY <2>2, <3>1, <4>1, <5>2
          <5> QED  BY <5>1, <5>2
        <4>3. fatq' = [i \in 1..Len(c) |-> <<c[i], op.plan[i + 1]>>]
          BY <1>1, <3>1 DEF Each
        <4> HIDE DEF c, m, n
        <4> QED  BY <3>1, <4>2, <4>3
      <3>2. CASE ~ op.chained
        BY <1>1, <3>2 DEF Each
      <3> QED  BY <3>1, <3>2
    <2> HIDE DEF m
    <2>6. Len(fatq') = m /\ \A i \in 1..m : fatq'[i] = <<op.plan[i], to(i)>>
      BY <2>4, <2>5
    <2>7. Queued'
      <3>1. \A i \in 1..m : <<op.plan[i], to(i)>> \in Clusters \X (0..ChainEnd)
        BY <2>2, <2>4
      <3> QED  BY <2>4, <2>5, <3>1 DEF Queued
    <2>8. op.chained => m = IF n = 0 THEN 0 ELSE n - 1
      BY DEF m
    <2>9. op.chained => Chaining' /\ ChainOnly'
      <3> SUFFICES ASSUME op.chained PROVE Chaining' /\ ChainOnly'
        OBVIOUS
      <3>1. \A i \in 1..n - 1 : i \in 1..m
        BY <2>4, <2>8
      <3>2. \A i \in 1..m : i \in 1..n - 1
        BY <2>4, <2>8
      <3>3. \A i \in 1..m : fatq'[i] = <<op.plan[i], op.plan[i + 1]>>
        BY <2>6
      <3> QED  BY <1>1, <2>6, <3>1, <3>2, <3>3 DEF Chaining, ChainOnly
    <2>10. \A k \in 1..Len(fatq') : \E i \in 1..Len(op.plan) : fatq'[k][1] = op.plan[i]
      BY <2>4, <2>6
    <2>11. Progress'
      BY <1>1, <2>3, <2>7, <2>9, <2>10 DEF Progress
    <2> QED  BY <1>1, <1>2, <2>1, <2>2, <2>11
  <1> QED  BY <1>1, <1>2, KeptOn

LEMMA KeptLinked ==
  ASSUME FolderHolds, KeptHolds, Linked PROVE KeptHolds'
  <1>1. /\ at = "link" /\ fatq = <<>> /\ at' = "data"
        /\ UNCHANGED <<marked, fat, data, ram, op, got, torn>>
    BY DEF Linked, card, past
  <1>2. ASSUME ~ torn'
        PROVE  /\ ~ torn /\ op.marked \subseteq marked' \cap ram' /\ Progress'
               /\ \A c \in op.marked : fat'[c] = fat[c] /\ data'[c] = data[c]
    <2>1. torn' <=> torn
      BY <1>1
    <2>2. Progress /\ op.marked \subseteq marked \cap ram
      BY <1>1, <1>2, <2>1, WorkingNow
    <2>3. Chained
      <3>1. Len(fatq) = 0
        BY <1>1
      <3>2. op.chained => Chaining
        BY <1>1, <2>2 DEF Progress
      <3>3. \A k \in 1..Len(fatq) : FALSE
        BY <3>1
      <3> QED  BY <3>2, <3>3 DEF Chaining, Chained
    <2>4. got = 0 /\ \A i \in 1..Len(op.plan) : op.plan[i] \in ram
      BY <1>1, <2>2 DEF Progress
    <2>5. Progress'
      BY <1>1, <2>3, <2>4 DEF Progress, Chained, Written
    <2> QED  BY <1>1, <1>2, <2>1, <2>2, <2>5
  <1> QED  BY <1>1, <1>2, KeptOn

LEMMA KeptWrites ==
  ASSUME CancelHolds, FolderHolds, KeptHolds, NEW o \in Outcomes, WriteCluster(o)
  PROVE  KeptHolds'
  <1>1. /\ at = "data" /\ got < Len(op.plan)
        /\ data' = [data EXCEPT ![op.plan[got + 1]] =
                      IF o = "ok" THEN <<op.ver, got + 1>>
                      ELSE IF o = "landed" THEN <<0, 0>> ELSE @]
        /\ UNCHANGED <<marked, fat, ram, op, torn>>
        /\ at' \in {"data", "undo"} /\ (at' = "data" => got' = got + 1 /\ o = "ok")
    BY DEF WriteCluster, past
  <1>2. /\ got \in Nat /\ got + 1 \in 1..Len(op.plan) /\ DOMAIN data = Clusters
        /\ op.plan[got + 1] \in Clusters
    BY <1>1, Next1 DEF CancelHolds, KeptHolds
  <1>3. ASSUME ~ torn'
        PROVE  /\ ~ torn /\ op.marked \subseteq marked' \cap ram' /\ Progress'
               /\ \A c \in op.marked : fat'[c] = fat[c] /\ data'[c] = data[c]
    <2>1. torn' <=> torn
      BY <1>1
    <2>2. /\ Fresh /\ Progress /\ op.marked \subseteq marked \cap ram
          /\ op.plan \in Seq(Clusters) /\ Len(op.plan) \in Nat
      BY <1>1, <1>3, <2>1, WorkingNow
    <2>3. marked \subseteq Clusters /\ op.plan[got + 1] \notin op.marked
      BY <1>2, <2>2 DEF CancelHolds, CardTypes, Fresh
    <2>4. \A c \in op.marked : data'[c] = data[c]
      BY <1>1, <1>2, <2>2, <2>3
    <2>5. Chained /\ Written(got) /\ \A i \in 1..Len(op.plan) : op.plan[i] \in ram
      BY <1>1, <2>2 DEF Progress
    <2>6. ASSUME at' = "data" PROVE (Written(got))'
      <3>1. got' = got + 1 /\ data'[op.plan[got + 1]] = <<op.ver, got + 1>>
        BY <1>1, <1>2, <2>6
      <3>2. ASSUME NEW i \in 1..got PROVE data'[op.plan[i]] = <<op.ver, i>>
        <4>1. i \in 1..Len(op.plan) /\ i # got + 1
          BY <1>2, <2>2
        <4>2. op.plan[i] # op.plan[got + 1] /\ op.plan[i] \in Clusters
          BY <1>2, <2>2, <4>1 DEF Fresh
        <4>3. data'[op.plan[i]] = data[op.plan[i]]
          BY <1>1, <1>2, <4>2
        <4> QED  BY <2>5, <4>3 DEF Written
      <3>3. \A i \in 1..got + 1 : data'[op.plan[i]] = <<op.ver, i>>
        <4>1. \A i \in 1..got + 1 : i \in 1..got \/ i = got + 1
          BY <1>2
        <4> QED  BY <3>1, <3>2, <4>1
      <3> QED  BY <1>1, <3>1, <3>3 DEF Written
    <2>7. Progress'
      BY <1>1, <2>5, <2>6 DEF Progress, Chained
    <2> QED  BY <1>1, <1>3, <2>1, <2>2, <2>4, <2>7
  <1>4. DOMAIN data' = DOMAIN data
    BY <1>1
  <1> QED  BY <1>1, <1>3, <1>4, KeptOn

LEMMA KeptStands ==
  ASSUME FolderHolds, KeptHolds, at \in {"data"}, at' \in {"mark", "undo"},
         UNCHANGED <<marked, fat, data, ram, op, torn>>,
         at' = "mark" => got = Len(op.plan)
  PROVE  KeptHolds'
  <1>1. ASSUME ~ torn'
        PROVE  /\ ~ torn /\ op.marked \subseteq marked' \cap ram' /\ Progress'
               /\ \A c \in op.marked : fat'[c] = fat[c] /\ data'[c] = data[c]
    <2>1. torn' <=> torn
      OBVIOUS
    <2>2. Progress /\ op.marked \subseteq marked \cap ram
      BY <1>1, <2>1, WorkingNow
    <2>3. Progress'
      BY <2>2 DEF Progress, Chained, Written
    <2> QED  BY <1>1, <2>1, <2>2, <2>3
  <1> QED  BY <1>1, KeptOn

\* What is in use on the card and in memory stays so.
LEMMA BitmapKeeps ==
  ASSUME NEW o, SyncBitmap(o)
  PROVE  marked \cap ram \subseteq marked' /\ (o = "ok" => marked' = ram)
  <1>1. PICK m \in SUBSET ((marked \ ram) \cup (ram \ marked)) :
          /\ o = "ok" => m = (marked \ ram) \cup (ram \ marked)
          /\ marked' = (marked \ m) \cup (ram \cap m)
    BY DEF SyncBitmap
  <1> QED  BY <1>1

LEMMA KeptMarks ==
  ASSUME FolderHolds, KeptHolds, NEW o \in Outcomes, MarkClusters(o)
  PROVE  KeptHolds'
  <1>1. /\ at = "mark" /\ SyncBitmap(o) /\ at' = IF o = "ok" THEN "put" ELSE "undo"
        /\ UNCHANGED <<fat, data, ram, op, torn>>
    BY DEF MarkClusters, SyncBitmap, PutNewEntry, StartPut, past
  <1>2. marked \cap ram \subseteq marked' /\ (o = "ok" => marked' = ram)
    BY <1>1, BitmapKeeps
  <1>3. ASSUME ~ torn'
        PROVE  /\ ~ torn /\ op.marked \subseteq marked' \cap ram' /\ Progress'
               /\ \A c \in op.marked : fat'[c] = fat[c] /\ data'[c] = data[c]
    <2>1. torn' <=> torn
      BY <1>1
    <2>2. Progress /\ op.marked \subseteq marked \cap ram
      BY <1>1, <1>3, <2>1, WorkingNow
    <2>3. Chained /\ Written(Len(op.plan)) /\ \A i \in 1..Len(op.plan) : op.plan[i] \in ram
      BY <1>1, <2>2 DEF Progress
    <2>4. Chained' /\ (Written(Len(op.plan)))'
      BY <1>1, <2>3 DEF Chained, Written
    <2>5. at' = "put" => \A i \in 1..Len(op.plan) : op.plan[i] \in marked' \cap ram'
      BY <1>1, <1>2, <2>3
    <2>6. Progress'
      BY <1>1, <2>4, <2>5 DEF Progress
    <2> QED  BY <1>1, <1>2, <1>3, <2>1, <2>2, <2>6
  <1> QED  BY <1>1, <1>3, KeptOn

LEMMA KeptPuts ==
  ASSUME FolderHolds, KeptHolds, NEW o \in Outcomes, PutSector(o) \/ RestoreSector(o)
  PROVE  KeptHolds'
  <1>1. /\ Putting /\ at' = at
        /\ UNCHANGED <<marked, fat, data, ram, op, got, fatq, torn>>
    BY DEF PutSector, RestoreSector, past
  <1>2. at \notin {"idle", "free", "link", "release", "take", "data", "mark"}
    BY <1>1 DEF Putting
  <1>3. ASSUME ~ torn'
        PROVE  /\ ~ torn /\ op.marked \subseteq marked' \cap ram' /\ Progress'
               /\ \A c \in op.marked : fat'[c] = fat[c] /\ data'[c] = data[c]
    <2>1. torn' <=> torn
      BY <1>1
    <2>2. Progress /\ op.marked \subseteq marked \cap ram
      BY <1>2, <1>3, <2>1, WorkingNow
    <2>3. Progress'
      <3>1. Creates' = Creates
        BY <1>1 DEF Creates
      <3> QED  BY <1>1, <1>2, <2>2, <3>1 DEF Progress, Chained, Written
    <2> QED  BY <1>1, <1>3, <2>1, <2>2, <2>3
  <1> QED  BY <1>1, <1>2, <1>3, KeptOn

\* Steps after the entry set has been written or put back, and that do not end.
LEMMA KeptTurns ==
  ASSUME FolderHolds, KeptHolds, at \notin {"idle", "free"},
         at' \notin {"idle", "free", "link", "release", "take", "data", "mark", "put"},
         op' = op, UNCHANGED <<marked, fat, data, ram>>, ~ torn' => ~ torn
  PROVE  KeptHolds'
  <1>1. ASSUME ~ torn'
        PROVE  /\ ~ torn /\ op.marked \subseteq marked' \cap ram' /\ Progress'
               /\ \A c \in op.marked : fat'[c] = fat[c] /\ data'[c] = data[c]
    <2>1. op.marked \subseteq marked \cap ram /\ ~ torn
      BY <1>1, WorkingNow
    <2>2. Progress'
      BY DEF Progress
    <2> QED  BY <2>1, <2>2
  <1> QED  BY <1>1, KeptOn

\* A command that ends as it began.
LEMMA KeptReturns ==
  ASSUME FolderHolds, KeptHolds, at \notin {"idle", "free"}, at' = "idle",
         marked \cap ram \subseteq marked', UNCHANGED <<fat, data>>,
         ~ torn' => ~ torn /\ slot' = op.slot
  PROVE  KeptHolds'
  <1>1. ASSUME ~ torn' PROVE Typed(slot') /\ Sound(slot', marked', fat', data')
    <2>1. /\ Sound(op.slot, op.marked, fat, data) /\ Typed(op.slot) /\ slot' = op.slot
          /\ op.marked \subseteq marked \cap ram
      BY <1>1, WorkingNow
    <2>2. \A c \in op.marked : c \in marked' /\ fat'[c] = fat[c] /\ data'[c] = data[c]
      BY <2>1
    <2>3. Sound(op.slot, marked', fat', data')
      BY <2>1, <2>2, SoundElsewhere
    <2> QED  BY <2>1, <2>3
  <1> QED  BY <1>1, KeptEnds

\* A command that ends with its entry set in the folder.
LEMMA KeptReplaces ==
  ASSUME FolderHolds, FolderHolds', KeptHolds, at \notin {"idle", "free"}, at' = "idle",
         UNCHANGED <<slot, marked, fat, data>>,
         ~ torn' => /\ ~ torn /\ Replaced(slot)
                    /\ (Creates => at = "put")
  PROVE  KeptHolds'
  <1>1. Typed(slot)
    BY FolderTyped
  <1>2. ASSUME ~ torn' PROVE Sound(slot, marked, fat, data)
    <2>1. /\ Sound(op.slot, op.marked, fat, data) /\ Command /\ Progress /\ Fresh
          /\ op.marked \subseteq marked /\ Replaced(slot)
      BY <1>2, WorkingNow
    <2>2. ASSUME Creates
          PROVE  /\ ChainWhole(NewStream, marked, fat, data)
                 /\ \A c \in Range(Chain(fat, NewStream)) : c \notin op.marked
      <3>1. Chained /\ Written(Len(op.plan)) /\ \A i \in 1..Len(op.plan) : op.plan[i] \in marked
        BY <1>2, <2>1, <2>2 DEF Progress
      <3> QED  BY <2>1, <3>1, NewIsWhole
    <2> QED  BY <2>1, <2>2, SoundAfter
  <1>3. ~ torn' => Typed(slot') /\ Sound(slot', marked', fat', data')
    BY <1>1, <1>2
  <1> QED  BY <1>3, KeptEnds

LEMMA KeptUndoes ==
  ASSUME CancelHolds, FolderHolds, KeptHolds, Undo PROVE KeptHolds'
  <1>1. at = "undo" /\ UNCHANGED <<slot, marked, fat, data, op, got, torn>>
    BY DEF Undo, card, Done
  <1>2. torn' <=> torn
    BY <1>1
  <1>3. CASE got = 0
    <2>1. at' = "idle" /\ ram' = ram
      BY <1>3 DEF Undo, Done
    <2>2. slot = op.slot
      BY <1>1 DEF FolderHolds, FolderNow
    <2>3. UNCHANGED <<fat, data>> /\ marked \cap ram \subseteq marked' /\ slot' = op.slot
          /\ at \notin {"idle", "free"}
      BY <1>1, <2>2
    <2> QED  BY <1>2, <2>1, <2>3, KeptReturns
  <1>4. CASE got # 0
    <2> DEFINE back == SubSeq(op.plan, 1, got)
    <2>1. /\ at' = "release" /\ ram' = ram \ Range(back)
          /\ fatq' = [i \in 1..Len(back) |-> <<back[i], Free>>]
      BY <1>4 DEF Undo, Each
    <2>2. op.plan \in Seq(Clusters) /\ got \in 0..Len(op.plan)
      BY <1>1 DEF CancelHolds, CardTypes
    <2>3. back \in Seq(Clusters) /\ Len(back) = got /\ \A i \in 1..got : back[i] = op.plan[i]
      BY <2>2
    <2>4. Range(back) = {op.plan[i] : i \in 1..got}
      BY <2>3 DEF Range
    <2> HIDE DEF back
    <2>5. /\ \A k \in 1..Len(fatq') : \E i \in 1..Len(op.plan) : fatq'[k][1] = op.plan[i]
          /\ Queued'
      <3>1. Len(fatq') = got /\ \A i \in 1..got : fatq'[i] = <<op.plan[i], Free>>
        BY <2>1, <2>2, <2>3
      <3>2. \A i \in 1..got : i \in 1..Len(op.plan)
        BY <2>2
      <3>3. Free \in 0..ChainEnd
        BY CardsAssumption DEF Free, ChainEnd
      <3>4. \A i \in 1..got : <<back[i], Free>> \in Clusters \X (0..ChainEnd)
        BY <2>3, <3>3
      <3>5. Queued'
        BY <2>1, <2>2, <2>3, <3>4 DEF Queued
      <3> QED  BY <3>1, <3>2, <3>5
    <2>6. ASSUME ~ torn'
          PROVE  /\ ~ torn /\ op.marked \subseteq marked' \cap ram' /\ Progress'
                 /\ \A c \in op.marked : fat'[c] = fat[c] /\ data'[c] = data[c]
      <3>1. Fresh /\ op.marked \subseteq marked \cap ram
        BY <1>1, <1>2, <2>6, WorkingNow
      <3>2. \A c \in Range(back) : c \notin op.marked
        BY <2>2, <2>4, <3>1 DEF Fresh
      <3>3. Progress'
        BY <1>1, <2>1, <2>5 DEF Progress
      <3> QED  BY <1>1, <1>2, <2>1, <2>6, <3>1, <3>2, <3>3
    <2> QED  BY <1>1, <2>1, <2>6, KeptOn
  <1> QED  BY <1>3, <1>4

\* One less to write.
LEMMA QueueGoes ==
  ASSUME Queued, fatq # <<>>
  PROVE  /\ Len(fatq) \in Nat /\ 1 \in 1..Len(fatq) /\ fatq[1] \in Clusters \X (0..ChainEnd)
         /\ Tail(fatq) \in Seq(Clusters \X (0..ChainEnd))
         /\ Len(Tail(fatq)) = Len(fatq) - 1
         /\ \A i \in 1..Len(fatq) - 1 : i + 1 \in 1..Len(fatq) /\ Tail(fatq)[i] = fatq[i + 1]
         /\ \A i \in 1..Len(fatq) : i = 1 \/ i - 1 \in 1..Len(fatq) - 1
  <1>1. fatq \in Seq(Clusters \X (0..ChainEnd)) /\ fatq # <<>>
    BY DEF Queued
  <1> DEFINE S == Clusters \X (0..ChainEnd)
  <1>2. fatq \in Seq(S)
    BY <1>1
  <1> HIDE DEF S
  <1>3. /\ Len(fatq) \in Nat /\ 1 \in 1..Len(fatq) /\ fatq[1] \in S
        /\ Tail(fatq) \in Seq(S) /\ Len(Tail(fatq)) = Len(fatq) - 1
        /\ \A i \in 1..Len(fatq) - 1 : Tail(fatq)[i] = fatq[i + 1]
    BY <1>1, <1>2
  <1>4. \A i \in 1..Len(fatq) - 1 : i + 1 \in 1..Len(fatq)
    BY <1>3
  <1>5. \A i \in 1..Len(fatq) : i = 1 \/ i - 1 \in 1..Len(fatq) - 1
    BY <1>3
  <1> QED  BY <1>3, <1>4, <1>5 DEF S

LEMMA KeptFatWrites ==
  ASSUME CancelHolds, FolderHolds, KeptHolds, NEW o \in Outcomes, FatWrite(o), at # "free"
  PROVE  KeptHolds'
  <1>1. /\ at \in {"link", "release"} /\ fatq # <<>>
        /\ fat' = [fat EXCEPT ![fatq[1][1]] = IF Landed(o) THEN fatq[1][2] ELSE @]
        /\ UNCHANGED <<marked, data, op, ram, torn>>
        /\ o = "ok" => fatq' = Tail(fatq) /\ at' = at /\ got' = got
        /\ o # "ok" => fatq' = <<>> /\ at' \in {"undo", "release"}
    BY DEF FatWrite, past
  <1>2. DOMAIN fat = Clusters
    BY DEF CancelHolds, CardTypes
  <1>3. at' \notin {"idle", "free"}
    BY <1>1
  <1>4. ASSUME ~ torn'
        PROVE  /\ ~ torn /\ op.marked \subseteq marked' \cap ram' /\ Progress'
               /\ \A c \in op.marked : fat'[c] = fat[c] /\ data'[c] = data[c]
    <2>1. torn' <=> torn
      BY <1>1
    <2>2. /\ Fresh /\ Progress /\ op.marked \subseteq marked \cap ram
          /\ op.plan \in Seq(Clusters) /\ Len(op.plan) \in Nat
      BY <1>1, <1>4, <2>1, WorkingNow
    <2>3. /\ Queued
          /\ \A k \in 1..Len(fatq) : \E i \in 1..Len(op.plan) : fatq[k][1] = op.plan[i]
      BY <1>1, <2>2 DEF Progress
    <2>4. /\ Len(fatq) \in Nat /\ 1 \in 1..Len(fatq)
          /\ fatq[1] \in Clusters \X (0..ChainEnd)
          /\ Tail(fatq) \in Seq(Clusters \X (0..ChainEnd))
          /\ Len(Tail(fatq)) = Len(fatq) - 1
          /\ \A i \in 1..Len(fatq) - 1 : i + 1 \in 1..Len(fatq) /\ Tail(fatq)[i] = fatq[i + 1]
          /\ \A i \in 1..Len(fatq) : i = 1 \/ i - 1 \in 1..Len(fatq) - 1
      BY <1>1, <2>3, QueueGoes
    <2>5. marked \subseteq Clusters /\ fatq[1][1] \notin op.marked
      BY <2>2, <2>3, <2>4 DEF CancelHolds, CardTypes, Fresh
    <2>6. \A c \in Clusters : c # fatq[1][1] => fat'[c] = fat[c]
      BY <1>1, <1>2
    <2>7. \A c \in op.marked : fat'[c] = fat[c]
      BY <2>2, <2>5, <2>6
    <2>8. CASE o # "ok"
      <3>1. Progress'
        <4>1. Queued'
          BY <1>1, <2>8 DEF Queued
        <4>2. Len(fatq') = 0
          BY <1>1, <2>8
        <4>3. \A k \in 1..Len(fatq') : FALSE
          BY <4>2
        <4> QED  BY <1>1, <2>8, <4>1, <4>3 DEF Progress
      <3> QED  BY <1>1, <1>4, <2>1, <2>2, <2>7, <3>1
    <2>9. CASE o = "ok"
      <3>1. fatq' = Tail(fatq) /\ at' = at /\ got' = got /\ Len(fatq') = Len(fatq) - 1
        BY <1>1, <2>4, <2>9
      <3>2. Queued' /\ \A k \in 1..Len(fatq') : \E i \in 1..Len(op.plan) : fatq'[k][1] = op.plan[i]
        <4>1. Queued'
          BY <2>4, <3>1 DEF Queued
        <4>2. ASSUME NEW k \in 1..Len(fatq') PROVE \E i \in 1..Len(op.plan) : fatq'[k][1] = op.plan[i]
          <5>1. k \in 1..Len(fatq) - 1
            BY <3>1
          <5>2. k + 1 \in 1..Len(fatq) /\ fatq'[k] = fatq[k + 1]
            BY <2>4, <3>1, <5>1
          <5> QED  BY <2>3, <5>2
        <4> QED  BY <4>1, <4>2
      <3>3. ASSUME at = "link", op.chained PROVE Chaining' /\ ChainOnly'
        <4>1. Chaining /\ ChainOnly
          BY <2>2, <3>3 DEF Progress
        <4>2. ChainOnly'
          <5>1. ASSUME NEW k \in 1..Len(fatq')
                PROVE  \E i \in 1..Len(op.plan) - 1 : fatq'[k] = <<op.plan[i], op.plan[i + 1]>>
            <6>1. k \in 1..Len(fatq) - 1
              BY <3>1
            <6>2. k + 1 \in 1..Len(fatq) /\ fatq'[k] = fatq[k + 1]
              BY <2>4, <3>1, <6>1
            <6> QED  BY <4>1, <6>2 DEF ChainOnly
          <5> QED  BY <1>1, <5>1 DEF ChainOnly
        <4>3. PICK j \in 1..Len(op.plan) - 1 : fatq[1] = <<op.plan[j], op.plan[j + 1]>>
          BY <2>4, <4>1 DEF ChainOnly
        <4>4. fat'[op.plan[j]] = op.plan[j + 1] /\ j \in 1..Len(op.plan)
          <5>1. j \in 1..Len(op.plan) /\ Landed(o)
            BY <2>2, <2>9 DEF Landed
          <5>2. op.plan[j] \in Clusters /\ fatq[1][1] = op.plan[j] /\ fatq[1][2] = op.plan[j + 1]
            BY <2>2, <4>3, <5>1
          <5> QED  BY <1>1, <1>2, <5>1, <5>2
        <4>5. ASSUME NEW i \in 1..Len(op.plan) - 1
              PROVE  \/ fat'[op.plan[i]] = op.plan[i + 1]
                     \/ \E k \in 1..Len(fatq') : fatq'[k] = <<op.plan[i], op.plan[i + 1]>>
          <5>1. CASE i = j
            BY <4>4, <5>1
          <5>2. CASE i # j
            <6>1. i \in 1..Len(op.plan)
              BY <2>2
            <6>2. op.plan[i] # op.plan[j] /\ op.plan[i] \in Clusters
              BY <2>2, <4>4, <5>2, <6>1 DEF Fresh
            <6>3. CASE fat[op.plan[i]] = op.plan[i + 1]
              <7>1. fatq[1][1] = op.plan[j]
                BY <4>3
              <7> QED  BY <2>6, <6>2, <6>3, <7>1
            <6>4. CASE fat[op.plan[i]] # op.plan[i + 1]
              <7>1. PICK k \in 1..Len(fatq) : fatq[k] = <<op.plan[i], op.plan[i + 1]>>
                BY <4>1, <6>4 DEF Chaining
              <7>2. k # 1
                BY <4>3, <6>2, <7>1
              <7>3. k - 1 \in 1..Len(fatq') /\ fatq'[k - 1] = fatq[k]
                <8>1. k - 1 \in 1..Len(fatq) - 1 /\ (k - 1) + 1 = k
                  BY <2>4, <7>2
                <8> QED  BY <2>4, <3>1, <8>1
              <7> QED  BY <7>1, <7>3
            <6> QED  BY <6>3, <6>4
          <5> QED  BY <5>1, <5>2
        <4>6. Chaining'
          BY <1>1, <4>5 DEF Chaining
        <4> QED  BY <4>2, <4>6
      <3>4. Progress'
        BY <1>1, <2>2, <3>1, <3>2, <3>3 DEF Progress
      <3> QED  BY <1>1, <1>4, <2>1, <2>2, <2>7, <3>4
    <2> QED  BY <2>8, <2>9
  <1>5. DOMAIN data' = DOMAIN data
    BY <1>1
  <1>6. at \notin {"idle", "free"} /\ op' = op
    BY <1>1
  <1> QED  BY <1>3, <1>4, <1>5, <1>6, KeptOn

\* A replaced or deleted file's clusters are no other's when they are given back.
LEMMA KeptFrees ==
  ASSUME CancelHolds, FolderHolds, KeptHolds, FreeOld PROVE KeptHolds'
  <1> DEFINE st == op.old.stream
             chain == Chain(fat, st)
             whole == {n \in 0..st.size : \A i \in 1..n : chain[i] \in Clusters}
             cs == SubSeq(chain, 1, Max(whole))
  <1>1. /\ Put("put") /\ op.kind # "rename" /\ op.old # NoEntry /\ at' = "free"
        /\ slot' = slot /\ marked' = marked /\ fat' = fat /\ data' = data /\ op' = op
        /\ torn' = torn
    BY Zenon DEF FreeOld, card, past
  <1>2. /\ fatq' = Each(cs, LAMBDA i : Free)
        /\ ram' = IF st.chained THEN ram ELSE ram \ Range(cs)
    BY Zenon DEF FreeOld
  <1>3. fatq' = [i \in 1..Len(cs) |-> <<cs[i], Free>>]
    BY <1>2 DEF Each
  <1> HIDE DEF st, chain, whole, cs
  <1>4. at = "put" /\ Putting /\ (torn' <=> torn)
    BY <1>1 DEF Put, Putting
  <1>5. Fresh'
    BY <1>1, <1>4 DEF KeptHolds, Fresh
  <1>6. ASSUME ~ torn' PROVE Freeing'
    <2>1. /\ Command /\ Fresh /\ Progress /\ Typed(op.slot)
          /\ Sound(op.slot, op.marked, fat, data) /\ op.marked \subseteq marked \cap ram
      BY <1>4, <1>6, WorkingNow
    <2>2. slot = Changed /\ Typed(slot)
      BY <1>1, <1>4, PutDone
    <2>3. Replaced(slot)
      <3>1. ~ InNew
        BY <1>1 DEF InNew
      <3> QED  BY <2>1, <2>2, <3>1, ChangedReplaces
    <2>4. ASSUME Creates
          PROVE  /\ ChainWhole(NewStream, marked \cap ram, fat, data)
                 /\ \A c \in Range(Chain(fat, NewStream)) : c \notin op.marked
      <3>1. /\ Chained /\ Written(Len(op.plan))
            /\ \A i \in 1..Len(op.plan) : op.plan[i] \in marked \cap ram
        BY <1>4, <2>1, <2>4 DEF Progress
      <3> QED  BY <2>1, <3>1, NewIsWhole
    <2>5. Sound(slot, marked \cap ram, fat, data)
      BY <2>1, <2>3, <2>4, SoundAfter
    <2>6. /\ OldHead \in Slots /\ op.slot[OldHead].tag = "file"
          /\ st = Stream(op.slot, OldHead) /\ st.size \in Nat
      BY <1>1, <2>1, OldIs DEF WellFormed, st
    <2>7. /\ Range(chain) \subseteq op.marked /\ ChainWhole(st, op.marked, fat, data)
      BY <2>1, <2>6, SoundFile DEF chain
    <2>8. chain = [i \in 1..st.size |-> chain[i]] /\ Range(chain) = {chain[i] : i \in 1..st.size}
      BY <2>6, ChainAt DEF chain
    <2>9. \A i \in 1..st.size : chain[i] \in Clusters /\ chain[i] \in Range(chain)
      BY <2>1, <2>7, <2>8 DEF CancelHolds, CardTypes
    <2>10. chain \in Seq(Clusters) /\ Len(chain) = st.size
      BY <2>6, <2>8, <2>9
    <2>11. Max(whole) = st.size
      <3>1. whole = 0..st.size
        BY <2>6, <2>9 DEF whole
      <3>2. st.size \in whole /\ \A y \in whole : st.size >= y
        BY <2>6, <3>1
      <3>3. Max(whole) \in whole /\ \A y \in whole : Max(whole) >= y
        BY <3>2 DEF Max
      <3> QED  BY <2>6, <3>1, <3>2, <3>3
    <2>12. Len(cs) = st.size /\ \A i \in 1..st.size : cs[i] = chain[i]
      <3>1. cs = SubSeq(chain, 1, st.size)
        BY <2>11 DEF cs
      <3> QED  BY <2>6, <2>10, <3>1
    <2>13. cs \in Seq(Clusters) /\ Range(cs) \subseteq Range(chain)
      <3>1. cs = SubSeq(chain, 1, st.size)
        BY <2>11 DEF cs
      <3>2. cs \in Seq(Clusters)
        BY <2>6, <2>10, <3>1
      <3>3. Range(cs) = {cs[i] : i \in 1..st.size}
        BY <2>12, <3>2 DEF Range
      <3> QED  BY <2>9, <2>12, <3>2, <3>3
    <2>14. ASSUME NEW p \in Slots, slot[p].tag = "file"
           PROVE  Range(Chain(fat, Stream(slot, p))) \cap Range(chain) = {}
      <3>1. \/ p # Gone /\ op.slot[p].tag = "file" /\ Stream(slot, p) = Stream(op.slot, p)
            \/ op.kind # "delete" /\ Stream(slot, p) = KeptStream
        BY <2>1, <2>3, <2>14, ReplacedFiles DEF Sound
      <3>2. CASE p # Gone /\ op.slot[p].tag = "file" /\ Stream(slot, p) = Stream(op.slot, p)
        <4>1. p # OldHead
          BY <1>1, <3>2 DEF Gone
        <4>2. Range(Chain(fat, Stream(op.slot, p)))
                \cap Range(Chain(fat, Stream(op.slot, OldHead))) = {}
          BY <2>1, <2>6, <3>2, <4>1, Zenon DEF Sound
        <4> QED  BY <2>6, <3>2, <4>2 DEF chain
      <3>3. CASE op.kind # "delete" /\ Stream(slot, p) = KeptStream
        <4>1. Creates /\ KeptStream = NewStream
          BY <1>1, <2>1, <3>3 DEF Creates, Command, KeptStream
        <4> QED  BY <2>4, <2>7, <3>3, <4>1
      <3> QED  BY <3>1, <3>2, <3>3
    <2>15. ASSUME NEW p \in Slots, slot[p].tag = "file",
                  NEW c \in Range(Chain(fat, Stream(slot, p)))
           PROVE  c \in marked \cap ram'
      <3>1. c \in marked \cap ram /\ c \notin Range(chain)
        BY <2>2, <2>5, <2>14, <2>15, SoundFile
      <3> QED  BY <1>2, <2>13, <3>1
    <2>16. Sound(slot, marked \cap ram', fat, data)
      BY <2>2, <2>5, <2>15, SoundAside
    <2>17. Queued' /\ \A k \in 1..Len(fatq') : fatq'[k][1] \in Range(chain)
      <3>1. Free \in 0..ChainEnd
        BY CardsAssumption DEF Free, ChainEnd
      <3>2. \A i \in 1..st.size : <<cs[i], Free>> \in Clusters \X (0..ChainEnd)
        BY <2>9, <2>12, <3>1
      <3>3. fatq' = [i \in 1..st.size |-> <<cs[i], Free>>]
        BY <1>3, <2>12
      <3>4. Len(fatq') = st.size /\ \A k \in 1..st.size : fatq'[k] = <<cs[k], Free>>
        BY <2>6, <3>3
      <3>5. Queued'
        BY <2>6, <3>2, <3>3 DEF Queued
      <3> QED  BY <2>9, <2>12, <3>4, <3>5
    <2>18. ASSUME NEW k \in 1..Len(fatq'), NEW p \in Slots, slot'[p].tag = "file"
           PROVE  fatq'[k][1] \notin Range(Chain(fat', Stream(slot', p)))
      BY <1>1, <2>14, <2>17, <2>18
    <2> QED  BY <1>1, <2>16, <2>17, <2>18 DEF Freeing
  <1>7. DOMAIN data' = Clusters
    BY <1>1 DEF KeptHolds
  <1> QED  BY <1>1, <1>5, <1>6, <1>7 DEF KeptHolds

LEMMA KeptFreeing ==
  ASSUME CancelHolds, FolderHolds, KeptHolds, NEW o \in Outcomes, FatWrite(o), at = "free"
  PROVE  KeptHolds'
  <1>1. /\ fatq # <<>> /\ at' = "free"
        /\ fat' = [fat EXCEPT ![fatq[1][1]] = IF Landed(o) THEN fatq[1][2] ELSE @]
        /\ UNCHANGED <<slot, marked, data, op, torn>>
        /\ ram \ {fatq[1][1]} \subseteq ram'
        /\ fatq' = Tail(fatq) \/ fatq' = <<>>
    BY DEF FatWrite, past
  <1>2. DOMAIN fat = Clusters /\ marked \subseteq Clusters /\ (torn' <=> torn)
    BY <1>1 DEF CancelHolds, CardTypes
  <1>3. Typed(slot)
    BY FolderTyped
  <1>4. ASSUME ~ torn' PROVE Freeing'
    <2>1. /\ Sound(slot, marked \cap ram, fat, data) /\ Queued
          /\ \A k \in 1..Len(fatq) : \A p \in Slots :
               slot[p].tag = "file" => fatq[k][1] \notin Range(Chain(fat, Stream(slot, p)))
      BY <1>2, <1>4 DEF KeptHolds, Freeing
    <2>2. /\ Len(fatq) \in Nat /\ 1 \in 1..Len(fatq)
          /\ Tail(fatq) \in Seq(Clusters \X (0..ChainEnd))
          /\ Len(Tail(fatq)) = Len(fatq) - 1
          /\ \A i \in 1..Len(fatq) - 1 : i + 1 \in 1..Len(fatq) /\ Tail(fatq)[i] = fatq[i + 1]
      BY <1>1, <2>1, QueueGoes
    <2>3. ASSUME NEW p \in Slots, slot[p].tag = "file",
                 NEW c \in Range(Chain(fat, Stream(slot, p)))
          PROVE  c \in marked \cap ram' /\ fat'[c] = fat[c] /\ data'[c] = data[c]
      <3>1. c \in marked \cap ram
        BY <1>3, <2>1, <2>3, SoundFile
      <3>2. c # fatq[1][1]
        BY <2>1, <2>2, <2>3
      <3> QED  BY <1>1, <1>2, <3>1, <3>2
    <2>4. /\ Sound(slot, marked \cap ram', fat', data')
          /\ \A p \in Slots : slot[p].tag = "file" =>
               Chain(fat', Stream(slot, p)) = Chain(fat, Stream(slot, p))
      BY <1>3, <2>1, <2>3, SoundAside
    <2>5. Queued' /\ \A k \in 1..Len(fatq') : \E l \in 1..Len(fatq) : fatq'[k] = fatq[l]
      <3>1. CASE fatq' = <<>>
        <4>1. \A k \in 1..Len(fatq') : FALSE
          BY <3>1
        <4> QED  BY <3>1, <4>1 DEF Queued
      <3>2. CASE fatq' = Tail(fatq)
        <4>1. ASSUME NEW k \in 1..Len(fatq') PROVE \E l \in 1..Len(fatq) : fatq'[k] = fatq[l]
          <5>1. k \in 1..Len(fatq) - 1
            BY <2>2, <3>2
          <5>2. k + 1 \in 1..Len(fatq) /\ fatq'[k] = fatq[k + 1]
            BY <2>2, <3>2, <5>1
          <5> QED  BY <5>2
        <4> QED  BY <2>2, <3>2, <4>1 DEF Queued
      <3> QED  BY <1>1, <3>1, <3>2
    <2>6. ASSUME NEW k \in 1..Len(fatq'), NEW p \in Slots, slot'[p].tag = "file"
          PROVE  fatq'[k][1] \notin Range(Chain(fat', Stream(slot', p)))
      <3>1. PICK l \in 1..Len(fatq) : fatq'[k] = fatq[l]
        BY <2>5
      <3> QED  BY <1>1, <2>1, <2>4, <2>6, <3>1
    <2> QED  BY <1>1, <2>4, <2>5, <2>6 DEF Freeing
  <1>5. Fresh'
    BY <1>1 DEF KeptHolds, Fresh
  <1>6. DOMAIN data' = Clusters
    BY <1>1 DEF KeptHolds
  <1> QED  BY <1>1, <1>4, <1>5, <1>6 DEF KeptHolds

LEMMA KeptFreed ==
  ASSUME FolderHolds, KeptHolds, NEW o \in Outcomes, Freed(o) PROVE KeptHolds'
  <1>1. at = "free" /\ at' = "idle" /\ SyncBitmap(o) /\ UNCHANGED <<slot, fat, data, torn>>
    BY DEF Freed, Done, SyncBitmap
  <1>2. marked \cap ram \subseteq marked' /\ (torn' <=> torn) /\ Typed(slot)
    BY <1>1, BitmapKeeps, FolderTyped
  <1>3. ASSUME ~ torn' PROVE Typed(slot') /\ Sound(slot', marked', fat', data')
    <2>1. Sound(slot, marked \cap ram, fat, data)
      BY <1>1, <1>2, <1>3 DEF KeptHolds, Freeing
    <2>2. Sound(slot, marked', fat, data)
      BY <1>2, <2>1, SoundElsewhere
    <2> QED  BY <1>1, <1>2, <2>2
  <1> QED  BY <1>1, <1>3, KeptEnds

LEMMA KeptSame ==
  ASSUME KeptHolds,
         UNCHANGED <<slot, marked, fat, data, ram, op, at, got, fatq, torn, result>>
  PROVE  KeptHolds'
  <1>1. torn' <=> torn
    OBVIOUS
  <1>2. Progress => Progress'
    BY DEF Progress, Queued, Chaining, ChainOnly, Creates, Chained, Written
  <1>3. Working => Working'
    BY <1>2 DEF Working
  <1>4. Freeing => Freeing'
    BY DEF Freeing, Queued
  <1>5. Fresh => Fresh'
    BY DEF Fresh
  <1>6. Warned' <=> Warned
    BY DEF Warned
  <1> QED  BY <1>1, <1>3, <1>4, <1>5, <1>6 DEF KeptHolds

LEMMA KeptInit == Init => KeptHolds
  <1> SUFFICES ASSUME Init PROVE KeptHolds
    OBVIOUS
  <1>1. PICK c \in Cards : slot = c.slot /\ marked = c.marked /\ fat = c.fat /\ data = c.data
    BY DEF Init
  <1>2. at = "idle"
    BY DEF Init
  <1>3. Typed(slot) /\ Sound(slot, marked, fat, data) /\ DOMAIN data = Clusters
    BY <1>1, SoundCards DEF Typed
  <1>4. FilesWhole(slot, marked, fat, data)
    BY <1>3, WholeIn
  <1> QED  BY <1>2, <1>3, <1>4 DEF KeptHolds

\* A command that ends once its entry set has been written.
LEMMA KeptDone ==
  ASSUME FolderHolds, FolderHolds', KeptHolds, Created \/ OldNameCleared
  PROVE  KeptHolds'
  <1>1. /\ at' = "idle" /\ UNCHANGED <<slot, marked, fat, data, torn>> /\ Putting
        /\ (Put("put") /\ op.old = NoEntry) \/ (Put("clear") /\ at = "clear")
    BY DEF Created, OldNameCleared, Done, card, Putting, Put
  <1>2. Command /\ Stages /\ (torn' <=> torn) /\ at \notin {"idle", "free"}
    BY <1>1 DEF FolderHolds, Putting
  <1>3. Replaced(slot) /\ (Creates => at = "put")
    <2>1. CASE Put("put") /\ op.old = NoEntry
      <3>1. slot = Changed
        BY <1>1, <2>1, PutDone
      <3> QED  BY <1>2, <2>1, <3>1, ChangedReplaces DEF Put
    <2>2. CASE Put("clear") /\ at = "clear"
      <3>1. slot = With(Changed, PutFirst, PutVals)
        BY <1>1, <2>2, PutDone
      <3>2. op.kind = "rename"
        BY <1>2, <2>2 DEF Stages
      <3> QED  BY <1>2, <2>2, <3>1, <3>2, ClearedReplaces DEF Creates
    <2> QED  BY <1>1, <2>1, <2>2
  <1> QED  BY <1>1, <1>2, <1>3, KeptReplaces

\* A delete or a rename whose first entry set was put back.
LEMMA KeptFails ==
  ASSUME FolderHolds, KeptHolds, EntryWriteFailed
  PROVE  KeptHolds'
  <1>1. /\ at = "put" /\ failed /\ before = <<>> /\ at' = "idle" /\ Putting
        /\ UNCHANGED <<slot, marked, fat, data>> /\ torn' = (torn \/ ~ restored)
    BY DEF EntryWriteFailed, PutBack, Done, card, Putting
  <1>2. restored => slot = op.slot
    BY <1>1, PutDone
  <1>3. ~ torn' => ~ torn /\ slot' = op.slot
    BY <1>1, <1>2
  <1> QED  BY <1>1, <1>3, KeptReturns

LEMMA KeptStaysNamed ==
  ASSUME FolderHolds, FolderHolds', KeptHolds, OldNameStays
  PROVE  KeptHolds'
  <1>1. /\ at = "clear" /\ failed /\ before = <<>> /\ Putting
        /\ UNCHANGED <<slot, marked, fat, data, ram>> /\ torn' = (torn \/ ~ restored)
        /\ IF Grown THEN op' = op ELSE at' = "idle"
        /\ Grown => at' \notin {"idle", "free", "link", "release", "take", "data", "mark", "put"}
    BY DEF OldNameStays, PutBack, Done, StartPut, card, Putting
  <1>2. Command /\ Stages /\ op.kind = "rename" /\ ~ Creates
    BY <1>1 DEF FolderHolds, Stages, Creates
  <1>3. ~ torn' => ~ torn /\ restored
    BY <1>1
  <1>4. CASE Grown
    BY <1>1, <1>3, <1>4, KeptTurns
  <1>5. CASE ~ Grown
    <2>1. ~ torn' => Replaced(slot)
      <3>1. restored => slot = Changed
        BY <1>1, PutDone
      <3>2. ~ InNew \/ op.old = NoEntry
        BY <1>2, <1>5 DEF InNew
      <3> QED  BY <1>2, <1>3, <3>1, <3>2, ChangedReplaces
    <2> QED  BY <1>1, <1>2, <1>3, <1>5, <2>1, KeptReplaces
  <1> QED  BY <1>4, <1>5

LEMMA KeptTakenBack ==
  ASSUME FolderHolds, KeptHolds, NewNameTakenBack
  PROVE  KeptHolds'
  <1>1. Putting /\ at \notin {"idle", "free"} /\ at' = "idle"
        /\ UNCHANGED <<slot, marked, fat, data>>
    BY DEF NewNameTakenBack, Put, PutBack, Done, card, Putting
  <1>2. CASE Put("take back") /\ UNCHANGED torn
    <2>1. (torn' <=> torn) /\ Command /\ Stages
      BY <1>1, <1>2 DEF FolderHolds
    <2>2. ~ torn => slot = op.slot
      <3>1. With(Changed, PutFirst, PutVals) = op.slot
        BY <1>2, <2>1, TakeBackIs DEF Put
      <3> QED  BY <1>1, <1>2, <3>1, PutDone
    <2>3. marked \cap ram \subseteq marked'
      BY <1>1
    <2>4. ~ torn' => ~ torn /\ slot' = op.slot
      BY <1>1, <2>1, <2>2
    <2> QED  BY <1>1, <2>3, <2>4, KeptReturns
  <1>3. CASE PutBack("take back") /\ Done("two names")
    <2>1. Warned' /\ (~ torn' => ~ torn)
      BY <1>3 DEF PutBack, Done, Warned
    <2>2. ~ torn' => FilesWhole(slot', marked', fat', data')
      BY <1>1, <2>1, FilesNow
    <2>3. DOMAIN data' = Clusters
      BY <1>1 DEF KeptHolds
    <2> QED  BY <1>1, <2>1, <2>2, <2>3 DEF KeptHolds
  <1> QED  BY <1>2, <1>3 DEF NewNameTakenBack

LEMMA KeptReleases ==
  ASSUME FolderHolds, KeptHolds, NEW o \in Outcomes, Released(o) \/ Kept(o)
  PROVE  KeptHolds'
  <1>1. /\ at \in {"release", "keep"} /\ at' = "idle" /\ SyncBitmap(o)
        /\ UNCHANGED <<slot, fat, data, torn>>
    BY DEF Released, Kept, Done, SyncBitmap
  <1>2. marked \cap ram \subseteq marked' /\ (torn' <=> torn)
    BY <1>1, BitmapKeeps
  <1>3. ~ torn' => ~ torn /\ slot' = op.slot
    BY <1>1, <1>2 DEF FolderHolds, FolderNow
  <1> QED  BY <1>1, <1>2, <1>3, KeptReturns

LEMMA KeptAside ==
  ASSUME FolderHolds, KeptHolds, Cancel \/ DataWritten \/ Renamed \/ CreateFailed
  PROVE  KeptHolds'
  <1>1. CASE Cancel \/ DataWritten
    <2>1. /\ at \in {"data"} /\ at' \in {"mark", "undo"}
          /\ UNCHANGED <<marked, fat, data, ram, op, torn>>
          /\ at' = "mark" => got = Len(op.plan)
      BY <1>1 DEF Cancel, DataWritten, card, past
    <2> QED  BY <2>1, KeptStands
  <1>2. CASE Renamed \/ CreateFailed
    <2>1. /\ at = "put" /\ op' = op /\ UNCHANGED <<marked, fat, data, ram>>
          /\ at' \notin {"idle", "free", "link", "release", "take", "data", "mark", "put"}
          /\ UNCHANGED torn \/ torn' = (torn \/ ~ restored)
      BY <1>2 DEF Renamed, CreateFailed, Put, PutBack, StartPut, card, past
    <2>2. ~ torn' => ~ torn
      BY <2>1
    <2> QED  BY <2>1, <2>2, KeptTurns
  <1> QED  BY <1>1, <1>2

LEMMA KeptWriteStep ==
  ASSUME CancelHolds, FolderHolds, KeptHolds, NEW o \in Outcomes, Write(o)
  PROVE  KeptHolds'
  <1>1. CASE FatWrite(o)
    BY <1>1, KeptFatWrites, KeptFreeing
  <1>2. CASE PutSector(o) \/ RestoreSector(o)
    BY <1>2, KeptPuts
  <1>3. CASE Released(o) \/ Kept(o)
    BY <1>3, KeptReleases
  <1> QED  BY <1>1, <1>2, <1>3, KeptTakes, KeptWrites, KeptMarks, KeptFreed DEF Write

LEMMA KeptOtherStep ==
  ASSUME CancelHolds, FolderHolds, FolderHolds', KeptHolds, Step
  PROVE  KeptHolds'
  <1>1. CASE Cancel \/ DataWritten \/ Renamed \/ CreateFailed
    BY <1>1, KeptAside
  <1>2. CASE Created \/ OldNameCleared
    BY <1>2, KeptDone
  <1> QED  BY <1>1, <1>2, KeptLinks, KeptLinked, KeptFrees, KeptFails, KeptStaysNamed,
              KeptTakenBack, KeptUndoes DEF Step

LEMMA KeptNext ==
  CancelHolds /\ FolderHolds /\ FolderHolds' /\ KeptHolds /\ [Next]_vars => KeptHolds'
  <1> SUFFICES ASSUME CancelHolds, FolderHolds, FolderHolds', KeptHolds, [Next]_vars
               PROVE  KeptHolds'
    OBVIOUS
  <1>1. CASE Unplug \/ Over \/ UNCHANGED vars
    <2>1. UNCHANGED <<slot, marked, fat, data, ram, op, at, got, fatq, torn, result>>
      BY <1>1 DEF Unplug, Over, vars, card, past
    <2> QED  BY <2>1, KeptSame
  <1> QED  BY <1>1, KeptBegins, KeptWriteStep, KeptOtherStep DEF Next

LEMMA KeptFollows ==
  FolderHolds /\ KeptHolds => (~ torn => LiveMarked) /\ (~ torn => ContentKept)
BY FolderTyped, FilesNow, WholeFollows

\* Until an entry-set write fails and is not put back, every file that a reader
\* finds names only clusters that the bitmap on the card marks and its chain is
\* whole (LiveMarked), whatever write fails and wherever the cable is pulled:
\* exfat_create_file_in marks the clusters of a new file before an entry names
\* them, and exfat_free_entry_clusters gives back those of the old one only once
\* none does.
THEOREM FilesStayMarked == Spec => [](~ torn => LiveMarked)
  <1>1. Init => CancelHolds /\ FolderHolds /\ KeptHolds
    BY CardStarts, FolderInit, KeptInit
  <1>2. CancelHolds /\ FolderHolds /\ KeptHolds /\ [Next]_vars
          => CancelHolds' /\ FolderHolds' /\ KeptHolds'
    BY CardStep, FolderStep, KeptNext
  <1> QED  BY <1>1, <1>2, KeptFollows, PTL DEF Spec

\* Until an entry-set write fails and is not put back, every file that a reader
\* finds holds all of what its user put in (ContentKept): an import names its
\* clusters only once every one is written, and exfat_allocate_file_clusters
\* takes no cluster of a file the folder lists.
THEOREM FilesStayWhole == Spec => [](~ torn => ContentKept)
  <1>1. Init => CancelHolds /\ FolderHolds /\ KeptHolds
    BY CardStarts, FolderInit, KeptInit
  <1>2. CancelHolds /\ FolderHolds /\ KeptHolds /\ [Next]_vars
          => CancelHolds' /\ FolderHolds' /\ KeptHolds'
    BY CardStep, FolderStep, KeptNext
  <1> QED  BY <1>1, <1>2, KeptFollows, PTL DEF Spec

-----------------------------------------------------------------------------
(* A tidy folder.                                                          *)

NameAt(d, p) == Entry(d, p).name
FilesOf(d) == {p \in Slots : d[p].tag = "file"}
FileAt(d, p) == <<NameAt(d, p), Stream(d, p).ver>>

\* In a tidy folder a listing finds every file.
LEMMA AllListed ==
  ASSUME NEW d, Typed(d), Laid(d), Tidy(d)
  PROVE  Heads(d) = FilesOf(d)
  <1> DEFINE n == LastSlot + 20
             F(p) == {q \in FilesOf(d) : q >= p}
  <1>1. n \in Nat /\ LastSlot \in Nat /\ 1 \in 1..n /\ n = LastSlot + 20
    BY FolderAssumption
  <1>2. PICK f : Listed(f, d) /\ Heads(d) = f[1]
    BY HeadsAre
  <1>3. ASSUME NEW p \in 1..n
        PROVE  f[p] = IF p > LastSlot \/ d[p].tag = "end" THEN {}
                      ELSE IF WellFormed(d, p) THEN {p} \cup f[p + 1 + d[p].more]
                      ELSE f[p + 1]
    BY <1>2, Zenon DEF Listed
  <1> DEFINE G == {p \in 1..n : f[p] = F(p)}
  <1>4. ASSUME NEW p \in 1..n, \A l \in p + 1..n : l \in G PROVE p \in G
    <2>1. CASE p > LastSlot
      <3>1. F(p) = {}
        BY <1>1, <2>1 DEF FilesOf, Slots
      <3> QED  BY <1>3, <2>1, <3>1
    <2>2. CASE ~ (p > LastSlot) /\ d[p].tag = "end"
      <3>1. p \in Slots
        BY <1>1, <2>2 DEF Slots
      <3>2. ASSUME NEW q \in F(p) PROVE FALSE
        <4>1. q \in Slots /\ d[q].tag = "file" /\ (q = p \/ p < q)
          BY <3>1 DEF FilesOf, Slots
        <4>2. d[q].tag = "end"
          BY <2>2, <3>1, <4>1 DEF Tidy
        <4> QED  BY <4>1, <4>2
      <3>3. F(p) = {}
        BY <3>2
      <3> QED  BY <1>3, <2>2, <3>3
    <2>3. CASE ~ (p > LastSlot \/ d[p].tag = "end") /\ d[p].tag = "file"
      <3>1. p \in Slots /\ p \in Nat
        BY <1>1, <2>3 DEF Slots
      <3>2. WellFormed(d, p) /\ \A s \in p + 1..p + d[p].more : d[s].tag \in {"stream", "name"}
        BY <2>3, <3>1, Zenon DEF Laid
      <3>3. d[p].more \in Nat /\ p + d[p].more \in Slots
        BY <3>1, <3>2, SetInFolder
      <3>4. p + 1 + d[p].more \in p + 1..n
        BY <1>1, <3>1, <3>3 DEF Slots
      <3>5. f[p] = {p} \cup F(p + 1 + d[p].more)
        BY <1>3, <1>4, <2>3, <3>2, <3>4
      <3>6. ASSUME NEW q \in FilesOf(d), q >= p, q # p PROVE q >= p + 1 + d[p].more
        <4>1. q \in Nat /\ d[q].tag = "file"
          BY DEF FilesOf, Slots
        <4>2. q \notin p + 1..p + d[p].more
          BY <3>2, <4>1
        <4> QED  BY <3>1, <3>3, <3>6, <4>1, <4>2
      <3>7. \A q \in FilesOf(d) : q >= p + 1 + d[p].more => q >= p
        BY <3>1, <3>3 DEF FilesOf, Slots
      <3>8. p \in FilesOf(d) /\ p >= p
        BY <2>3, <3>1 DEF FilesOf
      <3>9. F(p) = {p} \cup F(p + 1 + d[p].more)
        BY <3>6, <3>7, <3>8
      <3> QED  BY <3>5, <3>9
    <2>4. CASE ~ (p > LastSlot \/ d[p].tag = "end") /\ d[p].tag # "file"
      <3>1. ~ WellFormed(d, p)
        BY <2>4 DEF WellFormed
      <3>2. p + 1 \in p + 1..n
        BY <1>1, <2>4
      <3>3. f[p] = F(p + 1)
        BY <1>3, <1>4, <2>4, <3>1, <3>2
      <3>4. F(p + 1) = F(p)
        BY <2>4 DEF FilesOf, Slots
      <3> QED  BY <3>3, <3>4
    <2> QED  BY <2>1, <2>2, <2>3, <2>4
  <1>5. 1..n \subseteq G
    <2> HIDE DEF G, n
    <2> QED  BY <1>1, <1>4, Downwards
  <1>6. f[1] = F(1)
    BY <1>1, <1>5
  <1>7. F(1) = FilesOf(d)
    BY DEF FilesOf, Slots
  <1> QED  BY <1>2, <1>6, <1>7

LEMMA FilesAre ==
  ASSUME NEW d, Typed(d), Laid(d), Tidy(d)
  PROVE  Files(d) = {FileAt(d, p) : p \in FilesOf(d)}
  <1>1. Listing(d) = {Entry(d, p) : p \in FilesOf(d)}
    BY AllListed DEF Listing
  <1>2. \A p \in FilesOf(d) : Entry(d, p).stream = Stream(d, p)
    BY DEF Entry
  <1> QED  BY <1>1, <1>2 DEF Files, FileAt, NameAt

\* What a command made of the files it found, when it did its work.
DoneFiles ==
  (Files(op.slot) \ {OldFile}) \cup (IF op.kind = "delete" THEN {} ELSE {NewFile})

\* A command's new name is nobody else's, and its new slots are the first there are.
Chosen ==
  /\ op.kind # "delete" /\ ~ (op.kind = "import" /\ op.old # NoEntry) =>
       Named(op.slot, op.name) = {}
  /\ InNew => \A s \in FreeRuns(op.slot, SetLen(op.name), op.old.slots) : op.dest <= s

\* A name is read from the slots of its entry set.
LEMMA SameName ==
  ASSUME NEW d, Typed(d), NEW p \in Slots, WellFormed(d, p), NEW e,
         \A s \in p..p + d[p].more : e[s] = d[s]
  PROVE  Entry(e, p) = Entry(d, p)
  <1>1. /\ d[p].more \in Nat /\ d[p].more >= 2 /\ d[p + 1].parts \in Nat
        /\ d[p + 1].parts < d[p].more /\ p \in Nat
    BY SetInFolder DEF Slots
  <1>2. p \in p..p + d[p].more /\ p + 1 \in p..p + d[p].more
    BY <1>1
  <1>3. e[p] = d[p] /\ e[p + 1] = d[p + 1]
    BY <1>2
  <1>4. \A k \in 1..d[p + 1].parts : p + 1 + k \in p..p + d[p].more
    BY <1>1
  <1>5. [k \in 1..e[p + 1].parts |-> e[p + 1 + k].part]
          = [k \in 1..d[p + 1].parts |-> d[p + 1 + k].part]
    BY <1>3, <1>4
  <1>6. Stream(e, p) = Stream(d, p)
    BY <1>3 DEF Stream
  <1> QED  BY <1>3, <1>5, <1>6 DEF Entry

\* The new entry set carries the new name.
LEMMA NewName ==
  ASSUME Command, op.kind # "delete", NEW e,
         \A s \in Slots : s \in NewSlots => e[s] = NewSet[s - op.dest + 1]
  PROVE  /\ op.dest \in Slots /\ e[op.dest].tag = "file" /\ NameAt(e, op.dest) = op.name
         /\ Stream(e, op.dest) = KeptStream
  <1> DEFINE n == Len(op.name)
             p == op.dest
  <1>1. op.name \in Names
    BY DEF Command
  <1>2. n \in Nat \ {0} /\ op.name \in Seq(Range(op.name))
    BY <1>1, NameIs, FolderAssumption
  <1>3. PICK dir : NewSet = EntrySet(op.name, dir, KeptStream)
    BY DEF NewSet, KeptStream
  <1>4. /\ Len(NewSet) = SetLen(op.name) /\ NewSet[1] = FileSlot(op.name, dir)
        /\ NewSet[2] = StreamSlot(op.name, KeptStream)
        /\ \A k \in 1..Len(op.name) : NewSet[2 + k] = NameSlot(op.name[k])
    BY <1>1, <1>3, EntrySetIs
  <1>5. p \in Slots /\ p \in Nat /\ Len(NewSet) = 2 + n /\ p + Len(NewSet) - 1 \in Slots
    BY <1>4, NewIs DEF SetLen, Slots
  <1> HIDE DEF n
  <1>6. ASSUME NEW s \in p..p + 1 + n PROVE e[s] = NewSet[s - p + 1]
    <2>1. s \in NewSlots /\ s \in Slots
      BY <1>2, <1>5, FolderAssumption DEF NewSlots, Slots
    <2> QED  BY <2>1
  <1>7. e[p] = FileSlot(op.name, dir)
    <2>1. p \in p..p + 1 + n /\ p - p + 1 = 1
      BY <1>2, <1>5
    <2> QED  BY <1>4, <1>6, <2>1
  <1>8. e[p + 1] = StreamSlot(op.name, KeptStream)
    <2>1. p + 1 \in p..p + 1 + n /\ (p + 1) - p + 1 = 2
      BY <1>2, <1>5
    <2> QED  BY <1>4, <1>6, <2>1
  <1>9. ASSUME NEW k \in 1..n PROVE e[p + 1 + k].part = op.name[k]
    <2>1. p + 1 + k \in p..p + 1 + n /\ (p + 1 + k) - p + 1 = 2 + k
      BY <1>2, <1>5
    <2>2. e[p + 1 + k] = NameSlot(op.name[k])
      BY <1>4, <1>6, <2>1 DEF n
    <2> QED  BY <2>2 DEF NameSlot
  <1>10. e[p + 1].parts = n
    BY <1>8 DEF StreamSlot, n
  <1>11. op.name = [k \in 1..n |-> op.name[k]]
    BY <1>2, SeqIs DEF n
  <1>12. NameAt(e, p) = [k \in 1..e[p + 1].parts |-> e[p + 1 + k].part]
    BY DEF NameAt, Entry
  <1>13. [k \in 1..n |-> e[p + 1 + k].part] = [k \in 1..n |-> op.name[k]]
    BY <1>9
  <1>14. NameAt(e, p) = op.name
    BY <1>10, <1>11, <1>12, <1>13
  <1>15. e[p].tag = "file"
    BY <1>7 DEF FileSlot
  <1> QED  BY <1>5, <1>8, <1>14, <1>15, KeptIs

\* The files a command finds and does not touch.
LEMMA OthersStay ==
  ASSUME Command, Laid(op.slot), NEW e,
         \A s \in Slots : s \notin NewSlots /\ s \notin op.old.slots => e[s] = op.slot[s],
         NEW p \in Slots, op.slot[p].tag = "file", p # Gone
  PROVE  /\ p \notin NewSlots /\ e[p].tag = "file" /\ NameAt(e, p) = NameAt(op.slot, p)
         /\ Stream(e, p) = Stream(op.slot, p)
  <1>1. Typed(op.slot) /\ WellFormed(op.slot, p)
    BY DEF Command, Laid
  <1>2. \A s \in p..p + op.slot[p].more : s \notin NewSlots /\ e[s] = op.slot[s]
    BY OthersApart
  <1>3. Entry(e, p) = Entry(op.slot, p)
    BY <1>1, <1>2, SameName
  <1>4. Stream(e, p) = Stream(op.slot, p)
    BY <1>3 DEF Entry
  <1>5. p \in p..p + op.slot[p].more
    BY <1>1, SetInFolder DEF Slots
  <1> QED  BY <1>2, <1>3, <1>4, <1>5 DEF NameAt

\* An old file's name and contents are one file's.
LEMMA OldIsOne ==
  ASSUME Command, Tidy(op.slot)
  PROVE  \A p \in FilesOf(op.slot) : FileAt(op.slot, p) = OldFile <=> p = Gone
  <1>1. CASE op.old = NoEntry
    <2>1. OldFile = <<<<>>, 0>> /\ Gone = 0
      BY <1>1 DEF OldFile, NoEntry, NoStream, Gone
    <2>2. ASSUME NEW p \in FilesOf(op.slot) PROVE NameAt(op.slot, p) # <<>> /\ p # 0
      BY DEF Tidy, FilesOf, NameAt, Slots
    <2> QED  BY <2>1, <2>2 DEF FileAt
  <1>2. CASE op.old # NoEntry
    <2>1. /\ OldHead \in Slots /\ WellFormed(op.slot, OldHead) /\ Gone = OldHead
          /\ op.old = Entry(op.slot, OldHead) /\ op.old.stream = Stream(op.slot, OldHead)
      BY <1>2, OldIs DEF Gone
    <2>2. OldFile = FileAt(op.slot, OldHead) /\ op.slot[OldHead].tag = "file"
      BY <2>1 DEF OldFile, FileAt, NameAt, WellFormed
    <2>3. ASSUME NEW p \in FilesOf(op.slot), p # OldHead
          PROVE  NameAt(op.slot, p) # NameAt(op.slot, OldHead)
      BY <2>1, <2>2, <2>3 DEF Tidy, FilesOf, NameAt
    <2> QED  BY <2>1, <2>2, <2>3 DEF FileAt
  <1> QED  BY <1>1, <1>2

\* Nobody else has the new name.
LEMMA NewIsOne ==
  ASSUME Command, Chosen, Laid(op.slot), Tidy(op.slot), op.kind # "delete",
         NEW p \in FilesOf(op.slot), p # Gone
  PROVE  NameAt(op.slot, p) # op.name
  <1>1. Typed(op.slot)
    BY DEF Command
  <1>2. CASE op.kind = "import" /\ op.old # NoEntry
    <2>1. op.old.name = op.name /\ Gone = OldHead
      BY <1>2 DEF Command, Gone
    <2>2. op.old = Entry(op.slot, OldHead) /\ OldHead \in Slots /\ WellFormed(op.slot, OldHead)
      BY <1>2, OldIs
    <2>3. op.slot[OldHead].tag = "file"
      BY <2>2 DEF WellFormed
    <2> QED  BY <2>1, <2>2, <2>3 DEF Tidy, FilesOf, NameAt
  <1>3. CASE ~ (op.kind = "import" /\ op.old # NoEntry)
    <2>1. Named(op.slot, op.name) = {}
      BY <1>3 DEF Chosen
    <2>2. Entry(op.slot, p) \in Listing(op.slot)
      BY <1>1, AllListed DEF Listing
    <2> QED  BY <2>1, <2>2 DEF Named, NameAt
  <1> QED  BY <1>2, <1>3

LEMMA NewFileIs ==
  ASSUME Command, op.kind # "delete"
  PROVE  NewFile = <<op.name, KeptStream.ver>>
BY DEF NewFile, KeptStream, NewStream

NoNewEnds(e) == \A s \in Slots : e[s].tag = "end" => op.slot[s].tag = "end"

LEMMA OldInUse ==
  ASSUME Command, Laid(op.slot), NEW s \in op.old.slots
  PROVE  op.slot[s].tag \in {"file", "stream", "name"}
  <1>1. op.old # NoEntry
    BY DEF NoEntry
  <1>2. /\ OldHead \in Slots /\ WellFormed(op.slot, OldHead) /\ op.slot[OldHead].more \in Nat
        /\ op.old.slots = OldHead..OldHead + op.slot[OldHead].more
    BY <1>1, OldIs
  <1>3. op.slot[OldHead].tag = "file"
    BY <1>2 DEF WellFormed
  <1>4. \A i \in OldHead + 1..OldHead + op.slot[OldHead].more :
          op.slot[i].tag \in {"stream", "name"}
    BY <1>2, <1>3, Zenon DEF Laid
  <1>5. s = OldHead \/ s \in OldHead + 1..OldHead + op.slot[OldHead].more
    BY <1>2 DEF Slots
  <1> QED  BY <1>3, <1>4, <1>5

LEMMA NewNoEnd ==
  ASSUME Command, NEW i \in 1..Len(NewSet)
  PROVE  NewSet[i].tag # "end"
  <1>1. CASE op.kind = "delete"
    BY <1>1, NewSetIs DEF Cleared
  <1>2. CASE op.kind # "delete"
    <2>1. Len(NewSet) \in Nat /\ (i = 1 \/ i = 2 \/ i \in 3..Len(NewSet))
      BY NewIs
    <2> QED  BY <1>2, <2>1, NewSetIs DEF StreamSlot
  <1> QED  BY <1>1, <1>2

\* The folder still ends where it did, or further on.
LEMMA EndsOn ==
  ASSUME Command, Chosen, Laid(op.slot), Tidy(op.slot), NEW e, NoNewEnds(e),
         \A i \in Slots : i \in NewSlots => e[i] = NewSet[i - op.dest + 1],
         \A i \in Slots : i \notin NewSlots /\ i \notin op.old.slots => e[i] = op.slot[i],
         NEW s \in Slots, NEW t \in Slots, e[s].tag = "end", s < t
  PROVE  e[t].tag = "end"
  <1>1. /\ op.dest \in Nat /\ Len(NewSet) \in Nat /\ Len(NewSet) >= 3 /\ s \in Nat /\ t \in Nat
        /\ op.dest + Len(NewSet) - 1 \in Slots /\ op.dest \in Slots
    BY NewIs DEF Slots
  <1>2. op.slot[s].tag = "end" /\ \A i \in Slots : s < i => op.slot[i].tag = "end"
    BY DEF NoNewEnds, Tidy
  <1>3. \A i \in op.old.slots : op.slot[i].tag # "end"
    BY OldInUse
  <1>4. s \notin NewSlots
    <2> SUFFICES ASSUME s \in NewSlots PROVE FALSE
      OBVIOUS
    <2>1. s - op.dest + 1 \in 1..Len(NewSet) /\ e[s] = NewSet[s - op.dest + 1]
      BY <1>1 DEF NewSlots
    <2> QED  BY <2>1, NewNoEnd
  <1>5. t \notin NewSlots
    <2> SUFFICES ASSUME t \in NewSlots PROVE FALSE
      OBVIOUS
    <2>1. CASE ~ InNew
      <3>1. op.old # NoEntry /\ op.dest = OldHead /\ op.dest + Len(NewSet) - 1 \in op.old.slots
        BY <2>1, NewIs DEF InNew
      <3>2. /\ OldHead \in Slots /\ op.slot[OldHead].more \in Nat
            /\ op.old.slots = OldHead..OldHead + op.slot[OldHead].more
        BY <3>1, OldIs
      <3>3. t \in op.old.slots
        BY <1>1, <3>1, <3>2 DEF NewSlots, Slots
      <3> QED  BY <1>2, <1>3, <3>3
    <2>2. CASE InNew
      <3>1. op.kind # "delete"
        BY <2>2 DEF InNew, Command
      <3>2. Len(NewSet) = SetLen(op.name)
        BY <3>1, NewIs
      <3>3. s < op.dest
        BY <1>1, <1>4 DEF NewSlots
      <3>4. ASSUME NEW i \in s..s + Len(NewSet) - 1
            PROVE  i \in Slots \ op.old.slots /\ Unused(op.slot[i])
        <4>1. i \in Slots
          BY <1>1, <3>3, FolderAssumption DEF Slots
        <4>2. i = s \/ s < i
          BY <1>1
        <4>3. op.slot[i].tag = "end"
          BY <1>2, <4>1, <4>2
        <4> QED  BY <1>3, <4>1, <4>3 DEF Unused
      <3>5. s \in FreeRuns(op.slot, SetLen(op.name), op.old.slots)
        BY <3>2, <3>4 DEF FreeRuns
      <3>6. op.dest <= s
        BY <2>2, <3>5 DEF Chosen
      <3> QED  BY <1>1, <3>3, <3>6
    <2> QED  BY <2>1, <2>2
  <1>6. e[t] = op.slot[t]
    BY <1>2, <1>3, <1>5
  <1> QED  BY <1>2, <1>6

\* A command that did its work leaves a tidy folder, of the files it was to leave.
LEMMA ReplacedIsDone ==
  ASSUME Command, Chosen, Laid(op.slot), Tidy(op.slot), NEW e, Typed(e), Replaced(e), NoNewEnds(e)
  PROVE  Laid(e) /\ Tidy(e) /\ Files(e) = DoneFiles
  <1> DEFINE d == op.slot
             Kept1 == FilesOf(d) \ {Gone}
             q == op.dest
  <1>1. Laid(e)
    BY ReplacedFiles DEF Laid
  <1>2. \A s \in Slots : s \notin NewSlots /\ s \notin op.old.slots => e[s] = op.slot[s]
    BY DEF Replaced
  <1>3. ASSUME NEW p \in Kept1
        PROVE  /\ p \notin NewSlots /\ p \in FilesOf(e) /\ NameAt(e, p) = NameAt(d, p)
               /\ FileAt(e, p) = FileAt(d, p)
    BY <1>2, OthersStay DEF FilesOf, FileAt
  <1>4. ASSUME op.kind # "delete"
        PROVE  q \in FilesOf(e) /\ NameAt(e, q) = op.name /\ FileAt(e, q) = NewFile
    <2>1. /\ q \in Slots /\ e[q].tag = "file" /\ NameAt(e, q) = op.name
          /\ Stream(e, q) = KeptStream
      BY <1>4, NewName DEF Replaced
    <2> QED  BY <1>4, <2>1, NewFileIs DEF FilesOf, FileAt
  <1>5. FilesOf(e) = Kept1 \cup (IF op.kind = "delete" THEN {} ELSE {q})
    <2>1. ASSUME NEW p \in FilesOf(e) PROVE p \in Kept1 \/ (op.kind # "delete" /\ p = q)
      BY ReplacedFiles DEF FilesOf
    <2> QED  BY <1>3, <1>4, <2>1
  <1>6. ASSUME op.kind # "delete", NEW p \in Kept1 PROVE NameAt(d, p) # op.name
    BY <1>6, NewIsOne
  <1>7. ASSUME NEW p \in FilesOf(e)
        PROVE  /\ NameAt(e, p) # <<>>
               /\ \A r \in FilesOf(e) \ {p} : NameAt(e, r) # NameAt(e, p)
    <2>1. \A a \in Kept1 : NameAt(d, a) # <<>> /\ \A b \in Kept1 \ {a} : NameAt(d, a) # NameAt(d, b)
      BY DEF Tidy, FilesOf, NameAt
    <2>2. op.kind # "delete" => op.name # <<>>
      BY FolderAssumption DEF Command
    <2> HIDE DEF Kept1, q
    <2> QED  BY <1>3, <1>4, <1>5, <1>6, <2>1, <2>2
  <1>8. Tidy(e)
    <2>1. \A s, t \in Slots : e[s].tag = "end" /\ s < t => e[t].tag = "end"
      <3>1. \A i \in Slots : i \in NewSlots => e[i] = NewSet[i - op.dest + 1]
        BY DEF Replaced
      <3> QED  BY <1>2, <3>1, EndsOn
    <2> QED  BY <1>7, <2>1 DEF Tidy, FilesOf, NameAt
  <1>9. Files(e) = DoneFiles
    <2>1. Files(e) = {FileAt(e, p) : p \in FilesOf(e)} /\ Files(d) = {FileAt(d, p) : p \in FilesOf(d)}
      BY <1>1, <1>8, FilesAre DEF Command
    <2>2. \A p \in FilesOf(d) : FileAt(d, p) = OldFile <=> p = Gone
      BY OldIsOne
    <2>3. Files(d) \ {OldFile} = {FileAt(d, p) : p \in Kept1}
      BY <2>1, <2>2
    <2> HIDE DEF Kept1, q, d
    <2>4. CASE op.kind = "delete"
      BY <1>3, <1>5, <2>1, <2>3, <2>4 DEF DoneFiles, d
    <2>5. CASE op.kind # "delete"
      <3>1. {FileAt(e, p) : p \in FilesOf(e)} = {FileAt(d, p) : p \in Kept1} \cup {NewFile}
        BY <1>3, <1>4, <1>5, <2>5
      <3> QED  BY <2>1, <2>3, <2>5, <3>1 DEF DoneFiles, d
    <2> QED  BY <2>4, <2>5
  <1> QED  BY <1>1, <1>8, <1>9

\* A rename that wrote the longer name and could not clear the old one.
LEMMA BothAreListed ==
  ASSUME Command, Chosen, Laid(op.slot), Tidy(op.slot), op.kind = "rename", InNew
  PROVE  Files(Changed) = Files(op.slot) \cup {NewFile}
  <1> DEFINE d == op.slot
             e == Changed
             q == op.dest
  <1>1. /\ \A s \in Slots : s \in NewSlots => e[s] = NewSet[s - op.dest + 1]
        /\ \A s \in Slots : s \notin NewSlots => e[s] = d[s]
        /\ Typed(e) /\ Typed(d)
    BY ChangedTyped DEF Changed, With, NewSlots, Command
  <1>2. \A s \in NewSlots : Unused(d[s])
    <2>1. Len(NewSet) = SetLen(op.name)
      BY NewIs
    <2> QED  BY <2>1 DEF Command, NewSlots
  <1>3. op.old # NoEntry /\ Named(d, op.name) = {}
    BY DEF Command, Chosen
  <1> HIDE DEF e
  <1>4. ASSUME NEW p \in FilesOf(d)
        PROVE  /\ WellFormed(d, p) /\ Entry(e, p) = Entry(d, p)
               /\ \A s \in p..p + d[p].more : s \notin NewSlots /\ e[s] = d[s]
    <2>1. /\ p \in Slots /\ p \in Nat /\ d[p].tag = "file" /\ WellFormed(d, p)
          /\ \A s \in p + 1..p + d[p].more : d[s].tag \in {"stream", "name"}
      <3>1. p \in Slots /\ p \in Nat /\ d[p].tag = "file"
        BY DEF FilesOf, Slots
      <3> QED  BY <3>1, Zenon DEF Laid
    <2>2. d[p].more \in Nat /\ p + d[p].more \in Slots
      BY <1>1, <2>1, SetInFolder
    <2>3. ASSUME NEW s \in p..p + d[p].more PROVE s \notin NewSlots /\ e[s] = d[s]
      <3>1. s \in Slots
        BY <2>1, <2>2, FolderAssumption DEF Slots
      <3>2. s = p \/ s \in p + 1..p + d[p].more
        BY <2>1, <2>2
      <3>3. ~ Unused(d[s])
        BY <2>1, <3>2 DEF Unused
      <3> QED  BY <1>1, <1>2, <3>1, <3>3
    <2> QED  BY <1>1, <2>1, <2>3, SameName
  <1>5. ASSUME NEW p \in FilesOf(d)
        PROVE  /\ p \notin NewSlots /\ p \in FilesOf(e) /\ FileAt(e, p) = FileAt(d, p)
               /\ NameAt(e, p) = NameAt(d, p) /\ NameAt(d, p) # op.name
    <2>1. p \in Slots /\ p \in p..p + d[p].more
      BY <1>1, <1>4, SetInFolder DEF FilesOf, Slots
    <2>2. Stream(e, p) = Stream(d, p)
      BY <1>4 DEF Entry
    <2>3. e[p] = d[p] /\ p \notin NewSlots
      BY <1>4, <2>1
    <2>4. Entry(d, p) \in Listing(d)
      BY <1>1, AllListed DEF Listing
    <2>5. NameAt(d, p) # op.name
      BY <1>3, <2>4 DEF Named, NameAt
    <2>6. FileAt(e, p) = FileAt(d, p) /\ NameAt(e, p) = NameAt(d, p)
      BY <1>4, <2>2 DEF FileAt, NameAt
    <2>7. p \in FilesOf(e)
      BY <2>1, <2>3 DEF FilesOf
    <2> QED  BY <2>3, <2>5, <2>6, <2>7
  <1>6. /\ q \in FilesOf(e) /\ NameAt(e, q) = op.name /\ FileAt(e, q) = NewFile
    <2>1. q \in Slots /\ e[q].tag = "file" /\ NameAt(e, q) = op.name
          /\ Stream(e, q) = KeptStream
      BY <1>1, NewName
    <2> QED  BY <2>1, NewFileIs DEF FilesOf, FileAt
  <1>7. ASSUME NEW p \in FilesOf(e)
        PROVE  /\ p \in FilesOf(d) \/ p = q
               /\ WellFormed(e, p)
               /\ \A s \in p + 1..p + e[p].more : e[s].tag \in {"stream", "name"}
    <2>1. p \in Slots /\ e[p].tag = "file"
      BY DEF FilesOf
    <2>2. CASE p \in NewSlots
      BY <1>1, <2>1, <2>2, NewSetLaid
    <2>3. CASE p \notin NewSlots
      <3>1. e[p] = d[p] /\ p \in FilesOf(d)
        BY <1>1, <2>1, <2>3 DEF FilesOf
      <3>2. Laid(d) /\ d[p].tag = "file"
        BY <2>1, <3>1
      <3>3. /\ WellFormed(d, p) /\ d[p].more \in Nat /\ p \in Nat
            /\ \A s \in p + 1..p + d[p].more : d[s].tag \in {"stream", "name"}
        <4>1. WellFormed(d, p) /\ \A s \in p + 1..p + d[p].more : d[s].tag \in {"stream", "name"}
          BY <2>1, <3>2, Zenon DEF Laid
        <4> QED  BY <1>1, <2>1, <4>1, SetInFolder DEF Slots
      <3>4. \A s \in p..p + d[p].more : e[s] = d[s]
        BY <1>4, <3>1
      <3>5. \A s \in p + 1..p + e[p].more : e[s].tag \in {"stream", "name"}
        <4> SUFFICES ASSUME NEW s \in p + 1..p + d[p].more PROVE e[s].tag \in {"stream", "name"}
          BY <3>1
        <4>1. s \in p..p + d[p].more
          BY <3>3
        <4> QED  BY <3>3, <3>4, <4>1
      <3>6. WellFormed(e, p)
        <4>1. /\ d[p].more >= 2 /\ d[p + 1].parts \in Nat /\ d[p + 1].parts < d[p].more
          BY <1>1, <2>1, <3>3, SetInFolder
        <4>2. e[p + 1] = d[p + 1]
          <5>1. p + 1 \in p..p + d[p].more
            BY <3>3, <4>1
          <5> QED  BY <3>4, <5>1
        <4>3. ASSUME NEW k \in 1..e[p + 1].parts PROVE e[p + 1 + k].tag = "name"
          <5>1. p + 1 + k \in p..p + d[p].more /\ k \in 1..d[p + 1].parts
            BY <3>3, <4>1, <4>2
          <5>2. d[p + 1 + k].tag = "name"
            BY <3>3, <5>1 DEF WellFormed
          <5> QED  BY <3>4, <5>1, <5>2
        <4> QED  BY <3>1, <3>3, <4>2, <4>3 DEF WellFormed
      <3> QED  BY <3>1, <3>5, <3>6
    <2> QED  BY <2>2, <2>3
  <1>8. Laid(e)
    BY <1>7 DEF Laid, FilesOf
  <1>9. NoNewEnds(e)
    <2> SUFFICES ASSUME NEW s \in Slots, e[s].tag = "end" PROVE d[s].tag = "end"
      BY DEF NoNewEnds
    <2>1. s \notin NewSlots
      <3> SUFFICES ASSUME s \in NewSlots PROVE FALSE
        OBVIOUS
      <3>1. s - op.dest + 1 \in 1..Len(NewSet) /\ e[s] = NewSet[s - op.dest + 1]
        BY <1>1, NewIs DEF NewSlots, Slots
      <3> QED  BY <3>1, NewNoEnd
    <2> QED  BY <1>1, <2>1
  <1>10. Tidy(e)
    <2>1. \A s, t \in Slots : e[s].tag = "end" /\ s < t => e[t].tag = "end"
      BY <1>1, <1>9, EndsOn
    <2>2. \A a \in FilesOf(d) : NameAt(d, a) # <<>>
            /\ \A b \in FilesOf(d) \ {a} : NameAt(d, a) # NameAt(d, b)
      BY DEF Tidy, FilesOf, NameAt
    <2>3. op.name # <<>>
      BY FolderAssumption DEF Command
    <2>4. ASSUME NEW p \in FilesOf(e)
          PROVE  /\ NameAt(e, p) # <<>>
                 /\ \A r \in FilesOf(e) \ {p} : NameAt(e, r) # NameAt(e, p)
      <3> HIDE DEF d, q
      <3> QED  BY <1>5, <1>6, <1>7, <2>2, <2>3
    <2> QED  BY <2>1, <2>4 DEF Tidy, FilesOf, NameAt
  <1>11. Files(e) = {FileAt(e, p) : p \in FilesOf(e)} /\ Files(d) = {FileAt(d, p) : p \in FilesOf(d)}
    BY <1>1, <1>8, <1>10, FilesAre
  <1>12. FilesOf(e) = FilesOf(d) \cup {q}
    BY <1>5, <1>6, <1>7
  <1>13. Files(e) = Files(d) \cup {NewFile}
    <2> HIDE DEF d, q
    <2> QED  BY <1>5, <1>6, <1>11, <1>12
  <1> QED  BY <1>13 DEF e

LEMMA ChangedEnds ==
  ASSUME Command
  PROVE  NoNewEnds(Changed)
  <1> SUFFICES ASSUME NEW s \in Slots, Changed[s].tag = "end" PROVE op.slot[s].tag = "end"
    BY DEF NoNewEnds
  <1>1. Changed[s] = IF s \in NewSlots THEN NewSet[s - op.dest + 1] ELSE op.slot[s]
    BY DEF Changed, With, NewSlots
  <1>2. s \notin NewSlots
    <2> SUFFICES ASSUME s \in NewSlots PROVE FALSE
      OBVIOUS
    <2>1. s - op.dest + 1 \in 1..Len(NewSet) /\ Changed[s] = NewSet[s - op.dest + 1]
      BY <1>1, NewIs DEF NewSlots, Slots
    <2> QED  BY <2>1, NewNoEnd
  <1> QED  BY <1>1, <1>2

LEMMA ClearedEnds ==
  ASSUME Command, Stages, at = "clear"
  PROVE  NoNewEnds(With(Changed, PutFirst, PutVals))
  <1> DEFINE e == With(Changed, PutFirst, PutVals)
  <1> SUFFICES ASSUME NEW s \in Slots, e[s].tag = "end" PROVE op.slot[s].tag = "end"
    BY DEF NoNewEnds
  <1>1. /\ \A i \in 1..Len(PutVals) : PutVals[i] = Cleared
        /\ Len(PutVals) \in Nat /\ PutFirst \in Nat
    BY ClearIs
  <1>2. e[s] = IF s \in PutSlots THEN PutVals[s - PutFirst + 1] ELSE Changed[s]
    BY DEF With, PutSlots
  <1>3. s \in PutSlots => s - PutFirst + 1 \in 1..Len(PutVals)
    BY <1>1 DEF PutSlots, Slots
  <1>4. s \notin PutSlots
    BY <1>1, <1>2, <1>3 DEF Cleared
  <1> QED  BY <1>2, <1>4, ChangedEnds DEF NoNewEnds

\* What the reports allow.
LEMMA OutcomeIs ==
  /\ DoneFiles \in Outcome("ok") /\ DoneFiles \in Outcome("not freed")
  /\ op.kind = "rename" => DoneFiles \in Outcome("error")
  /\ Files(op.slot) \in Outcome("error")
  /\ Files(op.slot) \cup {NewFile} \in Outcome("two names")
BY DEF Outcome, DoneFiles

LEMMA OutcomeSame ==
  ASSUME op' = op, NEW r, result' = r
  PROVE  (Outcome(result))' = Outcome(r)
BY DEF Outcome, OldFile, NewFile

ToldHolds ==
  /\ at # "idle" => Chosen
  /\ ~ torn => /\ at # "idle" => Laid(op.slot) /\ Tidy(op.slot)
               /\ at = "idle" /\ ~ Warned => Laid(slot) /\ Tidy(slot)
               /\ at = "idle" /\ ops > 0 => Files(slot) \in Outcome(result)

LEMMA ToldGoes ==
  ASSUME ToldHolds, at # "idle", at' # "idle", op' = op, ~ torn' => ~ torn
  PROVE  ToldHolds'
  <1>1. Chosen'
    <2>1. InNew' = InNew
      BY CommandSame
    <2> QED  BY <2>1 DEF ToldHolds, Chosen
  <1> QED  BY <1>1 DEF ToldHolds

LEMMA ToldEnds ==
  ASSUME at' = "idle", op' = op, NEW r, result' = r,
         ~ torn' => /\ Files(slot') \in Outcome(r)
                    /\ r \notin {"damaged", "two names"} => Laid(slot') /\ Tidy(slot')
  PROVE  ToldHolds'
  <1>1. (Outcome(result))' = Outcome(r)
    BY OutcomeSame
  <1>2. Warned' <=> r \in {"damaged", "two names"}
    BY DEF Warned
  <1> QED  BY <1>1, <1>2 DEF ToldHolds

\* A command that leaves the folder as it found it.
LEMMA ToldFound ==
  ASSUME ToldHolds, at # "idle", at' = "idle", op' = op, result' = "error",
         ~ torn' => ~ torn /\ slot' = op.slot
  PROVE  ToldHolds'
  <1>1. ASSUME ~ torn'
        PROVE  Files(slot') \in Outcome("error") /\ Laid(slot') /\ Tidy(slot')
    BY <1>1, OutcomeIs DEF ToldHolds
  <1> QED  BY <1>1, ToldEnds

\* A command that did its work.
LEMMA ToldDone ==
  ASSUME FolderHolds, ToldHolds, at # "idle", at' = "idle", op' = op, slot' = slot,
         NEW r \in {"ok", "not freed", "error"}, result' = r, r = "error" => op.kind = "rename",
         ~ torn' => ~ torn /\ Replaced(slot) /\ NoNewEnds(slot)
  PROVE  ToldHolds'
  <1>1. ASSUME ~ torn' PROVE Files(slot') \in Outcome(r) /\ Laid(slot') /\ Tidy(slot')
    <2>1. Laid(slot) /\ Tidy(slot) /\ Files(slot) = DoneFiles
      <3>1. Command /\ Chosen /\ Laid(op.slot) /\ Tidy(op.slot) /\ Typed(slot)
        BY <1>1, FolderTyped DEF FolderHolds, ToldHolds
      <3> QED  BY <1>1, <3>1, ReplacedIsDone
    <2>2. DoneFiles \in Outcome(r)
      BY OutcomeIs
    <2> QED  BY <2>1, <2>2
  <1> QED  BY <1>1, ToldEnds

LEMMA ToldCreates ==
  ASSUME FolderHolds, ToldHolds, Created \/ OldNameCleared
  PROVE  ToldHolds'
  <1>1. /\ at # "idle" /\ at' = "idle" /\ UNCHANGED <<slot, torn, op>> /\ Putting /\ result' = "ok"
        /\ (Put("put") /\ op.old = NoEntry) \/ (Put("clear") /\ at = "clear")
    BY DEF Created, OldNameCleared, Done, card, Putting, Put
  <1>2. Command /\ Stages /\ (torn' <=> torn)
    BY <1>1 DEF FolderHolds
  <1>3. Replaced(slot) /\ NoNewEnds(slot)
    <2>1. CASE Put("put") /\ op.old = NoEntry
      <3>1. slot = Changed
        BY <1>1, <2>1, PutDone
      <3> QED  BY <1>2, <2>1, <3>1, ChangedReplaces, ChangedEnds
    <2>2. CASE Put("clear") /\ at = "clear"
      <3>1. slot = With(Changed, PutFirst, PutVals)
        BY <1>1, <2>2, PutDone
      <3> QED  BY <1>2, <2>2, <3>1, ClearedReplaces, ClearedEnds
    <2> QED  BY <1>1, <2>1, <2>2
  <1>4. op' = op /\ slot' = slot
    BY <1>1
  <1> QED  BY <1>1, <1>2, <1>3, <1>4, ToldDone

LEMMA ToldFails ==
  ASSUME FolderHolds, ToldHolds, EntryWriteFailed
  PROVE  ToldHolds'
  <1>1. /\ at = "put" /\ failed /\ before = <<>> /\ at' = "idle" /\ Putting
        /\ UNCHANGED <<slot, op>> /\ torn' = (torn \/ ~ restored) /\ result' = "error"
    BY DEF EntryWriteFailed, PutBack, Done, card, Putting
  <1>2. restored => slot = op.slot
    BY <1>1, PutDone
  <1>3. ~ torn' => ~ torn /\ slot' = op.slot
    BY <1>1, <1>2
  <1> QED  BY <1>1, <1>3, ToldFound

LEMMA ToldStaysNamed ==
  ASSUME FolderHolds, ToldHolds, OldNameStays
  PROVE  ToldHolds'
  <1>1. /\ at = "clear" /\ failed /\ before = <<>> /\ Putting /\ op' = op /\ slot' = slot
        /\ torn' = (torn \/ ~ restored)
        /\ ~ Grown => at' = "idle" /\ result' = "error"
        /\ Grown => at' # "idle"
    BY DEF OldNameStays, PutBack, Done, StartPut, card, Putting
  <1>2. Command /\ Stages /\ op.kind = "rename"
    BY <1>1 DEF FolderHolds, Stages
  <1>3. ~ torn' => ~ torn /\ restored
    BY <1>1
  <1>4. CASE Grown
    BY <1>1, <1>3, <1>4, ToldGoes
  <1>5. CASE ~ Grown
    <2>1. ~ torn' => Replaced(slot) /\ NoNewEnds(slot)
      <3>1. restored => slot = Changed
        BY <1>1, PutDone
      <3>2. ~ InNew \/ op.old = NoEntry
        BY <1>2, <1>5 DEF InNew
      <3> QED  BY <1>2, <1>3, <3>1, <3>2, ChangedReplaces, ChangedEnds
    <2>2. at # "idle" /\ at' = "idle" /\ result' = "error"
      BY <1>1, <1>5
    <2> QED  BY <1>1, <1>2, <1>3, <2>1, <2>2, ToldDone
  <1> QED  BY <1>4, <1>5

LEMMA ToldTakenBack ==
  ASSUME FolderHolds, ToldHolds, NewNameTakenBack
  PROVE  ToldHolds'
  <1>1. Putting /\ at # "idle" /\ at' = "idle" /\ op' = op /\ slot' = slot
    BY DEF NewNameTakenBack, Put, PutBack, Done, card, Putting
  <1>2. CASE Put("take back") /\ Done("error") /\ UNCHANGED torn
    <2>1. (torn' <=> torn) /\ Command /\ Stages /\ result' = "error"
      BY <1>1, <1>2 DEF FolderHolds, Done
    <2>2. ~ torn => slot = op.slot
      <3>1. With(Changed, PutFirst, PutVals) = op.slot
        BY <1>2, <2>1, TakeBackIs DEF Put
      <3> QED  BY <1>1, <1>2, <3>1, PutDone
    <2>3. ~ torn' => ~ torn /\ slot' = op.slot
      BY <1>1, <2>1, <2>2
    <2> QED  BY <1>1, <2>1, <2>3, ToldFound
  <1>3. CASE PutBack("take back") /\ Done("two names")
    <2> DEFINE r == "two names"
    <2>1. (~ torn' => ~ torn /\ restored) /\ result' = r
      BY <1>3 DEF PutBack, Done
    <2>2. op.kind = "rename" /\ Grown
      <3>1. Stages
        BY DEF FolderHolds
      <3> QED  BY <1>3, <3>1 DEF PutBack, Stages
    <2>3. ASSUME ~ torn' PROVE Files(slot') \in Outcome(r)
      <3>1. Command /\ Chosen /\ Laid(op.slot) /\ Tidy(op.slot)
        BY <1>1, <2>1, <2>3 DEF FolderHolds, ToldHolds
      <3>2. slot = Changed
        BY <1>1, <1>3, <2>1, <2>3, PutDone
      <3>3. InNew
        BY <2>2 DEF InNew
      <3>4. Files(Changed) = Files(op.slot) \cup {NewFile}
        BY <2>2, <3>1, <3>3, BothAreListed
      <3>5. Files(op.slot) \cup {NewFile} \in Outcome(r)
        BY OutcomeIs
      <3> HIDE DEF r
      <3> QED  BY <1>1, <3>2, <3>4, <3>5
    <2>4. r \in {"damaged", "two names"}
      OBVIOUS
    <2> HIDE DEF r
    <2> QED  BY <1>1, <2>1, <2>3, <2>4, ToldEnds
  <1> QED  BY <1>2, <1>3 DEF NewNameTakenBack

LEMMA ToldFreed ==
  ASSUME FolderHolds, ToldHolds, NEW o \in Outcomes, Freed(o)
  PROVE  ToldHolds'
  <1> DEFINE r == IF o = "ok" /\ result = "none" THEN "ok" ELSE "not freed"
  <1>1. at = "free" /\ at' = "idle" /\ UNCHANGED <<slot, op, torn>> /\ result' = r
    BY DEF Freed, Done, SyncBitmap
  <1>2. r \in {"ok", "not freed", "error"} /\ r # "error"
    OBVIOUS
  <1>3. (torn' <=> torn) /\ op' = op /\ slot' = slot
    BY <1>1
  <1>4. Command /\ slot = Changed /\ op.kind # "rename" /\ op.old # NoEntry
    BY <1>1 DEF FolderHolds, FolderNow, Stages
  <1>5. ~ InNew
    BY <1>4 DEF InNew
  <1>6. Replaced(slot) /\ NoNewEnds(slot)
    BY <1>4, <1>5, ChangedReplaces, ChangedEnds
  <1> HIDE DEF r
  <1> QED  BY <1>1, <1>2, <1>3, <1>6, ToldDone

LEMMA ToldReleases ==
  ASSUME FolderHolds, ToldHolds, NEW o \in Outcomes, Released(o) \/ Kept(o)
  PROVE  ToldHolds'
  <1>1. /\ at # "idle" /\ at' = "idle" /\ UNCHANGED <<slot, op, torn>>
        /\ (at = "release" /\ result' = "error") \/ (at = "keep" /\ result' = "damaged")
    BY DEF Released, Kept, Done, SyncBitmap
  <1>2. torn' <=> torn
    BY <1>1
  <1>3. CASE at = "release" /\ result' = "error"
    <2>1. slot' = op.slot
      BY <1>1, <1>3 DEF FolderHolds, FolderNow
    <2> QED  BY <1>1, <1>2, <1>3, <2>1, ToldFound
  <1>4. CASE at = "keep" /\ result' = "damaged"
    <2>1. torn'
      BY <1>2, <1>4 DEF FolderHolds, FolderNow
    <2> QED  BY <1>1, <1>4, <2>1, ToldEnds
  <1> QED  BY <1>1, <1>3, <1>4

LEMMA ToldUndoes ==
  ASSUME FolderHolds, ToldHolds, Undo
  PROVE  ToldHolds'
  <1>1. /\ at = "undo" /\ UNCHANGED <<slot, op, torn>>
        /\ (at' = "idle" /\ result' = "error") \/ at' = "release"
    BY DEF Undo, card, Done
  <1>2. (torn' <=> torn) /\ op' = op
    BY <1>1
  <1>3. slot' = op.slot
    BY <1>1 DEF FolderHolds, FolderNow
  <1>4. CASE at' = "idle" /\ result' = "error"
    BY <1>1, <1>2, <1>3, <1>4, ToldFound
  <1>5. CASE at' = "release"
    BY <1>1, <1>2, <1>5, ToldGoes
  <1> QED  BY <1>1, <1>4, <1>5

LEMMA MountChosen ==
  ASSUME NEW kind, NEW name, NEW old, NEW dest, NEW n, Mount(kind, name, old, dest, n),
         kind # "delete" /\ ~ (kind = "import" /\ old # NoEntry) => Named(slot, name) = {},
         old = NoEntry \/ (kind = "rename" /\ SetLen(name) > Cardinality(old.slots)) =>
           /\ FreeRuns(slot, SetLen(name), old.slots) # {}
           /\ dest = Min(FreeRuns(slot, SetLen(name), old.slots))
  PROVE  Chosen' /\ op'.slot = slot /\ torn' = torn
  <1>1. /\ op'.slot = slot /\ op'.kind = kind /\ op'.name = name
        /\ op'.old = old /\ op'.dest = dest /\ torn' = torn
    BY DEF Mount
  <1>2. InNew' <=> old = NoEntry \/ (kind = "rename" /\ SetLen(name) > Cardinality(old.slots))
    BY <1>1 DEF InNew, Grown
  <1>3. ASSUME InNew', NEW s \in FreeRuns(slot, SetLen(name), old.slots) PROVE dest <= s
    <2> DEFINE I == FreeRuns(slot, SetLen(name), old.slots)
    <2>1. I \subseteq Nat /\ I # {} /\ dest = Min(I) /\ s \in I
      BY <1>2, <1>3 DEF FreeRuns, Slots
    <2> HIDE DEF I
    <2> QED  BY <2>1, LeastIs
  <1>4. Chosen'
    BY <1>1, <1>3 DEF Chosen
  <1> QED  BY <1>1, <1>4

LEMMA ToldBegins ==
  ASSUME FolderHolds, ToldHolds, Begin
  PROVE  ToldHolds'
  <1>1. at = "idle" /\ ~ Warned /\ Typed(slot)
    BY FolderTyped DEF Begin
  <1>2. NoEntry.slots = {}
    BY DEF NoEntry
  <1>3. ASSUME at' # "idle", Chosen', op'.slot = slot, torn' = torn PROVE ToldHolds'
    <2>1. torn' <=> torn
      BY <1>3
    <2> QED  BY <1>1, <1>3, <2>1 DEF ToldHolds
  <1>4. ASSUME NEW name \in Names, NEW n \in Sizes, Import(name, n) PROVE ToldHolds'
    <2> DEFINE free == FreeRuns(slot, SetLen(name), {})
    <2>1. PICK old \in Named(slot, name) \cup {NoEntry} :
            /\ IF old = NoEntry THEN Named(slot, name) = {} /\ free # {}
               ELSE ~ old.dir /\ Cardinality(old.slots) = SetLen(name)
            /\ Mount("import", name, old,
                     IF old = NoEntry THEN Min(free) ELSE Min(old.slots), n)
      BY <1>4, Zenon DEF Import
    <2>2. at' = "take"
      BY <1>4 DEF Import
    <2> DEFINE dest == IF old = NoEntry THEN Min(free) ELSE Min(old.slots)
               kind == "import"
    <2>3. Mount(kind, name, old, dest, n)
      BY <2>1
    <2>4. old = NoEntry => /\ FreeRuns(slot, SetLen(name), old.slots) # {}
                           /\ dest = Min(FreeRuns(slot, SetLen(name), old.slots))
                           /\ Named(slot, name) = {}
      BY <1>2, <2>1
    <2>5. kind # "rename" /\ kind = "import"
      OBVIOUS
    <2> HIDE DEF dest, free, kind, NoEntry
    <2>6. Chosen' /\ op'.slot = slot /\ torn' = torn
      BY <2>3, <2>4, <2>5, MountChosen
    <2> QED  BY <1>3, <2>2, <2>6
  <1>5. ASSUME NEW name \in Names, MakeDir(name) PROVE ToldHolds'
    <2> DEFINE free == FreeRuns(slot, SetLen(name), {})
               kind == "mkdir"
    <2>1. /\ free # {} /\ Mount(kind, name, NoEntry, Min(free), 1) /\ at' = "take"
          /\ Named(slot, name) = {}
      BY <1>5, Zenon DEF MakeDir
    <2>2. /\ FreeRuns(slot, SetLen(name), NoEntry.slots) # {}
          /\ Min(free) = Min(FreeRuns(slot, SetLen(name), NoEntry.slots))
      BY <1>2, <2>1
    <2> HIDE DEF free, kind, NoEntry
    <2>3. Chosen' /\ op'.slot = slot /\ torn' = torn
      BY <2>1, <2>2, MountChosen
    <2> QED  BY <1>3, <2>1, <2>3
  <1>6. ASSUME NEW old \in Listing(slot), Delete(old) PROVE ToldHolds'
    <2> DEFINE kind == "delete"
    <2>1. Mount(kind, old.name, old, Min(old.slots), 0) /\ at' = "put"
      BY <1>6 DEF Delete, StartPut
    <2>2. old # NoEntry
      BY <1>1, ListedEntry
    <2>3. kind = "delete" /\ kind # "rename"
      OBVIOUS
    <2> HIDE DEF kind, NoEntry
    <2>4. Chosen' /\ op'.slot = slot /\ torn' = torn
      BY <2>1, <2>2, <2>3, MountChosen
    <2> QED  BY <1>3, <2>1, <2>4
  <1>7. ASSUME NEW old \in Listing(slot), NEW name \in Names, Rename(old, name)
        PROVE  ToldHolds'
    <2> DEFINE free == FreeRuns(slot, SetLen(name), old.slots)
               kind == "rename"
    <2>1. PICK s \in Slots :
            /\ IF SetLen(name) <= Cardinality(old.slots) THEN s = Min(old.slots)
               ELSE free # {} /\ s = Min(free)
            /\ Mount(kind, name, old, s, 0)
            /\ StartPut(s, EntrySet(name, old.dir, old.stream), "put")
      BY <1>7, Zenon DEF Rename
    <2>2. (\E p \in Heads(slot) : old = Entry(slot, p)) /\ old # NoEntry
      BY <1>1, ListedEntry
    <2>3. at' = "put" /\ Named(slot, name) = {}
      BY <1>7, <2>1 DEF StartPut, Rename
    <2>4. SetLen(name) \in Nat /\ Cardinality(old.slots) \in Nat
      <3>1. PICK p \in Heads(slot) : old = Entry(slot, p)
        BY <2>2
      <3>2. p \in Slots /\ WellFormed(slot, p)
        BY <1>1, HeadsWellFormed
      <3>3. Cardinality(old.slots) = slot[p].more + 1 /\ slot[p].more \in Nat
        BY <1>1, <3>1, <3>2, EntryAt, SetInFolder
      <3> QED  BY <3>3, NameIs DEF SetLen
    <2>5. SetLen(name) > Cardinality(old.slots) => free # {} /\ s = Min(free)
      BY <2>1, <2>4
    <2> HIDE DEF kind, NoEntry, SetLen
    <2>6. Chosen' /\ op'.slot = slot /\ torn' = torn
      BY <2>1, <2>2, <2>3, <2>5, MountChosen
    <2> QED  BY <1>3, <2>3, <2>6
  <1> QED  BY <1>4, <1>5, <1>6, <1>7 DEF Begin

LEMMA ToldSame ==
  ASSUME ToldHolds, UNCHANGED <<slot, op, at, torn, result, ops>>
  PROVE  ToldHolds'
  <1>1. torn' <=> torn
    OBVIOUS
  <1>2. Chosen => Chosen'
    <2>1. InNew' = InNew
      BY CommandSame
    <2> QED  BY <2>1 DEF Chosen
  <1>3. Warned' <=> Warned
    BY DEF Warned
  <1>4. (Outcome(result))' = Outcome(result)
    BY OutcomeSame
  <1> QED  BY <1>1, <1>2, <1>3, <1>4 DEF ToldHolds

LEMMA ToldInit == Init => ToldHolds
  <1> SUFFICES ASSUME Init PROVE ToldHolds
    OBVIOUS
  <1>1. PICK c \in Cards : slot = c.slot /\ marked = c.marked /\ fat = c.fat /\ data = c.data
    BY DEF Init
  <1>2. at = "idle" /\ ~ (ops > 0)
    BY DEF Init
  <1>3. Laid(slot) /\ Tidy(slot)
    BY <1>1, SoundCards DEF Sound
  <1> QED  BY <1>2, <1>3 DEF ToldHolds

LEMMA ToldWrites ==
  ASSUME FolderHolds, ToldHolds, NEW o \in Outcomes, Write(o)
  PROVE  ToldHolds'
  <1>1. CASE TakeCluster(o) \/ WriteCluster(o) \/ FatWrite(o)
    <2>1. at # "idle" /\ at' # "idle" /\ op' = op /\ UNCHANGED torn
      BY <1>1 DEF TakeCluster, WriteCluster, FatWrite, past
    <2> QED  BY <2>1, ToldGoes
  <1>2. CASE MarkClusters(o)
    <2>1. at # "idle" /\ at' # "idle" /\ op' = op /\ UNCHANGED torn
      BY <1>2 DEF MarkClusters, SyncBitmap, PutNewEntry, StartPut, past
    <2> QED  BY <2>1, ToldGoes
  <1>3. CASE PutSector(o) \/ RestoreSector(o)
    <2>1. at # "idle" /\ at' # "idle" /\ op' = op /\ UNCHANGED torn
      BY <1>3 DEF PutSector, RestoreSector, Putting, past
    <2> QED  BY <2>1, ToldGoes
  <1> QED  BY <1>1, <1>2, <1>3, ToldReleases, ToldFreed DEF Write

LEMMA ToldSteps ==
  ASSUME FolderHolds, ToldHolds, Step
  PROVE  ToldHolds'
  <1>1. CASE LinkClusters \/ Linked \/ Cancel \/ DataWritten
    <2>1. at # "idle" /\ at' # "idle" /\ op' = op /\ UNCHANGED torn
      BY <1>1 DEF LinkClusters, Linked, Cancel, DataWritten, past
    <2> QED  BY <2>1, ToldGoes
  <1>2. CASE FreeOld \/ Renamed
    <2>1. at # "idle" /\ at' # "idle" /\ op' = op /\ UNCHANGED torn
      <3>1. CASE FreeOld
        BY <3>1, Zenon DEF FreeOld, Put, past
      <3>2. CASE Renamed
        BY <3>2 DEF Renamed, StartPut, Put, past
      <3> QED  BY <1>2, <3>1, <3>2
    <2> QED  BY <2>1, ToldGoes
  <1>3. CASE CreateFailed
    <2>1. at # "idle" /\ at' # "idle" /\ op' = op /\ (~ torn' => ~ torn)
      BY <1>3 DEF CreateFailed, PutBack
    <2> QED  BY <2>1, ToldGoes
  <1>4. CASE Created \/ OldNameCleared
    BY <1>4, ToldCreates
  <1> QED  BY <1>1, <1>2, <1>3, <1>4, ToldFails, ToldStaysNamed, ToldTakenBack, ToldUndoes
           DEF Step

LEMMA ToldNext ==
  FolderHolds /\ ToldHolds /\ [Next]_vars => ToldHolds'
  <1> SUFFICES ASSUME FolderHolds, ToldHolds, [Next]_vars PROVE ToldHolds'
    OBVIOUS
  <1>1. CASE Unplug \/ Over \/ UNCHANGED vars
    <2>1. UNCHANGED <<slot, op, at, torn, result, ops>>
      BY <1>1 DEF Unplug, Over, vars, card, past
    <2> QED  BY <2>1, ToldSame
  <1> QED  BY <1>1, ToldBegins, ToldWrites, ToldSteps DEF Next

\* A command that has returned left the files it said it would (DoesWhatItSays):
\* all of its work after a success, nothing of it after an error, except for a
\* rename, which rename_cart_exfat may have done or warn of both names; other
\* files never go with it.  As long as every failed entry-set write was put back
\* (exfat_write_entry_slabs_restoring).
THEOREM ReportsAreTrue == Spec => []DoesWhatItSays
  <1>1. Init => CancelHolds /\ FolderHolds /\ ToldHolds
    BY CardStarts, FolderInit, ToldInit
  <1>2. CancelHolds /\ FolderHolds /\ ToldHolds /\ [Next]_vars
          => CancelHolds' /\ FolderHolds' /\ ToldHolds'
    BY CardStep, FolderStep, ToldNext
  <1>3. ToldHolds => DoesWhatItSays
    BY DEF ToldHolds, DoesWhatItSays
  <1> QED  BY <1>1, <1>2, <1>3, PTL DEF Spec
-----------------------------------------------------------------------------
(* What the FAT has entries for, as long as nothing fails.                 *)

\* A cluster that has an entry is of a chain, or is one of S.
Accounted(d, f, S) ==
  \A c \in Clusters \ S : f[c] # Free =>
     \E p \in Slots : /\ d[p].tag = "file" /\ Stream(d, p).chained
                      /\ c \in Range(Chain(f, Stream(d, p)))

\* Clusters in a row lose the entries they were taken with.
Unlinking ==
  at = "link" /\ ~ op.chained =>
     /\ \A k \in 1..Len(fatq) : fatq[k][2] = Free
     /\ \A c \in Planned : fat[c] = Free \/ \E k \in 1..Len(fatq) : fatq[k][1] = c
Unlinked ==
  at \in {"data", "mark", "put"} => op.chained \/ \A c \in Planned : fat[c] = Free

Queue == {fatq[k][1] : k \in 1..Len(fatq)}

FaultFree ==
  /\ ~ torn
  /\ at = "idle" => ~ Warned /\ Accounted(slot, fat, {})
  /\ at \notin {"idle", "free"} => Accounted(op.slot, fat, Planned) /\ Unlinking /\ Unlinked
  /\ at # "idle" /\ ~ Creates => op.plan = <<>>
  /\ at = "free" => /\ \A k \in 1..Len(fatq) : fatq[k][2] = Free
                    /\ Accounted(slot, fat, Queue)

AgreeHolds == faults = 0 => FaultFree

\* A write that met no fault, and no fault before it, works.
LEMMA WriteWorks ==
  ASSUME CancelHolds, at # "idle", NEW o \in Outcomes, Try(o), faults' = 0
  PROVE  faults = 0 /\ ~ dead /\ o = "ok"
  <1>1. faults = 0 /\ op.faults = faults
    BY TryCounts DEF CancelHolds, CardTypes
  <1>2. ~ dead
    BY <1>1 DEF CancelHolds, NoFaultYet
  <1> QED  BY <1>1, <1>2, TryCounts DEF CancelHolds

\* No command without a fault is at such a place.
LEMMA NoneFails ==
  ASSUME CancelHolds, faults = 0, at # "idle"
  PROVE  /\ at \notin {"take back", "keep"} /\ (at \in {"put", "clear"} => ~ failed)
         /\ at \in {"take", "link", "data", "mark", "undo", "release"} => Untouched
  <1>1. op.faults = faults
    BY DEF CancelHolds, CardTypes
  <1> QED  BY <1>1 DEF CancelHolds, NoFaultYet

\* The entries of the files' clusters stay, and there are no more others.
LEMMA AccountedOn ==
  ASSUME NEW d, Typed(d), NEW m, NEW f, NEW x, Sound(d, m, f, x), NEW g, NEW S, NEW T,
         Accounted(d, f, S), \A c \in m : g[c] = f[c],
         \A c \in Clusters \ T : g[c] # Free => c \notin S /\ g[c] = f[c]
  PROVE  Accounted(d, g, T)
  <1> SUFFICES ASSUME NEW c \in Clusters \ T, g[c] # Free
               PROVE  \E p \in Slots : /\ d[p].tag = "file" /\ Stream(d, p).chained
                                       /\ c \in Range(Chain(g, Stream(d, p)))
    BY DEF Accounted
  <1>1. c \in Clusters \ S /\ f[c] # Free
    OBVIOUS
  <1>2. PICK p \in Slots : /\ d[p].tag = "file" /\ Stream(d, p).chained
                           /\ c \in Range(Chain(f, Stream(d, p)))
    BY <1>1 DEF Accounted
  <1>3. Stream(d, p).size \in Nat /\ Range(Chain(f, Stream(d, p))) \subseteq m
    BY <1>2, SoundFile
  <1>4. Chain(g, Stream(d, p)) = Chain(f, Stream(d, p))
    BY <1>3, ChainSame
  <1> QED  BY <1>2, <1>4

\* A command leaves the old files' chains and its own.
LEMMA AccountedAfter ==
  ASSUME Command, Fresh, Sound(op.slot, op.marked, fat, data), Accounted(op.slot, fat, Planned),
         Creates => Chained /\ (op.chained \/ \A c \in Planned : fat[c] = Free),
         ~ Creates => op.plan = <<>>, NEW e, Replaced(e), NEW T,
         op.kind # "rename" /\ op.old # NoEntry => Range(Chain(fat, op.old.stream)) \subseteq T
  PROVE  Accounted(e, fat, T)
  <1> SUFFICES ASSUME NEW c \in Clusters \ T, fat[c] # Free
               PROVE  \E p \in Slots : /\ e[p].tag = "file" /\ Stream(e, p).chained
                                       /\ c \in Range(Chain(fat, Stream(e, p)))
    BY DEF Accounted
  <1>1. ASSUME op.kind # "delete"
        PROVE  op.dest \in Slots /\ e[op.dest].tag = "file" /\ Stream(e, op.dest) = KeptStream
    BY <1>1, NewName DEF Replaced
  <1>2. CASE c \in Planned
    <2>1. Creates /\ op.chained /\ op.kind # "delete" /\ KeptStream = NewStream
      <3>1. Creates
        <4>1. op.plan = <<>> => Planned = {}
          BY DEF Planned
        <4> QED  BY <1>2, <4>1
      <3> QED  BY <1>2, <3>1 DEF Creates, KeptStream
    <2>2. PICK i \in 1..Len(op.plan) : c = op.plan[i]
      BY <1>2 DEF Planned
    <2> DEFINE st == NewStream
               q == op.plan
    <2>3. /\ st.size = Len(q) /\ st.size \in Nat /\ st.chained
          /\ st.first = (IF q = <<>> THEN 0 ELSE q[1]) /\ q \in Seq(Clusters)
      BY <2>1 DEF NewStream, Command
    <2>4. \A k \in 1..st.size - 1 : fat[q[k]] = q[k + 1]
      BY <2>1, <2>3 DEF Chained
    <2>5. \A k \in 1..st.size : q[k] \in Clusters
      BY <2>3
    <2>6. st.size > 0 => st.first = q[1]
      BY <2>3
    <2> HIDE DEF st, q
    <2>7. \A k \in 1..st.size : Chain(fat, st)[k] = q[k]
      BY <2>3, <2>4, <2>5, <2>6, ChainFollows
    <2>8. Range(Chain(fat, st)) = {Chain(fat, st)[k] : k \in 1..st.size}
      BY <2>3, ChainAt
    <2>9. c \in Range(Chain(fat, st))
      <3>1. i \in 1..st.size /\ c = q[i]
        BY <2>2, <2>3 DEF q
      <3> QED  BY <2>7, <2>8, <3>1
    <2> QED  BY <1>1, <2>1, <2>3, <2>9 DEF st
  <1>3. CASE c \notin Planned
    <2>1. PICK p \in Slots : /\ op.slot[p].tag = "file" /\ Stream(op.slot, p).chained
                             /\ c \in Range(Chain(fat, Stream(op.slot, p)))
      BY <1>3 DEF Accounted
    <2>2. CASE p # Gone
      <3>1. e[p].tag = "file" /\ Stream(e, p) = Stream(op.slot, p)
        <4>1. \A s \in Slots : s \notin NewSlots /\ s \notin op.old.slots => e[s] = op.slot[s]
          BY DEF Replaced
        <4> QED  BY <2>1, <2>2, <4>1, OthersStay DEF Sound
      <3> QED  BY <2>1, <3>1
    <2>3. CASE p = Gone
      <3>1. op.old # NoEntry /\ p = OldHead
        BY <2>3 DEF Gone, Slots
      <3>2. op.old.stream = Stream(op.slot, p)
        BY <3>1, OldIs
      <3>3. op.kind = "rename"
        BY <2>1, <3>1, <3>2
      <3>4. KeptStream = Stream(op.slot, p) /\ op.kind # "delete"
        BY <3>2, <3>3 DEF KeptStream
      <3> QED  BY <1>1, <2>1, <3>4
    <2> QED  BY <2>2, <2>3
  <1> QED  BY <1>2, <1>3

\* Steps between the beginning and the end of a command.
LEMMA AgreeOn ==
  ASSUME CancelHolds, FolderHolds, KeptHolds, AgreeHolds, at \notin {"idle", "free"},
         at' \notin {"idle", "free"}, op' = op,
         faults' = 0 => /\ faults = 0 /\ (~ torn => ~ torn')
                        /\ \A c \in Clusters \ Planned : fat'[c] = fat[c]
                        /\ Unlinking' /\ Unlinked'
  PROVE  AgreeHolds'
  <1> SUFFICES ASSUME faults' = 0 PROVE FaultFree'
    BY DEF AgreeHolds
  <1>1. FaultFree /\ ~ torn
    BY DEF AgreeHolds, FaultFree
  <1>2. /\ Sound(op.slot, op.marked, fat, data) /\ Typed(op.slot) /\ Fresh
        /\ op.marked \subseteq marked \cap ram
    BY <1>1, WorkingNow
  <1>3. Planned' = Planned /\ Creates' = Creates
    BY DEF Planned, Creates
  <1>4. \A c \in op.marked : c \notin Planned
    BY <1>2 DEF Fresh, Planned
  <1>5. Accounted(op.slot, fat', Planned)
    <2>1. Accounted(op.slot, fat, Planned)
      BY <1>1 DEF FaultFree
    <2>2. \A c \in op.marked : fat'[c] = fat[c]
      BY <1>2, <1>4 DEF CancelHolds, CardTypes
    <2>3. \A c \in Clusters \ Planned : fat'[c] = fat[c]
      OBVIOUS
    <2> QED  BY <1>2, <2>1, <2>2, <2>3, AccountedOn
  <1>6. ~ torn'
    BY <1>1
  <1> QED  BY <1>1, <1>3, <1>5, <1>6 DEF FaultFree

LEMMA AgreeTakes ==
  ASSUME CancelHolds, FolderHolds, KeptHolds, AgreeHolds, NEW o \in Outcomes,
         TakeCluster(o) \/ WriteCluster(o) \/ MarkClusters(o)
                        \/ PutSector(o) \/ RestoreSector(o)
  PROVE  AgreeHolds'
  <1>1. CASE TakeCluster(o)
    <2>1. /\ at = "take" /\ at' \in {"take", "undo"} /\ got < Len(op.plan) /\ Try(o)
          /\ fat' = [fat EXCEPT ![op.plan[got + 1]] = IF Landed(o) THEN ChainEnd ELSE @]
          /\ op' = op /\ torn' = torn
      BY <1>1 DEF TakeCluster, past
    <2>2. faults' = 0 => faults = 0
      BY <2>1, WriteWorks
    <2>3. op.plan[got + 1] \in Planned /\ DOMAIN fat = Clusters
      BY <2>1, Next1 DEF CancelHolds, CardTypes
    <2>4. \A c \in Clusters \ Planned : fat'[c] = fat[c]
      BY <2>1, <2>3
    <2>5. Unlinking' /\ Unlinked'
      BY <2>1 DEF Unlinking, Unlinked
    <2> QED  BY <2>1, <2>2, <2>4, <2>5, AgreeOn
  <1>2. CASE WriteCluster(o)
    <2>1. /\ at = "data" /\ at' \in {"data", "undo"} /\ Try(o)
          /\ fat' = fat /\ op' = op /\ torn' = torn
      BY <1>2 DEF WriteCluster, past
    <2>2. faults' = 0 => faults = 0
      BY <2>1, WriteWorks
    <2>3. faults = 0 => Unlinked
      BY <2>1 DEF AgreeHolds, FaultFree
    <2>4. faults = 0 => Unlinking' /\ Unlinked'
      BY <2>1, <2>3 DEF Unlinking, Unlinked, Planned
    <2> QED  BY <2>1, <2>2, <2>4, AgreeOn
  <1>3. CASE MarkClusters(o)
    <2>1. /\ at = "mark" /\ at' \in {"put", "undo"} /\ Try(o)
          /\ fat' = fat /\ op' = op /\ torn' = torn
      BY <1>3 DEF MarkClusters, SyncBitmap, PutNewEntry, StartPut, past
    <2>2. faults' = 0 => faults = 0
      BY <2>1, WriteWorks
    <2>3. faults = 0 => Unlinked
      BY <2>1 DEF AgreeHolds, FaultFree
    <2>4. faults = 0 => Unlinking' /\ Unlinked'
      BY <2>1, <2>3 DEF Unlinking, Unlinked, Planned
    <2> QED  BY <2>1, <2>2, <2>4, AgreeOn
  <1>4. CASE PutSector(o) \/ RestoreSector(o)
    <2>1. at \in {"put", "clear", "take back"} /\ at' = at /\ Try(o)
          /\ fat' = fat /\ op' = op /\ torn' = torn
      BY <1>4 DEF PutSector, RestoreSector, Putting, past
    <2>2. faults' = 0 => faults = 0
      BY <2>1, WriteWorks
    <2>3. faults = 0 => Unlinked
      BY <2>1 DEF AgreeHolds, FaultFree
    <2>4. faults = 0 => Unlinking' /\ Unlinked'
      BY <2>1, <2>3 DEF Unlinking, Unlinked, Planned
    <2> QED  BY <2>1, <2>2, <2>4, AgreeOn
  <1> QED  BY <1>1, <1>2, <1>3, <1>4

\* An entry of the queue has been written.
LEMMA QueueShrinks ==
  ASSUME Queued, fatq # <<>>, fatq' = Tail(fatq), DOMAIN fat = Clusters,
         fat' = [fat EXCEPT ![fatq[1][1]] = fatq[1][2]],
         \A k \in 1..Len(fatq) : fatq[k][2] = Free
  PROVE  /\ \A k \in 1..Len(fatq') : fatq'[k][2] = Free
         /\ \A c \in Clusters : fat'[c] # Free => fat'[c] = fat[c] /\ c # fatq[1][1]
         /\ Queue \subseteq {fatq[1][1]} \cup Queue'
  <1>1. /\ Len(fatq) \in Nat /\ 1 \in 1..Len(fatq) /\ fatq[1] \in Clusters \X (0..ChainEnd)
        /\ Len(fatq') = Len(fatq) - 1
        /\ \A i \in 1..Len(fatq) - 1 : i + 1 \in 1..Len(fatq) /\ fatq'[i] = fatq[i + 1]
        /\ \A i \in 1..Len(fatq) : i = 1 \/ i - 1 \in 1..Len(fatq) - 1
    BY QueueGoes
  <1>2. \A k \in 1..Len(fatq') : fatq'[k][2] = Free
    BY <1>1
  <1>3. \A c \in Clusters : fat'[c] # Free => fat'[c] = fat[c] /\ c # fatq[1][1]
    BY <1>1
  <1>4. ASSUME NEW k \in 1..Len(fatq) PROVE fatq[k][1] \in {fatq[1][1]} \cup Queue'
    <2>1. CASE k = 1
      BY <2>1
    <2>2. CASE k # 1
      <3>1. k - 1 \in 1..Len(fatq') /\ fatq'[k - 1] = fatq[(k - 1) + 1] /\ (k - 1) + 1 = k
        BY <1>1, <2>2
      <3> QED  BY <3>1 DEF Queue
    <2> QED  BY <2>1, <2>2
  <1> QED  BY <1>2, <1>3, <1>4 DEF Queue

LEMMA AgreeLinks ==
  ASSUME CancelHolds, FolderHolds, KeptHolds, AgreeHolds, NEW o \in Outcomes, FatWrite(o),
         at # "free"
  PROVE  AgreeHolds'
  <1>1. /\ at \in {"link", "release"} /\ fatq # <<>> /\ Try(o) /\ op' = op /\ torn' = torn
        /\ fat' = [fat EXCEPT ![fatq[1][1]] = IF Landed(o) THEN fatq[1][2] ELSE @]
        /\ at' \in {at, "undo"} /\ (o = "ok" => at' = at /\ fatq' = Tail(fatq))
    BY DEF FatWrite, past
  <1>2. ASSUME faults' = 0
        PROVE  /\ faults = 0 /\ \A c \in Clusters \ Planned : fat'[c] = fat[c]
               /\ Unlinking' /\ Unlinked'
    <2>1. faults = 0 /\ o = "ok"
      BY <1>1, <1>2, WriteWorks
    <2>2. FaultFree
      BY <2>1 DEF AgreeHolds
    <2>3. Progress /\ DOMAIN fat = Clusters
      BY <1>1, <2>2, WorkingNow DEF FaultFree, CancelHolds, CardTypes
    <2>4. Queued /\ \A k \in 1..Len(fatq) : fatq[k][1] \in Planned
      BY <1>1, <2>3 DEF Progress, Planned
    <2>5. /\ 1 \in 1..Len(fatq) /\ fatq[1][1] \in Planned
          /\ fat' = [fat EXCEPT ![fatq[1][1]] = fatq[1][2]]
      BY <1>1, <2>1, <2>4, QueueGoes DEF Landed
    <2>6. \A c \in Clusters \ Planned : fat'[c] = fat[c]
      BY <2>3, <2>5
    <2>7. Unlinking'
      <3> SUFFICES ASSUME at' = "link", ~ op.chained
                   PROVE  /\ \A k \in 1..Len(fatq') : fatq'[k][2] = Free
                          /\ \A c \in Planned : fat'[c] = Free
                               \/ \E k \in 1..Len(fatq') : fatq'[k][1] = c
        BY <1>1 DEF Unlinking, Planned
      <3>1. /\ \A k \in 1..Len(fatq) : fatq[k][2] = Free
            /\ \A c \in Planned : fat[c] = Free \/ c \in Queue
        BY <1>1, <2>2 DEF FaultFree, Unlinking, Queue
      <3>2. /\ \A k \in 1..Len(fatq') : fatq'[k][2] = Free
            /\ \A c \in Clusters : fat'[c] # Free => fat'[c] = fat[c] /\ c # fatq[1][1]
            /\ Queue \subseteq {fatq[1][1]} \cup Queue'
        BY <1>1, <2>1, <2>3, <2>4, <2>5, <3>1, QueueShrinks
      <3>3. Planned \subseteq Clusters
        BY <1>1 DEF CancelHolds, CardTypes, Planned
      <3>4. \A c \in Planned : fat'[c] = Free \/ c \in Queue'
        BY <3>1, <3>2, <3>3
      <3> QED  BY <3>2, <3>4 DEF Queue
    <2>8. Unlinked'
      BY <1>1, <2>1 DEF Unlinked
    <2> QED  BY <2>1, <2>6, <2>7, <2>8
  <1> QED  BY <1>1, <1>2, AgreeOn

LEMMA AgreeFrees ==
  ASSUME CancelHolds, FolderHolds, KeptHolds, AgreeHolds, NEW o \in Outcomes, FatWrite(o),
         at = "free"
  PROVE  AgreeHolds'
  <1> SUFFICES ASSUME faults' = 0 PROVE FaultFree'
    BY DEF AgreeHolds
  <1>1. /\ fatq # <<>> /\ Try(o) /\ UNCHANGED <<slot, op, torn>> /\ at' = "free"
        /\ fat' = [fat EXCEPT ![fatq[1][1]] = IF Landed(o) THEN fatq[1][2] ELSE @]
        /\ o = "ok" => fatq' = Tail(fatq)
    BY DEF FatWrite, past
  <1>2. faults = 0 /\ o = "ok"
    BY <1>1, WriteWorks
  <1>3. FaultFree
    BY <1>2 DEF AgreeHolds
  <1>4. /\ Sound(slot, marked \cap ram, fat, data) /\ Queued /\ Typed(slot)
        /\ \A k \in 1..Len(fatq) : \A p \in Slots :
             slot[p].tag = "file" => fatq[k][1] \notin Range(Chain(fat, Stream(slot, p)))
        /\ DOMAIN fat = Clusters
    BY <1>3, FolderTyped DEF FaultFree, KeptHolds, Freeing, CancelHolds, CardTypes
  <1>5. 1 \in 1..Len(fatq) /\ fat' = [fat EXCEPT ![fatq[1][1]] = fatq[1][2]]
    BY <1>1, <1>2, <1>4, QueueGoes DEF Landed
  <1>6. /\ \A k \in 1..Len(fatq) : fatq[k][2] = Free
        /\ Accounted(slot, fat, Queue)
    BY <1>3 DEF FaultFree
  <1>7. /\ \A k \in 1..Len(fatq') : fatq'[k][2] = Free
        /\ \A c \in Clusters : fat'[c] # Free => fat'[c] = fat[c] /\ c # fatq[1][1]
        /\ Queue \subseteq {fatq[1][1]} \cup Queue'
    BY <1>1, <1>2, <1>4, <1>5, <1>6, QueueShrinks
  <1>8. Accounted(slot, fat', Queue')
    <2> SUFFICES ASSUME NEW c \in Clusters \ Queue', fat'[c] # Free
                 PROVE  \E p \in Slots : /\ slot[p].tag = "file" /\ Stream(slot, p).chained
                                         /\ c \in Range(Chain(fat', Stream(slot, p)))
      BY DEF Accounted
    <2>1. fat[c] # Free /\ c \notin Queue
      BY <1>7
    <2>2. PICK p \in Slots : /\ slot[p].tag = "file" /\ Stream(slot, p).chained
                             /\ c \in Range(Chain(fat, Stream(slot, p)))
      BY <1>6, <2>1 DEF Accounted
    <2>3. /\ Stream(slot, p).size \in Nat
          /\ \A k \in Range(Chain(fat, Stream(slot, p))) : k # fatq[1][1] /\ k \in Clusters
      BY <1>4, <1>5, <2>2, SoundFile DEF CancelHolds, CardTypes
    <2>4. \A k \in Range(Chain(fat, Stream(slot, p))) : fat'[k] = fat[k]
      BY <1>4, <1>5, <2>3
    <2>5. Chain(fat', Stream(slot, p)) = Chain(fat, Stream(slot, p))
      BY <2>3, <2>4, ChainSame
    <2> QED  BY <2>2, <2>5
  <1>9. ~ torn' /\ (at # "idle" /\ ~ Creates => op.plan = <<>>)
    BY <1>1, <1>3 DEF FaultFree
  <1>10. Creates' = Creates
    BY <1>1 DEF Creates
  <1> QED  BY <1>1, <1>7, <1>8, <1>9, <1>10 DEF FaultFree

LEMMA AgreeBegins ==
  ASSUME FolderHolds', AgreeHolds, Begin
  PROVE  AgreeHolds'
  <1> SUFFICES ASSUME faults' = 0 PROVE FaultFree'
    BY DEF AgreeHolds
  <1>1. PICK kind, name, old, dest : \E n \in Nat :
            /\ n <= Cardinality(Clusters \ marked) /\ Mount(kind, name, old, dest, n)
            /\ at' = "take" \/ (at' = "put" /\ kind \in {"delete", "rename"} /\ n = 0)
    BY BeginMounts
  <1>2. PICK n \in Nat :
            /\ Mount(kind, name, old, dest, n)
            /\ at' = "take" \/ (at' = "put" /\ kind \in {"delete", "rename"} /\ n = 0)
    BY <1>1
  <1>3. /\ op'.kind = kind /\ op'.plan = Plan(n) /\ op'.slot = slot
        /\ fat' = fat /\ faults' = faults /\ torn' = torn
    BY <1>2 DEF Mount, card
  <1>4. at = "idle" /\ FaultFree
    BY <1>3 DEF Begin, AgreeHolds
  <1>5. Accounted(op'.slot, fat', Planned')
    BY <1>3, <1>4 DEF FaultFree, Accounted
  <1>6. at' = "put" => op'.plan = <<>>
    BY <1>2, <1>3 DEF Plan
  <1>7. at' = "put" => Planned' = {}
    <2> SUFFICES ASSUME at' = "put" PROVE Planned' = {}
      OBVIOUS
    <2>1. Planned' = {op'.plan[i] : i \in 1..Len(op'.plan)}
      BY DEF Planned
    <2> QED  BY <1>6, <2>1
  <1>8. at' = "take" => Creates'
    BY DEF FolderHolds, Stages, Creates
  <1>9. Unlinking' /\ Unlinked'
    BY <1>2, <1>7 DEF Unlinking, Unlinked
  <1>10. ~ torn'
    BY <1>3, <1>4 DEF FaultFree
  <1>11. at' \in {"take", "put"}
    BY <1>2
  <1> QED  BY <1>5, <1>6, <1>8, <1>9, <1>10, <1>11 DEF FaultFree

LEMMA AgreePrepares ==
  ASSUME CancelHolds, FolderHolds, KeptHolds, AgreeHolds,
         LinkClusters \/ Linked \/ Cancel \/ DataWritten \/ Renamed
  PROVE  AgreeHolds'
  <1>1. CASE LinkClusters
    <2>1. /\ at = "take" /\ at' = "link" /\ UNCHANGED <<fat, op, faults, torn>>
          /\ ~ op.chained => fatq' = [i \in 1..Len(op.plan) |-> <<op.plan[i], Free>>]
      BY <1>1 DEF LinkClusters, card, past, Each
    <2>2. op.plan \in Seq(Clusters)
      BY <2>1 DEF CancelHolds, CardTypes
    <2>3. ASSUME ~ op.chained
          PROVE  /\ \A k \in 1..Len(fatq') : fatq'[k][2] = Free
                 /\ \A c \in Planned : \E k \in 1..Len(fatq') : fatq'[k][1] = c
      <3>1. Len(fatq') = Len(op.plan)
            /\ \A i \in 1..Len(op.plan) : fatq'[i] = <<op.plan[i], Free>>
        BY <2>1, <2>2, <2>3
      <3> QED  BY <3>1 DEF Planned
    <2>4. Unlinking' /\ Unlinked'
      BY <2>1, <2>3 DEF Unlinking, Unlinked, Planned
    <2> QED  BY <2>1, <2>4, AgreeOn
  <1>2. CASE Linked
    <2>1. at = "link" /\ at' = "data" /\ fatq = <<>> /\ UNCHANGED <<fat, op, faults, torn>>
      BY <1>2 DEF Linked, card, past
    <2>2. ASSUME faults = 0 PROVE op.chained \/ \A c \in Planned : fat[c] = Free
      <3>1. Unlinking
        BY <2>1, <2>2 DEF AgreeHolds, FaultFree
      <3>2. \A k \in 1..Len(fatq) : FALSE
        BY <2>1
      <3> QED  BY <2>1, <3>1, <3>2 DEF Unlinking
    <2>3. faults = 0 => Unlinking' /\ Unlinked'
      BY <2>1, <2>2 DEF Unlinking, Unlinked, Planned
    <2> QED  BY <2>1, <2>3, AgreeOn
  <1>3. CASE Cancel \/ DataWritten
    <2>1. at = "data" /\ at' \in {"undo", "mark"} /\ UNCHANGED <<fat, op, faults, torn>>
      BY <1>3 DEF Cancel, DataWritten, card, past
    <2>2. faults = 0 => Unlinked
      BY <2>1 DEF AgreeHolds, FaultFree
    <2>3. faults = 0 => Unlinking' /\ Unlinked'
      BY <2>1, <2>2 DEF Unlinking, Unlinked, Planned
    <2> QED  BY <2>1, <2>3, AgreeOn
  <1>4. CASE Renamed
    <2>1. at = "put" /\ at' = "clear" /\ UNCHANGED <<fat, op, faults, torn>>
      BY <1>4 DEF Renamed, Put, StartPut, card, past
    <2>2. Unlinking' /\ Unlinked'
      BY <2>1 DEF Unlinking, Unlinked
    <2> QED  BY <2>1, <2>2, AgreeOn
  <1> QED  BY <1>1, <1>2, <1>3, <1>4

\* Steps that only follow a fault.
LEMMA AgreeFails ==
  ASSUME CancelHolds,
         CreateFailed \/ EntryWriteFailed \/ OldNameStays \/ NewNameTakenBack \/ Unplug
  PROVE  AgreeHolds'
  <1>1. CASE Unplug
    <2>1. faults' = faults + 1 /\ faults \in Nat
      BY <1>1 DEF Unplug, CancelHolds, CardTypes
    <2> QED  BY <2>1 DEF AgreeHolds
  <1>2. CASE ~ Unplug
    <2>1. /\ faults' = faults
          /\ at = "take back" \/ (at \in {"put", "clear"} /\ failed)
      BY <1>2 DEF CreateFailed, EntryWriteFailed, OldNameStays, NewNameTakenBack, PutBack, Put
    <2>2. faults # 0
      BY <2>1, NoneFails
    <2> QED  BY <2>1, <2>2 DEF AgreeHolds
  <1> QED  BY <1>1, <1>2

\* A command that ends.
LEMMA AgreeEnds ==
  ASSUME AgreeHolds, at' = "idle",
         faults' = 0 => /\ faults = 0 /\ (~ torn => ~ torn')
                        /\ result' \notin {"damaged", "two names"}
                        /\ Accounted(slot', fat', {})
  PROVE  AgreeHolds'
BY DEF AgreeHolds, FaultFree, Warned

\* A command that takes back all it did.
LEMMA AgreeUndoes ==
  ASSUME CancelHolds, FolderHolds, KeptHolds, AgreeHolds, Undo
  PROVE  AgreeHolds'
  <1>1. /\ at = "undo" /\ UNCHANGED <<slot, fat, op, faults, torn>>
        /\ (got = 0 /\ at' = "idle" /\ result' = "error") \/ (at' = "release")
    BY DEF Undo, card, Done
  <1>2. CASE got = 0 /\ at' = "idle" /\ result' = "error"
    <2>1. ASSUME faults' = 0 PROVE Accounted(slot', fat', {})
      <3>1. Untouched /\ Accounted(op.slot, fat, Planned)
        BY <1>1, <2>1, NoneFails DEF AgreeHolds, FaultFree
      <3>2. Len(op.plan) = 0 /\ slot = op.slot
        BY <1>1, <1>2, <3>1 DEF Untouched
      <3>3. Planned = {}
        BY <3>2 DEF Planned
      <3> QED  BY <1>1, <3>1, <3>2, <3>3
    <2> QED  BY <1>1, <1>2, <2>1, AgreeEnds
  <1>3. CASE at' = "release"
    <2>1. Unlinking' /\ Unlinked'
      BY <1>3 DEF Unlinking, Unlinked
    <2> QED  BY <1>1, <1>3, <2>1, AgreeOn
  <1> QED  BY <1>1, <1>2, <1>3

LEMMA AgreeReleases ==
  ASSUME CancelHolds, FolderHolds, KeptHolds, AgreeHolds, NEW o \in Outcomes,
         Released(o) \/ Kept(o) \/ Freed(o)
  PROVE  AgreeHolds'
  <1>1. /\ at \in {"release", "keep", "free"} /\ at' = "idle" /\ Try(o)
        /\ UNCHANGED <<slot, fat, op, torn>>
        /\ at = "release" => result' = "error" /\ fatq = <<>>
        /\ at = "free" => result' \in {"ok", "not freed"} /\ fatq = <<>>
    BY DEF Released, Kept, Freed, SyncBitmap, Done
  <1>2. ASSUME faults' = 0
        PROVE  /\ faults = 0 /\ result' \notin {"damaged", "two names"}
               /\ Accounted(slot, fat, {})
    <2>1. faults = 0
      BY <1>1, <1>2, WriteWorks
    <2>2. FaultFree /\ at # "keep"
      BY <1>1, <2>1, NoneFails DEF AgreeHolds
    <2>3. CASE at = "release"
      <3>1. Untouched /\ Accounted(op.slot, fat, Planned)
        BY <2>1, <2>2, <2>3, NoneFails DEF FaultFree
      <3>2. \A k \in 1..Len(fatq) : FALSE
        BY <1>1, <2>3
      <3>3. slot = op.slot /\ \A c \in Planned : fat[c] = Free
        BY <2>3, <3>1, <3>2 DEF Untouched
      <3> QED  BY <1>1, <2>1, <2>3, <3>1, <3>3 DEF Accounted
    <2>4. CASE at = "free"
      <3>1. Accounted(slot, fat, Queue)
        BY <2>2, <2>4 DEF FaultFree
      <3>2. Queue = {}
        <4>1. fatq = <<>>
          BY <1>1, <2>4, Zenon
        <4>2. \A k \in 1..Len(fatq) : FALSE
          BY <4>1
        <4> QED  BY <4>2 DEF Queue
      <3> QED  BY <1>1, <2>1, <2>4, <3>1, <3>2
    <2> QED  BY <1>1, <2>2, <2>3, <2>4
  <1> QED  BY <1>1, <1>2, AgreeEnds

\* A command whose entry is on the card, and no other names what it did.
LEMMA AgreeDone ==
  ASSUME CancelHolds, FolderHolds, KeptHolds, AgreeHolds, Created \/ OldNameCleared
  PROVE  AgreeHolds'
  <1>1. /\ at' = "idle" /\ result' = "ok" /\ UNCHANGED <<slot, fat, torn, faults>> /\ Putting
        /\ \/ Put("put") /\ op.kind \in {"import", "mkdir"} /\ op.old = NoEntry
           \/ Put("clear")
    BY DEF Created, OldNameCleared, Done, card, Putting, Put
  <1>2. ASSUME faults = 0 PROVE Accounted(slot, fat, {})
    <2>1. FaultFree /\ at \notin {"idle", "free"}
      BY <1>1, <1>2 DEF AgreeHolds, Putting
    <2>2. /\ Command /\ Fresh /\ Progress /\ Sound(op.slot, op.marked, fat, data)
      BY <2>1, WorkingNow DEF FaultFree
    <2>3. /\ Accounted(op.slot, fat, Planned) /\ Unlinked /\ (~ Creates => op.plan = <<>>)
      BY <2>1 DEF FaultFree
    <2>4. /\ Replaced(slot) /\ (Creates => at = "put")
          /\ (op.kind = "rename" \/ op.old = NoEntry)
      <3>1. CASE Put("put") /\ op.kind \in {"import", "mkdir"} /\ op.old = NoEntry
        <4>1. slot = Changed
          BY <1>1, <3>1, PutDone
        <4> QED  BY <2>2, <3>1, <4>1, ChangedReplaces DEF Put
      <3>2. CASE Put("clear")
        <4>1. at = "clear" /\ slot = With(Changed, PutFirst, PutVals)
          BY <1>1, <3>2, PutDone DEF Put
        <4>2. Stages /\ op.kind = "rename"
          BY <4>1 DEF FolderHolds, Stages
        <4> QED  BY <2>2, <4>1, <4>2, ClearedReplaces DEF Creates
      <3> QED  BY <1>1, <3>1, <3>2
    <2>5. Creates => Chained /\ (op.chained \/ \A c \in Planned : fat[c] = Free)
      BY <2>2, <2>3, <2>4 DEF Progress, Unlinked
    <2> QED  BY <2>2, <2>3, <2>4, <2>5, AccountedAfter
  <1> QED  BY <1>1, <1>2, AgreeEnds

\* What is to be given back is all of the old chain.
LEMMA OldQueued ==
  ASSUME CancelHolds, Command, Sound(op.slot, op.marked, fat, data), op.marked \subseteq marked,
         FreeOld
  PROVE  /\ \A k \in 1..Len(fatq') : fatq'[k][2] = Free
         /\ Range(Chain(fat, op.old.stream)) \subseteq Queue'
  <1> DEFINE st == op.old.stream
             chain == Chain(fat, st)
             whole == {n \in 0..st.size : \A i \in 1..n : chain[i] \in Clusters}
             cs == SubSeq(chain, 1, Max(whole))
  <1>1. op.old # NoEntry /\ fatq' = Each(cs, LAMBDA i : Free)
    BY Zenon DEF FreeOld
  <1>2. fatq' = [i \in 1..Len(cs) |-> <<cs[i], Free>>]
    BY <1>1 DEF Each
  <1> HIDE DEF st, chain, whole, cs
  <1>3. /\ OldHead \in Slots /\ op.slot[OldHead].tag = "file" /\ Typed(op.slot)
        /\ st = Stream(op.slot, OldHead) /\ st.size \in Nat
    BY <1>1, OldIs DEF WellFormed, st, Command
  <1>4. Range(chain) \subseteq op.marked
    BY <1>3, SoundFile DEF chain
  <1>5. chain = [i \in 1..st.size |-> chain[i]] /\ Range(chain) = {chain[i] : i \in 1..st.size}
    BY <1>3, ChainAt DEF chain
  <1>6. \A i \in 1..st.size : chain[i] \in Clusters /\ chain[i] \in Range(chain)
    BY <1>4, <1>5 DEF CancelHolds, CardTypes
  <1>7. chain \in Seq(Clusters) /\ Len(chain) = st.size
    <2>1. st.size \in Nat /\ chain = [i \in 1..st.size |-> chain[i]]
      BY <1>3, <1>5
    <2>2. \A i \in 1..st.size : chain[i] \in Clusters
      BY <1>6
    <2> QED  BY <2>1, <2>2
  <1>8. Max(whole) = st.size
    <2>1. whole = 0..st.size
      BY <1>3, <1>6 DEF whole
    <2>2. st.size \in whole /\ \A y \in whole : st.size >= y
      BY <1>3, <2>1
    <2>3. Max(whole) \in whole /\ \A y \in whole : Max(whole) >= y
      BY <2>2 DEF Max
    <2> QED  BY <1>3, <2>1, <2>2, <2>3
  <1>9. Len(cs) = st.size /\ \A i \in 1..st.size : cs[i] = chain[i]
    <2>1. cs = SubSeq(chain, 1, st.size)
      BY <1>8 DEF cs
    <2> QED  BY <1>3, <1>7, <2>1
  <1>10. Len(fatq') = st.size /\ \A k \in 1..st.size : fatq'[k] = <<cs[k], Free>>
    BY <1>2, <1>3, <1>9
  <1>11. \A k \in 1..Len(fatq') : fatq'[k][2] = Free
    BY <1>10
  <1>12. Range(chain) \subseteq Queue'
    <2>1. \A k \in 1..st.size : chain[k] = fatq'[k][1]
      BY <1>9, <1>10
    <2>2. Queue' = {fatq'[k][1] : k \in 1..Len(fatq')}
      BY DEF Queue
    <2>3. ASSUME NEW c \in Range(chain) PROVE c \in Queue'
      <3>1. PICK k \in 1..st.size : c = chain[k]
        BY <1>5
      <3>2. k \in 1..Len(fatq') /\ c = fatq'[k][1]
        BY <1>10, <2>1, <3>1
      <3> QED  BY <2>2, <3>2
    <2> QED  BY <2>3
  <1> QED  BY <1>11, <1>12 DEF chain, st

LEMMA AgreeReplaces ==
  ASSUME CancelHolds, FolderHolds, KeptHolds, AgreeHolds, FreeOld
  PROVE  AgreeHolds'
  <1> SUFFICES ASSUME faults' = 0 PROVE FaultFree'
    BY DEF AgreeHolds
  <1>1. /\ Put("put") /\ op.kind # "rename" /\ op.old # NoEntry /\ at' = "free"
        /\ slot' = slot /\ fat' = fat /\ op' = op /\ faults' = faults /\ torn' = torn
    BY Zenon DEF FreeOld, card, past
  <1>2. FaultFree /\ at = "put" /\ Putting
    BY <1>1 DEF AgreeHolds, Put, Putting
  <1>3. /\ Command /\ Fresh /\ Progress /\ Sound(op.slot, op.marked, fat, data)
        /\ op.marked \subseteq marked
    BY <1>2, WorkingNow DEF FaultFree
  <1>4. /\ Accounted(op.slot, fat, Planned) /\ Unlinked /\ (~ Creates => op.plan = <<>>)
        /\ ~ torn
    BY <1>2 DEF FaultFree
  <1>5. Replaced(slot)
    <2>1. slot = Changed /\ ~ InNew
      BY <1>1, <1>2, PutDone DEF InNew
    <2> QED  BY <1>3, <2>1, ChangedReplaces
  <1>6. /\ \A k \in 1..Len(fatq') : fatq'[k][2] = Free
        /\ Range(Chain(fat, op.old.stream)) \subseteq Queue'
    BY <1>3, OldQueued
  <1>7. Creates => Chained /\ (op.chained \/ \A c \in Planned : fat[c] = Free)
    BY <1>2, <1>3, <1>4 DEF Progress, Unlinked
  <1>8. Accounted(slot, fat, Queue')
    <2> DEFINE T == Queue'
    <2>1. Range(Chain(fat, op.old.stream)) \subseteq T
      BY <1>6
    <2> HIDE DEF T
    <2>2. Accounted(slot, fat, T)
      BY <1>3, <1>4, <1>5, <1>7, <2>1, AccountedAfter
    <2> QED  BY <2>2 DEF T
  <1>9. Creates' = Creates /\ (~ torn' <=> ~ torn)
    BY <1>1 DEF Creates
  <1> QED  BY <1>1, <1>4, <1>6, <1>8, <1>9 DEF FaultFree

LEMMA AgreeSame ==
  ASSUME AgreeHolds, UNCHANGED vars
  PROVE  AgreeHolds'
  <1>1. /\ slot' = slot /\ fat' = fat /\ op' = op /\ at' = at /\ fatq' = fatq
        /\ faults' = faults /\ result' = result /\ torn' = torn
    BY DEF vars, card, past
  <1>2. /\ Planned' = Planned /\ Queue' = Queue /\ Creates' = Creates
        /\ Unlinking' = Unlinking /\ Unlinked' = Unlinked /\ Warned' = Warned
    BY <1>1 DEF Planned, Queue, Creates, Unlinking, Unlinked, Warned
  <1>3. torn' <=> torn
    BY <1>1
  <1> QED  BY <1>1, <1>2, <1>3 DEF AgreeHolds, FaultFree

LEMMA AgreeNext ==
  CancelHolds /\ FolderHolds /\ FolderHolds' /\ KeptHolds /\ AgreeHolds /\ [Next]_vars
    => AgreeHolds'
  <1> SUFFICES ASSUME CancelHolds, FolderHolds, FolderHolds', KeptHolds, AgreeHolds, [Next]_vars
               PROVE  AgreeHolds'
    OBVIOUS
  <1>1. CASE Begin
    BY <1>1, AgreeBegins
  <1>2. ASSUME NEW o \in Outcomes, Write(o) PROVE AgreeHolds'
    BY <1>2, AgreeTakes, AgreeLinks, AgreeFrees, AgreeReleases DEF Write
  <1>3. CASE Step
    BY <1>3, AgreePrepares, AgreeReplaces, AgreeDone, AgreeFails, AgreeUndoes DEF Step
  <1>4. CASE Unplug
    BY <1>4, AgreeFails
  <1>5. CASE Over \/ UNCHANGED vars
    BY <1>5, AgreeSame DEF Over
  <1> QED  BY <1>1, <1>2, <1>3, <1>4, <1>5 DEF Next

\* On a card whose FAT has entries for the clusters of chains only.
CardsAgree == \A c \in Cards : Accounted(c.slot, c.fat, {})

LEMMA AgreeInit == CardsAgree /\ Init => AgreeHolds
  <1> SUFFICES ASSUME CardsAgree, Init PROVE AgreeHolds
    OBVIOUS
  <1>1. PICK c \in Cards : slot = c.slot /\ marked = c.marked /\ fat = c.fat /\ data = c.data
    BY DEF Init
  <1>2. at = "idle" /\ result = "none" /\ ~ torn
    BY DEF Init
  <1>3. Accounted(slot, fat, {})
    BY <1>1 DEF CardsAgree
  <1> QED  BY <1>2, <1>3 DEF AgreeHolds, FaultFree, Warned

LEMMA AgreeFollows ==
  FolderHolds /\ ToldHolds /\ AgreeHolds => FatAgrees
  <1> SUFFICES ASSUME FolderHolds, ToldHolds, AgreeHolds, at = "idle", faults = 0,
                      NEW c \in Clusters, fat[c] # Free
               PROVE  \E e \in Listing(slot) : e.stream.chained
                                              /\ c \in Range(Chain(fat, e.stream))
    BY DEF FatAgrees
  <1>1. ~ torn /\ ~ Warned /\ Accounted(slot, fat, {})
    BY DEF AgreeHolds, FaultFree
  <1>2. Heads(slot) = FilesOf(slot)
    BY <1>1, FolderTyped, AllListed DEF ToldHolds
  <1>3. PICK p \in Slots : /\ slot[p].tag = "file" /\ Stream(slot, p).chained
                           /\ c \in Range(Chain(fat, Stream(slot, p)))
    BY <1>1 DEF Accounted
  <1>4. Entry(slot, p) \in Listing(slot) /\ Entry(slot, p).stream = Stream(slot, p)
    BY <1>2, <1>3 DEF Listing, FilesOf, Entry
  <1> QED  BY <1>3, <1>4

\* As long as nothing failed, the FAT has an entry for a cluster only if that is
\* of a chain (FatAgrees), on a card of which that was so:
\* exfat_clear_fat_contiguous_range takes back the end marks of a run, what
\* exfat_allocate_file_clusters links is put in an entry or released, and
\* exfat_free_entry_clusters clears what a file that goes had.
THEOREM FatKeepsToChains == CardsAgree /\ Spec => []FatAgrees
  <1> SUFFICES ASSUME CardsAgree PROVE Spec => []FatAgrees
    OBVIOUS
  <1>1. Init => CancelHolds /\ FolderHolds /\ KeptHolds /\ ToldHolds /\ AgreeHolds
    BY CardStarts, FolderInit, KeptInit, ToldInit, AgreeInit
  <1>2. CancelHolds /\ FolderHolds /\ KeptHolds /\ ToldHolds /\ AgreeHolds /\ [Next]_vars
          => (CancelHolds /\ FolderHolds /\ KeptHolds /\ ToldHolds /\ AgreeHolds)'
    BY CardStep, FolderStep, KeptNext, ToldNext, AgreeNext
  <1> QED  BY <1>1, <1>2, AgreeFollows, PTL DEF Spec
=============================================================================
