----------------------------- MODULE ExfatCard -----------------------------
(***************************************************************************)
(* One folder of an exFAT card as Xfer64 changes it over a cart's USB:     *)
(* importing a file (new or over an existing one), making a folder,        *)
(* renaming and deleting.  Every write of a sector is a step.  A write may *)
(* fail having reached the card or not, and the cable may be pulled, after *)
(* which every write fails until the next command.                         *)
(*                                                                         *)
(* A slot is 32 bytes of the folder; a name is a sequence of parts, each   *)
(* filling one File Name slot.  `ver' is not on the card: it stands for    *)
(* the bytes the user put in, so that a property can tell whose they are.  *)
(***************************************************************************)
EXTENDS Integers, Sequences, FiniteSets, SequencesExt

CONSTANTS
  Names,        \* the names a user gives, each a sequence of parts
  Sizes,        \* lengths of imported files, in clusters
  LastSlot,     \* the folder has the slots 1..LastSlot
  PerSector,    \* how many of them a sector holds
  LastCluster,  \* the heap has the clusters 1..LastCluster
  Cards,        \* the cards a run may start from
  MaxOps,       \* bound: commands
  MaxFaults     \* bound: writes that fail, pulled cables included

VARIABLES
  slot,     \* card: the folder's slots
  marked,   \* card: the allocation bitmap, the clusters it calls used
  fat,      \* card: each cluster's FAT entry
  data,     \* card: what each cluster holds
  ram,      \* the mounted volume's bitmap, written to the card by sync_bitmap
  op,       \* the command being carried out, or the last one
  at,       \* where it stands
  got,      \* how many clusters of op.plan it has taken
  fatq,     \* the FAT entries it is about to write
  todo,     \* the sectors of an entry-set write still to go
  before,   \* the sectors written so far, as they were
  failed,   \* one of those writes failed: they are being put back
  restored, \* whether every one was put back so far
  result,   \* what the last command told its user
  dead,     \* the cable is out
  faults,   \* how many faults there were
  ops,      \* how many commands there were
  torn,     \* an entry-set write failed and was not put back
  twins     \* a command ended with two entries over one cluster

card == <<slot, marked, fat, data>>
entrySet == <<todo, before, failed, restored>>
past == <<ops, torn, twins>>
vars == <<card, ram, op, at, got, fatq, entrySet, result, dead, faults, past>>

Slots == 1..LastSlot
Clusters == 1..LastCluster
Free == 0                  \* a FAT entry of no chain
ChainEnd == LastCluster + 1    \* a FAT entry that ends one

\* A card's bitmap and FAT are of its own clusters.
ASSUME CardsAssumption ==
  /\ Sizes \subseteq Nat /\ LastCluster \in Nat
  /\ \A c \in Cards : c.marked \subseteq Clusters /\ c.fat \in [Clusters -> 0..ChainEnd]

\* A name has a part.
ASSUME FolderAssumption ==
  /\ LastSlot \in Nat /\ PerSector \in Nat \ {0}
  /\ \A name \in Names : name # <<>> /\ name \in Seq(Range(name))

EndMark == [tag |-> "end"]      \* 0x00: no entry from here on
Cleared == [tag |-> "cleared"]  \* In-Use bit clear
Unused(v) == v.tag \in {"end", "cleared"}
SectorOf(s) == (s - 1) \div PerSector

-----------------------------------------------------------------------------
(* Reading a folder.  The set checksum is written but never read.          *)

SetLen(name) == 2 + Len(name)

EntrySet(name, dir, stream) ==
  << [tag |-> "file", more |-> 1 + Len(name), dir |-> dir],
     [tag |-> "stream", parts |-> Len(name), first |-> stream.first,
      size |-> stream.size, chained |-> stream.chained, ver |-> stream.ver] >>
  \o [k \in 1..Len(name) |-> [tag |-> "name", part |-> name[k]]]

WellFormed(d, p) ==
  /\ d[p].tag = "file"
  /\ d[p].more >= 2 /\ p + d[p].more <= LastSlot
  /\ d[p + 1].tag = "stream"
  /\ d[p + 1].parts < d[p].more
  /\ \A k \in 1..d[p + 1].parts : d[p + 1 + k].tag = "name"

\* The slots at which a listing finds an entry set.
Heads(d) ==
  LET from[p \in 1..LastSlot + 20] ==
        IF p > LastSlot \/ d[p].tag = "end" THEN {}
        ELSE IF WellFormed(d, p) THEN {p} \cup from[p + 1 + d[p].more]
        ELSE from[p + 1]
  IN from[1]

Stream(d, p) == [first |-> d[p + 1].first, size |-> d[p + 1].size,
                 chained |-> d[p + 1].chained, ver |-> d[p + 1].ver]

Entry(d, p) ==
  [name |-> [k \in 1..d[p + 1].parts |-> d[p + 1 + k].part],
   dir |-> d[p].dir, stream |-> Stream(d, p),
   slots |-> p..p + d[p].more]

Listing(d) == {Entry(d, p) : p \in Heads(d)}
Named(d, name) == {e \in Listing(d) : e.name = name}

\* The clusters a reader follows from a stream, 0 once its chain has ended.
Chain(f, st) ==
  LET c[i \in 1..st.size] ==
        IF i = 1 THEN st.first
        ELSE IF ~st.chained THEN c[i - 1] + 1
        ELSE IF c[i - 1] \in Clusters /\ f[c[i - 1]] \in Clusters
             THEN f[c[i - 1]] ELSE 0
  IN c

\* A sound folder: a file's slots are its own, and so are its clusters, which
\* are marked and hold what was put in.
Laid(d) ==
  \A p \in Slots : d[p].tag = "file" =>
     WellFormed(d, p) /\ \A s \in p + 1..p + d[p].more : d[s].tag \in {"stream", "name"}

ChainWhole(st, m, f, x) ==
  \A i \in 1..st.size : Chain(f, st)[i] \in m /\ x[Chain(f, st)[i]] = <<st.ver, i>>

Sound(d, m, f, x) ==
  /\ Laid(d)
  /\ \A p \in Slots : d[p].tag = "file" =>
       /\ ChainWhole(Stream(d, p), m, f, x)
       /\ \A q \in Slots \ {p} : d[q].tag = "file" =>
            Range(Chain(f, Stream(d, p))) \cap Range(Chain(f, Stream(d, q))) = {}

\* A tidy one: nothing after its end, and each file with a name of its own.
Tidy(d) ==
  /\ \A s, t \in Slots : d[s].tag = "end" /\ s < t => d[t].tag = "end"
  /\ \A p \in Slots : d[p].tag = "file" =>
       /\ Entry(d, p).name # <<>>
       /\ \A q \in Slots \ {p} : d[q].tag = "file" => Entry(d, q).name # Entry(d, p).name

SlotTyped(v) ==
  /\ v.tag \in {"end", "cleared", "file", "stream", "name"}
  /\ v.tag = "file" => v.more \in Nat /\ v.dir \in BOOLEAN
  /\ v.tag = "stream" => {v.parts, v.size} \subseteq Nat /\ v.chained \in BOOLEAN

\* The cards there are to start from are sound and tidy.
ASSUME SoundCards ==
  \A c \in Cards :
    /\ c.slot = [s \in Slots |-> c.slot[s]] /\ \A s \in Slots : SlotTyped(c.slot[s])
    /\ c.data = [k \in Clusters |-> c.data[k]]
    /\ Sound(c.slot, c.marked, c.fat, c.data) /\ Tidy(c.slot)

FreeRuns(d, n, skip) ==
  {s \in Slots : \A i \in s..s + n - 1 :
                    i \in Slots \ skip /\ Unused(d[i])}

-----------------------------------------------------------------------------
(* Allocation, always from the bitmap.                                     *)


\* Variant: the FAT is asked instead of the bitmap.
Runs_FatScan(n) ==
  {c \in Clusters : \A i \in c..c + n - 1 : i \in Clusters /\ fat[i] = Free}

Runs(n) == {c \in Clusters : \A i \in c..c + n - 1 : i \in Clusters \ marked}
Contiguous(n) == n = 0 \/ Runs(n) # {}

\* Each taken where the last one was: before it, only those taken already are free.
FirstFree(n) ==
  CHOOSE p \in [1..n -> Clusters \ marked] :
     \A i \in 1..n : {c \in Clusters \ marked : c < p[i]} = {p[j] : j \in 1..i - 1}

Plan(n) ==
  IF n = 0 THEN <<>>
  ELSE IF Contiguous(n) THEN [i \in 1..n |-> Min(Runs(n)) + i - 1]
  ELSE FirstFree(n)

\* A free run that the FAT still chains is refused.
ChainedButFree(n) ==
  Contiguous(n) /\ \E c \in Clusters \cap Range(Plan(n)) : fat[c] \in Clusters

Each(cs, v(_)) == [i \in 1..Len(cs) |-> <<cs[i], v(i)>>]

-----------------------------------------------------------------------------
(* A write: it works, or fails without or with an effect on the card.      *)

Try(o) ==
  \/ o = "ok" /\ ~dead /\ UNCHANGED faults
  \/ o = "lost" /\ dead /\ UNCHANGED faults
  \/ /\ o \in {"lost", "landed"} /\ ~dead
     /\ faults < MaxFaults /\ faults' = faults + 1

Landed(o) == o \in {"ok", "landed"}
Outcomes == {"ok", "lost", "landed"}

Overlay(f, g) == [s \in DOMAIN g |-> IF s \in DOMAIN f THEN f[s] ELSE g[s]]

\* The sector writes that put `vals' into consecutive slots from `first' on.
SectorWrites(first, vals) ==
  LET slots == first..first + Len(vals) - 1
      sectors == IF vals = <<>> THEN 0
                 ELSE SectorOf(first + Len(vals) - 1) - SectorOf(first) + 1
  IN [i \in 1..sectors |->
        [s \in {t \in slots : SectorOf(t) = SectorOf(first) + i - 1} |->
           vals[s - first + 1]]]

StartPut(first, vals, to) ==
  /\ todo' = SectorWrites(first, vals)
  /\ before' = <<>>
  /\ failed' = FALSE /\ restored' = TRUE
  /\ at' = to

Shares(d) ==
  \E p, q \in Heads(d) :
     p # q /\ Range(Chain(fat, Stream(d, p))) \cap Range(Chain(fat, Stream(d, q)))
              # {}

\* The command returns and says r.
Done(r) ==
  /\ at' = "idle"
  /\ result' = r
  /\ twins' = (twins \/ Shares(slot))
  /\ UNCHANGED <<op, ops>>

Warned == result \in {"damaged", "two names"}

-----------------------------------------------------------------------------
(* Commands begin: mount, resolve, refuse or plan.                         *)

NoStream == [first |-> 0, size |-> 0, chained |-> FALSE, ver |-> 0]
NoEntry == [name |-> <<>>, dir |-> FALSE, stream |-> NoStream, slots |-> {}]

Mount(kind, name, old, dest, n) ==
  /\ ops' = ops + 1
  /\ op' = [kind |-> kind, name |-> name, old |-> old, dest |-> dest,
            ver |-> 10 + ops, plan |-> Plan(n), chained |-> ~Contiguous(n),
            slot |-> slot, marked |-> marked, fat |-> fat, faults |-> faults]
  /\ ram' = marked
  /\ got' = 0 /\ fatq' = <<>>
  /\ dead' = FALSE
  /\ result' = "none"
  /\ UNCHANGED <<card, faults, torn, twins>>

HasRoom(n) == Cardinality(Clusters \ marked) >= n /\ ~ChainedButFree(n)

Import(name, n) ==
  /\ HasRoom(n)
  /\ \E old \in Named(slot, name) \cup {NoEntry} :
        /\ IF old = NoEntry
           THEN Named(slot, name) = {} /\ FreeRuns(slot, SetLen(name), {}) # {}
           ELSE ~old.dir /\ Cardinality(old.slots) = SetLen(name)
        /\ Mount("import", name, old,
                 IF old = NoEntry THEN Min(FreeRuns(slot, SetLen(name), {}))
                                  ELSE Min(old.slots), n)
  /\ at' = "take"
  /\ UNCHANGED entrySet

MakeDir(name) ==
  /\ Clusters \ marked # {}
  /\ Named(slot, name) = {}
  /\ FreeRuns(slot, SetLen(name), {}) # {}
  /\ Mount("mkdir", name, NoEntry, Min(FreeRuns(slot, SetLen(name), {})), 1)
  /\ at' = "take"
  /\ UNCHANGED entrySet

Delete(old) ==
  /\ old \in Listing(slot)
  /\ Mount("delete", old.name, old, Min(old.slots), 0)
  /\ StartPut(Min(old.slots), [i \in 1..Cardinality(old.slots) |-> Cleared], "put")

Rename(old, name) ==
  /\ old \in Listing(slot) /\ Named(slot, name) = {}
  /\ \E s \in Slots :
        /\ IF SetLen(name) <= Cardinality(old.slots) THEN s = Min(old.slots)
           ELSE /\ FreeRuns(slot, SetLen(name), old.slots) # {}
                /\ s = Min(FreeRuns(slot, SetLen(name), old.slots))
        /\ Mount("rename", name, old, s, 0)
        /\ StartPut(s, EntrySet(name, old.dir, old.stream), "put")

Begin ==
  /\ at = "idle" /\ ~Warned
  /\ ops < MaxOps
  /\ \/ \E name \in Names : (\E n \in Sizes : Import(name, n)) \/ MakeDir(name)
     \/ \E old \in Listing(slot) :
           Delete(old) \/ \E name \in Names : Rename(old, name)

-----------------------------------------------------------------------------
(* Imports and new folders: clusters, their data, the bitmap, the entry.   *)

TakeCluster(o) ==
  /\ at = "take" /\ got < Len(op.plan)
  /\ Try(o)
  /\ fat' = [fat EXCEPT ![op.plan[got + 1]] = IF Landed(o) THEN ChainEnd ELSE @]
  /\ IF o = "ok"
     THEN got' = got + 1 /\ ram' = ram \cup {op.plan[got + 1]} /\ UNCHANGED at
     ELSE /\ at' = "undo" /\ UNCHANGED got
          /\ ram' \in {ram, ram \cup {op.plan[got + 1]}}
  /\ UNCHANGED <<slot, marked, data, op, fatq, entrySet, result, dead, past>>

\* Variant: a run keeps the end marks its clusters were taken with.
LinkClusters_KeepsMarks ==
  /\ at = "take" /\ got = Len(op.plan)
  /\ at' = "link"
  /\ fatq' = IF op.chained THEN Each(Front(op.plan), LAMBDA i : op.plan[i + 1])
             ELSE <<>>
  /\ got' = 0
  /\ UNCHANGED <<card, ram, op, entrySet, result, dead, faults, past>>

\* A run's FAT entries must be free, a chain's point at their successors.
LinkClusters ==
  /\ at = "take" /\ got = Len(op.plan)
  /\ at' = "link"
  /\ fatq' = IF op.chained
             THEN Each(Front(op.plan), LAMBDA i : op.plan[i + 1])
             ELSE Each(op.plan, LAMBDA i : Free)
  /\ got' = 0
  /\ UNCHANGED <<card, ram, op, entrySet, result, dead, faults, past>>

Linked ==
  /\ at = "link" /\ fatq = <<>>
  /\ at' = "data"
  /\ UNCHANGED <<card, ram, op, got, fatq, entrySet, result, dead, faults, past>>

WriteCluster(o) ==
  /\ at = "data" /\ got < Len(op.plan)
  /\ Try(o)
  /\ data' = [data EXCEPT ![op.plan[got + 1]] =
                IF o = "ok" THEN <<op.ver, got + 1>>
                ELSE IF o = "landed" THEN <<0, 0>> ELSE @]
  /\ IF o = "ok" THEN got' = got + 1 /\ UNCHANGED at
                 ELSE got' = Len(op.plan) /\ at' = "undo"
  /\ UNCHANGED <<slot, marked, fat, ram, op, fatq, entrySet, result, dead, past>>

\* The user cancels, or the source is shorter or longer than it was.
Cancel ==
  /\ at = "data" /\ op.kind = "import"
  /\ at' = "undo" /\ got' = Len(op.plan)
  /\ UNCHANGED <<card, ram, op, fatq, entrySet, result, dead, faults, past>>

DataWritten ==
  /\ at = "data" /\ got = Len(op.plan)
  /\ at' = "mark"
  /\ UNCHANGED <<card, ram, op, got, fatq, entrySet, result, dead, faults, past>>

\* sync_bitmap writes the whole bitmap: any part of it may land.
SyncBitmap(o) ==
  /\ Try(o)
  /\ \E m \in SUBSET ((marked \ ram) \cup (ram \ marked)) :
        /\ m = {} <=> ram = marked \/ o = "lost"
        /\ o = "ok" => m = (marked \ ram) \cup (ram \ marked)
        /\ marked' = (marked \ m) \cup (ram \cap m)
  /\ UNCHANGED <<slot, fat, data, ram, op, got, fatq, dead>>

PutNewEntry ==
  StartPut(op.dest,
           EntrySet(op.name, op.kind = "mkdir",
                    [first |-> IF op.plan = <<>> THEN 0 ELSE op.plan[1],
                     size |-> Len(op.plan), chained |-> op.chained,
                     ver |-> op.ver]), "put")

\* Variant: the bitmap is left for the end of the command.
MarkClusters_Later(o) ==
  /\ at = "mark" /\ o = "ok"
  /\ PutNewEntry
  /\ UNCHANGED <<card, ram, op, got, fatq, result, dead, faults, past>>

\* Variant: the entry being replaced goes before the new one comes.
MarkClusters_ClearsFirst(o) ==
  /\ at = "mark" /\ o = "ok" /\ ~dead
  /\ marked' = ram
  /\ slot' = [s \in Slots |-> IF op.old # NoEntry /\ s \in op.old.slots
                             THEN Cleared ELSE slot[s]]
  /\ PutNewEntry
  /\ UNCHANGED <<fat, data, ram, op, got, fatq, result, dead, faults, past>>

MarkClusters(o) ==
  /\ at = "mark"
  /\ SyncBitmap(o)
  /\ IF o = "ok"
     THEN PutNewEntry
     ELSE at' = "undo" /\ UNCHANGED entrySet
  /\ UNCHANGED <<result, past>>

-----------------------------------------------------------------------------
(* Writing an entry set, a sector at a time, and putting it back.          *)

Putting == at \in {"put", "clear", "take back"}

PutSector(o) ==
  /\ Putting /\ ~failed /\ todo # <<>>
  /\ Try(o)
  /\ before' = Append(before, [s \in DOMAIN Head(todo) |-> slot[s]])
  /\ slot' = IF Landed(o) THEN Overlay(Head(todo), slot) ELSE slot
  /\ IF o = "ok" THEN todo' = Tail(todo) /\ UNCHANGED failed
                 ELSE failed' = TRUE /\ UNCHANGED todo
  /\ UNCHANGED <<marked, fat, data, ram, op, at, got, fatq, restored, result,
                 dead, past>>

RestoreSector(o) ==
  /\ Putting /\ failed /\ before # <<>>
  /\ Try(o)
  /\ slot' = IF Landed(o) THEN Overlay(before[Len(before)], slot) ELSE slot
  /\ before' = Front(before)
  /\ restored' = (restored /\ o = "ok")
  /\ UNCHANGED <<marked, fat, data, ram, op, at, got, fatq, todo, failed, result,
                 dead, past>>

Put(where) == at = where /\ ~failed /\ todo = <<>>
PutBack(where) ==
  /\ at = where /\ failed /\ before = <<>>
  /\ torn' = (torn \/ ~restored)

\* Variant: slots are zeroed, which ends the folder there.
Blank_Zeroed(slots) == [i \in 1..Cardinality(slots) |-> EndMark]

Blank(slots) == [i \in 1..Cardinality(slots) |-> Cleared]
Grown == SetLen(op.name) > Cardinality(op.old.slots)
Surplus == {s \in op.old.slots : s >= op.dest + SetLen(op.name)}

\* The new entry is on the card; what it replaced, or what was deleted, is
\* no longer named by any, and gives its clusters back.
FreeOld ==
  LET chain == Chain(fat, op.old.stream)
      whole == {n \in 0..op.old.stream.size : \A i \in 1..n : chain[i] \in Clusters}
      cs == SubSeq(chain, 1, Max(whole))
  IN /\ Put("put") /\ op.kind # "rename" /\ op.old # NoEntry
     /\ at' = "free"
     /\ fatq' = Each(cs, LAMBDA i : Free)
     /\ ram' = IF op.old.stream.chained THEN ram ELSE ram \ Range(cs)
     /\ UNCHANGED <<card, op, got, entrySet, result, dead, faults, past>>

Created ==
  /\ Put("put") /\ op.kind \in {"import", "mkdir"} /\ op.old = NoEntry
  /\ Done("ok")
  /\ UNCHANGED <<card, ram, got, fatq, entrySet, dead, faults, torn>>

Renamed ==
  /\ Put("put") /\ op.kind = "rename"
  /\ IF Grown THEN StartPut(Min(op.old.slots), Blank(op.old.slots), "clear")
     ELSE StartPut(op.dest + SetLen(op.name), Blank(Surplus), "clear")
  /\ UNCHANGED <<card, ram, op, got, fatq, result, dead, faults, past>>

OldNameCleared ==
  /\ Put("clear")
  /\ Done("ok")
  /\ UNCHANGED <<card, ram, got, fatq, entrySet, dead, faults, torn>>

\* A create that failed gives its clusters back, unless the card may hold an
\* entry that names them.
CreateFailed ==
  /\ PutBack("put") /\ op.kind \in {"import", "mkdir"}
  /\ at' = IF restored THEN "undo" ELSE "keep"
  /\ UNCHANGED <<card, ram, op, got, fatq, entrySet, result, dead, faults, ops,
                 twins>>

\* Deleting and renaming only pass the error on.
EntryWriteFailed ==
  /\ PutBack("put") /\ op.kind \in {"delete", "rename"}
  /\ Done("error")
  /\ UNCHANGED <<card, ram, got, fatq, entrySet, dead, faults>>

\* The old name of a longer one could not be cleared: take the new one out.
OldNameStays ==
  /\ PutBack("clear")
  /\ IF Grown
     THEN /\ StartPut(op.dest,
                      [i \in 1..SetLen(op.name) |-> op.slot[op.dest + i - 1]],
                      "take back")
          /\ UNCHANGED <<op, result, ops, twins>>
     ELSE Done("error") /\ UNCHANGED entrySet
  /\ UNCHANGED <<card, ram, got, fatq, dead, faults>>

NewNameTakenBack ==
  /\ \/ Put("take back") /\ Done("error") /\ UNCHANGED torn
     \/ PutBack("take back") /\ Done("two names")
  /\ UNCHANGED <<card, ram, got, fatq, entrySet, dead, faults>>

-----------------------------------------------------------------------------
(* FAT entries, one sector write each; giving clusters back.               *)

FatWrite(o) ==
  /\ at \in {"link", "release", "free"} /\ fatq # <<>>
  /\ Try(o)
  /\ fat' = [fat EXCEPT ![fatq[1][1]] = IF Landed(o) THEN fatq[1][2] ELSE @]
  /\ IF o = "ok"
     THEN /\ fatq' = Tail(fatq)
          /\ ram' = IF at = "free" /\ op.old.stream.chained
                    THEN ram \ {fatq[1][1]} ELSE ram
          /\ UNCHANGED <<at, got, result>>
     ELSE /\ fatq' = <<>>
          /\ at' = IF at = "link" THEN "undo" ELSE at
          /\ got' = IF at = "link" THEN Len(op.plan) ELSE got
          /\ result' = IF at = "free" THEN "not freed" ELSE result
          /\ UNCHANGED ram
  /\ UNCHANGED <<slot, marked, data, op, entrySet, dead, past>>

\* Variant: the clusters leave the FAT but not the bitmap.
Undo_KeepsBits ==
  /\ at = "undo"
  /\ IF got = 0 THEN Done("error") /\ UNCHANGED fatq
     ELSE /\ at' = "release"
          /\ fatq' = Each(SubSeq(op.plan, 1, got), LAMBDA i : Free)
          /\ UNCHANGED <<op, result, ops, twins>>
  /\ UNCHANGED <<card, ram, got, entrySet, dead, faults, torn>>

Undo ==
  /\ at = "undo"
  /\ IF got = 0 THEN Done("error") /\ UNCHANGED <<ram, fatq>>
     ELSE /\ at' = "release"
          /\ ram' = ram \ Range(SubSeq(op.plan, 1, got))
          /\ fatq' = Each(SubSeq(op.plan, 1, got), LAMBDA i : Free)
          /\ UNCHANGED <<op, result, ops, twins>>
  /\ UNCHANGED <<card, got, entrySet, dead, faults, torn>>

Released(o) ==
  /\ at = "release" /\ fatq = <<>>
  /\ SyncBitmap(o)
  /\ Done("error")
  /\ UNCHANGED <<entrySet, torn>>

Kept(o) ==
  /\ at = "keep"
  /\ SyncBitmap(o)
  /\ Done("damaged")
  /\ UNCHANGED <<entrySet, torn>>

Freed(o) ==
  /\ at = "free" /\ fatq = <<>>
  /\ SyncBitmap(o)
  /\ Done(IF o = "ok" /\ result = "none" THEN "ok" ELSE "not freed")
  /\ UNCHANGED <<entrySet, torn>>

Unplug ==
  /\ at # "idle" /\ ~dead
  /\ faults < MaxFaults /\ faults' = faults + 1
  /\ dead' = TRUE
  /\ UNCHANGED <<card, ram, op, at, got, fatq, entrySet, result, past>>

Init ==
  /\ \E c \in Cards : slot = c.slot /\ marked = c.marked /\ fat = c.fat
                      /\ data = c.data
  /\ ram = marked /\ op = [kind |-> "none"] /\ at = "idle"
  /\ got = 0 /\ fatq = <<>>
  /\ todo = <<>> /\ before = <<>> /\ failed = FALSE /\ restored = TRUE
  /\ result = "none" /\ dead = FALSE /\ faults = 0
  /\ ops = 0 /\ torn = FALSE /\ twins = FALSE

Write(o) ==
  \/ TakeCluster(o) \/ WriteCluster(o) \/ MarkClusters(o)
  \/ PutSector(o) \/ RestoreSector(o) \/ FatWrite(o)
  \/ Released(o) \/ Kept(o) \/ Freed(o)

Step ==
  \/ LinkClusters \/ Linked \/ Cancel \/ DataWritten
  \/ FreeOld \/ Created \/ Renamed \/ OldNameCleared
  \/ CreateFailed \/ EntryWriteFailed \/ OldNameStays \/ NewNameTakenBack
  \/ Undo

\* No command is left to give.
Over == at = "idle" /\ (ops = MaxOps \/ Warned) /\ UNCHANGED vars

Next == Begin \/ (\E o \in Outcomes : Write(o)) \/ Step \/ Unplug \/ Over

Spec == Init /\ [][Next]_vars

-----------------------------------------------------------------------------
(* Properties.                                                             *)

\* Every variable stays in its type.
TypeOK ==
  /\ \A s \in Slots : slot[s].tag \in {"end", "cleared", "file", "stream", "name"}
  /\ marked \subseteq Clusters /\ ram \subseteq Clusters
  /\ fat \in [Clusters -> 0..ChainEnd]
  /\ at \in {"idle", "take", "link", "data", "mark", "put", "clear", "take back",
             "undo", "release", "keep", "free"}
  /\ at # "idle" => got \in 0..Len(op.plan)
  /\ result \in {"none", "ok", "error", "not freed", "damaged", "two names"}
  /\ faults \in 0..MaxFaults /\ ops \in 0..MaxOps
  /\ {dead, failed, restored, torn, twins} \subseteq BOOLEAN

\* Whatever fails and wherever the cable is pulled, an entry a reader finds
\* names only clusters that the bitmap on the card calls used, and its chain
\* is whole: clusters are marked before an entry names them and given back
\* only once none does.
LiveMarked ==
  ~twins => \A p \in Heads(slot) :
               Range(Chain(fat, Stream(slot, p))) \subseteq marked

\* An entry a reader finds holds all of what its user put in: no reader sees
\* a partial file, and no later import is given a live file's clusters.
ContentKept ==
  ~twins => \A e \in Listing(slot) :
               \A i \in 1..e.stream.size :
                  data[Chain(fat, e.stream)[i]] = <<e.stream.ver, i>>

\* While a file is being replaced, and however that ends, the folder lists it
\* under its name with either all of the old contents or all of the new.
ReplaceAtomic ==
  at # "idle" /\ op.kind = "import" /\ op.old # NoEntry =>
     \E e \in Named(slot, op.name) : e.stream.ver \in {op.old.stream.ver, op.ver}

Files(d) == {<<e.name, e.stream.ver>> : e \in Listing(d)}
OldFile == <<op.old.name, op.old.stream.ver>>
NewFile == <<op.name, IF op.kind = "rename" THEN op.old.stream.ver ELSE op.ver>>

\* What a command may have made of the files it found: all of its work when
\* it reports success, nothing when it reports failure, except that a failed
\* rename may have been done, or have left both names and say so.  Other
\* files never go with it.
Outcome(r) ==
  LET found == Files(op.slot)
      done == (found \ {OldFile}) \cup (IF op.kind = "delete" THEN {} ELSE {NewFile})
  IN CASE r = "two names" -> {found, done, found \cup {NewFile}}
       [] r \in {"ok", "not freed"} -> {done}
       [] r = "error" /\ op.kind = "rename" -> {found, done}
       [] OTHER -> {found}

\* A command that has returned did what it reported, as long as every failed
\* entry-set write was put back.
DoesWhatItSays == at = "idle" /\ ops > 0 /\ ~torn => Files(slot) \in Outcome(result)

\* A cancelled import leaves the folder, the bitmap and the FAT as they were,
\* but for FAT entries an earlier failure had left on free clusters.
CancelLeavesNothing ==
  at = "idle" /\ result = "error" /\ faults = op.faults =>
     /\ slot = op.slot /\ marked = op.marked
     /\ \A c \in Clusters : fat[c] = op.fat[c] \/ (fat[c] = Free /\ c \notin marked)

\* With no fault so far, only clusters of a chain have a FAT entry, which is
\* what other readers of the card require.
FatAgrees ==
  at = "idle" /\ faults = 0 =>
     \A c \in Clusters : fat[c] # Free =>
        \E e \in Listing(slot) : e.stream.chained
                                /\ c \in Range(Chain(fat, e.stream))

\* Two entries over the same clusters are never left without a warning: the
\* comment in rename_cart_exfat says that deleting either would free the
\* other's data.
TwinsTold == twins => Warned
=============================================================================
