# multi64 in TLA+

Models, model checks and proofs of multi64: the bridge between programs on a PC and a
Nintendo 64 with a flash cart on USB. Everything here is translated from the code in this
repository; `PROJECT.json` ("map") names the lines each definition stands for, the mutation
that breaks each property, and the hazards the properties are aimed at.

    tlc -config SerialLinkSafety.cfg MCSerialLink.tla
    tlc -config Parts.cfg MCParts.tla
    tlapm SerialLinkProofs.tla; tlapm SupervisorProofs.tla
    tlapm CartLinkProofs.tla; tlapm SdCardProofs.tla; tlapm SdSessionProofs.tla
    tlapm XferProofs.tla; tlapm WatchEventsProofs.tla; tlapm StreamRxProofs.tla

## 1. The system

    Archipelago client --TCP-- ap64-connector --+
                                                | WebSocket, L3 frames
    test connector ---------- ap64-cart --------+----> multi64d ---serial port---> cart --- N64
                                                |     (one per cart)                  agent / game
    Xfer64 --HTTP release / resume--------------+
    Xfer64 --------------- the same serial port, while multi64d has released it ----^
    Multi64 app --starts, stops, restarts multi64d; GET /

| component | state it keeps | operations | what makes it correct |
|---|---|---|---|
| multi64d serial link (`crates/multi64d/src/lib.rs`) | the link (Active with a pipe, Released, Faulted) behind one lock; the reader's reopen backoff | reader pass, WebSocket write, `GET /`, release, resume | a released port stays free, a cut-off message is never continued, every request ends, a fault heals |
| WebSocket fan-out (same file) | a 256-message broadcast; one cursor per client | publish, receive, close a client that lagged | a client sees the cart's stream without a hole, or is closed |
| M64P host client (`crates/ap64-cart`) | transport (socket, next rid, copy state), ROM page cache, `missed` | reads, ROM reads, writes, probes, reconnect | a write lands at most once, an acknowledged write landed, a read never mixes two ROM images |
| M64P server (`n64/test-rom/mem_proto.c`) | the request served last (the hold), the watch | one request per frame hook | a copy of a write is not applied again |
| M64P watch (both sides) | watched addresses, queued events, dropped counter | watch, tick, trailer on replies | no event is delivered twice or silently lost |
| agent transport (`n64/agent`) | reassembly buffer, idle ticks, driver state | receive a chunk, drop a stale prefix, probe the cart | a frame is served whole or not at all, and the stream resynchronises |
| L3 framing (`crates/l3`), L2 links | decoder buffer | push octets, take a frame | resynchronisation after garbage |
| Xfer64 bridge pause (`saved-cart-path.js`, `daemon.rs`, `cart_serial_sd.rs`) | count of pauses per daemon address | probe, release, work, resume; release again when the daemon took the port back | the daemon is serving again once nobody works, or the user was told |
| Xfer64 close guard and cancel | per window: sequence number and busy flag | report busy, close, close when idle, cancel | closing never cuts an operation off |
| Xfer64 SD file systems (`crates/multi64-sc64-sd`) | the card; a sector cache for one session | import, delete, rename, make a folder | an update that fails half-way loses space, never data; the cache equals the card |
| Multi64 app (`crates/multi64`) | the daemon process, saved settings, flags of a start and of an exit | start, stop, save, auto-start, exit | one daemon at most, on the saved settings, none after exit |
| connectors (`crates/ap64-connector`) | generation of the cart link, the ROM's mailbox, the client's inbox | relay pass, client connect and drop | packets in order, none lost or repeated across a link restart |
| AP64 app and patcher, cart detection, test tools | - | pure passes and presentation | - |

What is hard here: one serial port is wanted by a reader, by writers, by HTTP requests and by
another process; HTTP clients time out and disconnect while their request is queued or being
served; the path to the console loses messages, and requests are sent twice on purpose; every
client of the daemon hears the replies to all of them; the console may be reset into another
image at any time; ports, cards and cables are pulled between any two steps.

## 2. Modules

| module | what it is |
|---|---|
| `SerialYield` | abstract: what the daemon promises over HTTP (serve or yield the port; each request takes effect at most once), with no lock, reader or I/O |
| `SerialLink` | the daemon's serial link |
| `MCSerialLink` | symmetry for TLC |
| `SerialLinkProofs` | the theorems about `SerialLink`, with proofs |
| `CartLink` | the M64P client and the console's server over a lossy, duplicating path |
| `MCCartLink` | symmetry for TLC |
| `CartLinkProofs` | the theorems about `CartLink`, with proofs |
| `Supervisor` | the Multi64 app's start, stop, save, auto-start and exit around one multi64d |
| `MCSupervisor` | symmetry for TLC |
| `SupervisorProofs` | the theorems about `Supervisor`, with proofs |
| `ExfatCard` | Xfer64's imports, new folders, renames and deletes in one exFAT folder, a sector write a step |
| `MCExfatCard` | the card and the names TLC starts from |
| `FatCard` | Xfer64's copy to a FAT card and its change of case, over the fatfs crate |
| `SdCardProofs` | the theorems about `ExfatCard` and `FatCard`, with proofs |
| `SdSession` | Xfer64's session with a SummerCart64's SD card, and its read cache |
| `SdSessionProofs` | the theorems about `SdSession`, with proofs |
| `BridgePause` | Xfer64's pauses of multi64d around its work |
| `CloseGuard` | Xfer64's close, held while a window works |
| `XferProofs` | the theorems about `BridgePause` and `CloseGuard`, with proofs |
| `WatchEvents` | the watched slot, from the game to the connector |
| `WatchEventsProofs` | the theorem about `WatchEvents`, with its proof |
| `StreamRx` | requests to a console with an EverDrive X7: the cart link's messages, the driver's queue, the agent's reassembly |
| `StreamRxProofs` | the theorems about `StreamRx`, with proofs |
| `MCParts` | the seven parts from `ExfatCard` on, side by side, for one run |

`SerialLink` and `CartLink` meet at the WebSocket: what `SerialLink` does to a WebSocket message
(written whole, dropped because the link is down, cut off) is a lost message in `CartLink`, and
its order-preserving pipe is `CartLink`'s two sequences. They are not composed into one state
space; the facts one takes from the other are those two. `Supervisor` is above both: to it a
daemon is a process that is alive or not, and what it was spawned with.

`BridgePause` meets `SerialLink` at release and resume. It has the daemon as `SerialYield` has it
(requests served in order, each at most once, a client that leaves takes a queued request with it
but not one being served), with a restart added, and asks what Xfer64 makes of that.
`ExfatCard` and `SdSession` meet at the sector: the error or success of a write there is an answer
here, and `SdSession`'s cache is why `ExfatCard` may take a read for what the card holds.
`WatchEvents` is `CartLink`'s path again, with the messages the watch changes and less of the
rest; it takes from there that an answer is matched to its request, and keeps both apart by
`stale`. `StreamRx` is below `CartLink`: it shows when a request that entered the path reaches the
server, and that what reaches it is one request, whole, and not twice, which `CartLink` assumes of
its path to the console (where a copy is one of the client's own).

### SerialLink

State: `link` and `handle` are `LinkState` (a pipe is open iff `Active`, except inside a blocking
task); `holder` and `queue` are tokio's FIFO mutex; `phase` is where a task is (idle, queued, or
holding the lock at a step); `op`, `answer` and `gone` are an HTTP client's request, its answer
and whether it went away; `may`, `wait` and `skips` are `may_reopen` and `ReopenBackoff` in units
of one retry interval; `plug` and `other` are the cable and another process on the port. `io`
records what happened on the present handle.

Each action is one thing one task does: join the queue; give up waiting; one blocking call under
the lock; the assignment that ends its turn. `ReaderPass ... ReaderFaults` are `cart_reader_loop`
and `read_once`, `WsMessage`, `WriteDropped`, `WriteDone`, `WriteFails`, `WriterFaults` are
`write_to_link`, `Request`, `TimeOut`, `Disconnect`, `Status`, `ReleaseCloses` ... `ResumeFails`
are the HTTP handlers. A release or a resume runs in `spawn_blocking` once it has the lock, so a
client that goes away then (`Disconnect` while holding) does not stop it, while one that goes
away in the queue leaves the queue. Whether a port opens depends on the cable and on the other
process; a read or write may fail at any time; the handle of an unplugged device is dead.

### CartLink

State: `phase` and `op` are where the host's one call is; `t` is the transport (next rid, the
rid waited for, whether an early copy went out, whether its agent recognizes copies and serves
ROM reads, which connection it is); `missed`, `cache` and `done` are the client's; `up` and
`down` are the path in each direction; `cart` is the console: image, booting or up, the rid it
holds. `applied` counts how often each write was applied to the running console, `landed` and
`got` are what the properties need of history.

A rid is a number that starts again at 1 on every link, as in the code, where it is 16 bits wide
and wraps after 65 535 requests on one link: the model's do not. A message also
carries the connection it was sent on (`conn`), which neither side reads: it is there for
`HelloDrains` only. Two outcomes the code takes from the clock are free choices: a request may
be sent early once (`QuickCopy`) and may time out while its reply is on the way. Silence of a
console that boots is the exception: it is longer than a reply timeout, so a boot ends only
after one has passed. A probe (`alive`) asks a live link with a PEEK and only notes the miss on a
dead one; every other call dials first.

### Supervisor

State: `child` and `link` are `DaemonInner`'s, `saved` the settings as far as a daemon is spawned
with them (`spawn_args_differ`), `ops` the holder of `DAEMON_OPS`, and `starting`, `spawned` and
`shutdown` the three flags. `does` and `pc` say which command each thread runs and where it is,
`used` and `born` are a start's locals. `procs` is the operating system's: the multi64d processes
alive, with what they were spawned with. `watch` is where each process's `watch_link` thread is.

A step is what a thread does between two points where another can run: a lock held for a few
statements is one step, `DAEMON_OPS` and the waits for the main thread are places of their own.
`Begin ... DropGuard` are `start_daemon` with `start_until_settled` and `start_daemon_locked` in
it, `KillTakesOps` and `Kill` are `kill_daemon`, `SaveWrites ... SaveRestarts` are
`apply_settings`, `CheckRunning` is the look that Start and the tray's toggle take first,
`ClickQuit ... AskExit` the tray's Exit and `CloseWindow`, `MainTakesOps`, `MainKills` the main
thread's. `Announce` and `Tell` are the "daemon-changed" events: the tray's listener runs on the
emitting thread and waits for the main thread, so they can be taken only while that one is in its
loop. A watcher looks whether its daemon is the one recorded, asks whoever answers, and records:
three steps. How a port is found, and whether a start fails for it, is a free choice (`Resolve`);
so is the setting that turns auto-start off. A pid is not used again while the watcher of the
process that had it is still there, a few seconds.

### ExfatCard

State: `slot`, `marked`, `fat` and `data` are the card: the folder's 32-byte slots, the allocation
bitmap, the FAT and the clusters' contents. `ram` is the mounted volume's bitmap. `op`, `at`, `got`
and `fatq` are the command and where it stands; `todo`, `before`, `failed` and `restored` are
`exfat_write_entry_slabs_at`: the sectors to write, the ones written as they were, and whether
they are being put back. `op` also keeps the card as the command found it, which the code re-reads
for its `old` slabs and the properties compare with. `torn` and `twins` are history.
A run starts from one of `Cards`, each of them sound and tidy (`SoundCards`): files with slots, clusters and
names of their own, marked and written, and nothing after the folder's end mark, which is what a card
another program left in order is.

`Begin` is a command's mount, listing, refusals and plan (`Import`, `MakeDir`, `Delete`, `Rename`).
`TakeCluster` to `MarkClusters` are `exfat_create_file_in`'s (and a new folder's) allocation, linking, data and bitmap
in their order, `PutSector` and `RestoreSector` the entry set, `FreeOld` and `Freed` what an
overwrite or a delete gives back, `Undo`, `Released` and `Kept` what a create does after an error,
`Renamed`, `OldNameStays` and `NewNameTakenBack` a rename's second half. `Heads` is a listing: the
parser's walk over slots, with what it takes for an entry set. Each write ends one of three ways:
it worked, it failed, it failed and is on the card; `Unplug` makes all later ones of the command
fail. A bitmap write that failed may have landed in part.

Once a user was told that the card is damaged or that a file has two names (`Warned`), or two
entries share clusters without it (`twins`, finding 5), the card needs a repair that Xfer64 does
not do, and the properties about contents promise nothing more.

### FatCard

State: `folder` is what lies under the file's name and under the two temporary ones, `fatOp` the
operation's next call, `target` the name it writes, `message` what the user was told. The crate's
calls are the steps (`Look` ... `Unmount` are
`write_file_fat_streaming_impl`, `RenameAway`, `RenameArrive`, `FatPutBack`
`fat_rename_case_only_via`). What the crate does inside a call
is assumed: a rename is one step, a failed removal may have freed the clusters first. The program
may end at any step (`ProgramEnds`) and another operation begin on what is left.

### SdSession

State: `phase` is where the host's session is, `commands` and `answers` are what is on the cable
in each direction, `locked`, `buffer` and `sd` the cart's, `cache` the `SectorReadCache`, `mounted`
and `released` the session's flags. `late` on a message says that it belongs to a command that was
given up on: no code reads it, `mixedUp` is computed from it.

`OpenSession`, `Follow` and `ReceiveAnswer` are `open` and the reads and writes, command by command;
`GiveUpCommand` is the deadline of `send_cmp_raw`; `CarryOut` is the cart. The DTR reset is
taken to clear the buffers on both sides except for the command the cart is carrying out, which is
what `IDENTIFIER_GET` after it is there for. A write fails part-way, an init may fail, and the
console writes to its card whenever it has it.

### BridgePause

State: `bridge` and `requests` are multi64d and its queue, `pauses` the noted pauses
(`note_release`), `doing` and `paused` what each operation does and whether it noted one, `untaken`
and `crossed` history. `ProbeBridge ... SendResume` are `withBridgePausedInner`
of `saved-cart-path.js` with the commands of `daemon.rs` it calls, in order; `OpenCart ... NoRetry`
are a cart command of `cart_serial_sd.rs` with the second release it asks for when the port is
taken. A client that gives up on a request that is being served does not stop it (`from` becomes
empty).

### CloseGuard

State: `reading`, `operating` and `seq` are a window's, `reports` the calls of
`explorer_set_busy` on their way, in any order, `latest`, `closing` and `held` are `CloseGuard`'s
fields, `told` the windows an announcement is on its way to. The commands and the close handler
take the guard's lock for all they do, so each is one step. A user's choice on the announcement
is free (`HearClose`).

### WatchEvents

State: `agent` is `s_watch` and `s_events` of `mem_proto.c` for one slot, `toAgent` and `fromAgent`
the path, `asking`, `greeting`, `copied` and `probing` what AP64's one call waits for, `link` and
`fresh` the trailers kept by the transport in use and by the one being greeted, `onCart`, `armed`,
`sampled` and `queue` are `watch_on_cart`, `watch_armed_at`, the last sample and the queue of
`watch.rs`. An event is a number, so order and repetition can be told. `WatchTick`, `HandlePeek`,
`HandleWatch`, `HandleHello` are the console's, `Read`, `Alive`, `SampleWatch` begin AP64's calls,
`QuickCopy`, `Resend`, `Reconnect`, `GiveUp` are what it does about silence, `ReceiveReply` takes
an answer, wanted or not. The trailer takes any number of events (`as many as fit`), and may be
left out (a reply without room for it). `PushedAll` is a queue of bounded size given several events,
the oldest first, so that it keeps the end of them. A reset is `unseen` until AP64 has timed out on it
(`silence`) and heard from the console again (`answered`).

### StreamRx

State: `usb` is what the cart holds for the console, `rxPhase`, `rxqOff`, `rxq`, `rxqLost` and
`rxqBeforeLoss` are the driver's (`ed64.c`), `rx`, `rxDone`, `idleTicks` the agent's (`agent.c`),
and `agentAt`, `pulls`, `arrived` say where in its tick it is. `SendMessage` is one turn of
`write_l3_stream`, a USB message of a window; `BeginTick`, `PullQueued`, `PullUsb`, `ServeFrame`
and `KeepPartial` are the parts of `stream_frame`; `ReadAhead` is one turn of `read_ahead`, which
`ed64_send` does before it writes. `UsbReceive` is what one call of `usb_receive` can come to.

A cell stands for some bytes of a frame, and the first for its whole header: a chunk starts with
it, so no message splits it. "Busy" stands for every place where a PI in use or the clock stops a
call; what was read until then is kept, and the message stays where it is. A message is sound,
without its `DMA@` (`unframed`), without its trailer (`torn`), or of another datatype. Payload
bytes that look like a header are left out.

`hurt`, `hurried`, `cutOff`, `quietTicks`, `served` and `damage` are history. `hurried` is the
exception of `ServedWhole`: a request cut off between two messages leaves a frame without a tail,
and if another request follows before the agent gave it up, that request's first bytes make the tail
up. The agent gives up after `AGENT_STREAM_STALE_TICKS` (60 ticks, which is a second at 60 frames
a second and three at 20); `ap64-cart` waits 1.2 s for a reply before it sends again, and another
client of the daemon waits for nothing. What is served then is a request's header with another's
bytes. `quietTicks` counts the agent's wait from outside: a frame it handles starts the count over, as
`s_rx_idle_ticks` is cleared with it. The exception of `UndamagedServed` is what `Fold` does: of two losses in the driver's queue
one mark remains, and what lay between is dropped.

## 3. Runs

| run | question | instance | states |
|---|---|---|---|
| `SerialLinkSafety` | is the port one task's at a time, free once released, and its stream whole; does the link keep `SerialYield`'s promise | reader, 2 writers, 2 HTTP clients, a PRO cart with backoff cap 3 | 585 174 |
| `SerialLinkLiveness` | does every HTTP request end; does a fault heal | reader, 2 writers, 1 HTTP client, cap 3 | 96 210 |
| `CartLinkWrites` | is a write applied at most once | 2 writes, 1 read, 2 reconnects, 1 reset into an image that refuses writes; late HELLO_ACKs; no ROM header cached | 3 263 992 |
| `CartLinkRom` | is an acknowledged write applied, a greeted link alone, the cache the cart's | 1 write, 2 reads of page 0 or probes, 1 reconnect, 1 reset, 1 busy bus | 3 096 057 |
| `SupervisorSafety` | is there one daemon, on the saved settings, none after the exit; is the link status the daemon's own; can the exit hang | 2 pool threads beside auto-start and the main thread, 2 pids, 2 settings | 6 113 763 |
| `Parts` | the seven questions below | seven parts, one per behaviour | 2 270 586 |
| `CartLinkCopies`, `CartLinkHello`, `CartLinkStitch`, `SupervisorFlag`, `ExfatCardTwins`, `WatchRearmed` | the six findings below | | violation |

| part of `Parts` | question | instance | states |
|---|---|---|---|
| `ExfatCard` | does a reader of the card ever see a lost, partial or shared file; does a command do what it says | 12 slots in 3 sectors, 5 clusters, a plain and a chained file, names of 1 and 2 slots (sets of 3 and 4), files of 0 to 2 clusters, 2 commands, 2 faults | 113 845 |
| `FatCard` | is a file that was whole always to be had; is the user told where it is | no bound: all of it | 732 |
| `SdSession` | is an answer taken for another's; does the cache serve what the card holds; is the card given back | 3 sectors, a cache of 2, 2 messages under way; sessions without end | 950 173 |
| `BridgePause` | is the bridge given back the port when pauses overlap and it restarts | 2 operations, without end | 9 615 |
| `CloseGuard` | does a close cut work off, or wait for nothing | 2 windows, operations in one and reads in both, 3 reports each, forced at the second held close | 7 378 |
| `WatchEvents` | are events shown in order, once, and those lost counted | 2 events, queues of 1, 2 messages under way, 1 fault | 480 940 |
| `StreamRx` | is a request handled whole and once, or not at all; does damage to one cost another | 4 requests of 1, 3 or 4 cells, windows of 2, a queue of 4, a buffer of 3, 2 faults | 707 903 |

`Parts` is one run because the parts share nothing: `part` is chosen at the start, and only that
part's variables move (`Only`), so its states are the parts' states added up and no interleaving
is lost. Each part's specification stands in its own module and can be run by itself; the two
findings about parts are.

Why these bounds. For the link: two clients are what a race of a release with a resume needs, two
writers what an unfair lock needs to starve a third, cap 3 what gives the backoff its doubling and
its clamp. For the client: one retransmission by the quick copy and one by the soft retry give
three messages under a rid; two connections are where rids repeat, and a third is where a HELLO of
the first can greet; one reset between any two steps changes image once. `Depth` bounds each
direction of the path; a request that finds it full is not put there, which stands for its loss.

For the app: two pool threads and auto-start are what two overlapping starts and a Save between
need, as the window sends one Start and one Save at a time (`Alone`); the daemon before and the
one after are two pids, and old and new settings two. Nothing is counted, so commands repeat
without end.

For the parts: an entry set that crosses a sector boundary, a file of two clusters that finds no run
of two (the second command's, once the first has taken or freed one) and a rename that needs
more slots than it has are what the orders of `ExfatCard` are about; a second command also finds
what a failed first one left. Two faults are a
failed write and a failed repair. In `SdSession` an overlapping read, a partly overwritten cached
read and an eviction need 3 sectors and a budget of 2; a late answer and the one waited for are 2
messages. Two operations are two overlapping pauses; queues of one event overflow at the second
(with 3 events and queues of 2, which `WatchSpec` alone allows, its 2 686 962 states keep both properties,
and the order is proved for any size); a third report is the one that a first can undo. In `StreamRx` a request of 3 cells is two messages, one
of 4 is longer than the buffer, and the queue holds two windows; two damaged requests with one
between are what `Fold` drops, and a fourth is the one a splice would serve in its place.

`CHECK_DEADLOCK FALSE` in `Parts` and `WatchRearmed`: Xfer64 exits, and reports, events and
messages are numbered. In the `Supervisor` configurations: the app exits. In the `CartLink`
configurations: requests, reconnects and resets are numbered, and when they are used up the model
stops. `SerialLink` does not stop and deadlock is checked; nor does `ExfatCard` by itself, where
`Over` stands for having no more commands.

### Fairness

`SerialLinkLiveness` assumes weak fairness of the reader starting its next pass and of each task
that holds the lock taking its next step (`ReaderTurn`, `WriterTurn`, `ClientTurn`): the reader is
an unconditional loop on a tokio task, and every call under the lock returns, as serial reads and
writes have a timeout and opening and closing a port return. Nothing is assumed of WebSocket
clients, who may write without end or never, or of HTTP clients, who need not go away or time
out: that a request ends is due to the lock's FIFO order, and the mutation that serves the last
arrival first breaks it. `FaultRecovers` is for a
cart that stays plugged in, with no other process on its port and no release in effect, all three
stated in its definition; reads may go on failing, so it says Active again and again, not for good.

### Findings

1. `CartLinkCopies`, `AtMostOnce`: `poke_once` reads the ROM header between a POKEV and its copy
   when a header is cached. The agent holds only the request it served last, so that PEEKROM
   ends the hold, and a POKEV whose reply was lost is applied a second time by its copy. The
   memory protocol's document (section 4.4), the comment in `poke_once`, the one on
   `resend_poke`, and the test `writes.rs` all say otherwise. The test does not see it because
   no ROM header is cached there. `CartLinkWrites` shows that without a cached header the
   property holds.
2. `CartLinkHello`, `HelloDrains`: `Want::Hello` takes any HELLO_ACK, so one to a connect that
   gave up greets the next one, while requests of older links are still to be answered. With
   HELLO_ACKs that come in time (`SlowHello = FALSE`) the property holds (`CartLinkRom`).
3. `CartLinkStitch`, `OneImage`: `recheck_rom` compares the ROM only when page 0 is cached. With
   another page cached a reset into another image goes unnoticed, and one ROM read returns pages
   of both.
4. `SupervisorFlag`, `StartingCovers`: a start clears `STARTING` when it has settled, and its
   `StartingGuard` clears it again when it is dropped, after `DAEMON_OPS` was released. A second
   start that begins between the two loses the flag to the first one's guard, and probes and
   spawns with `STARTING` unset, so the window offers Start again and a third start is not
   refused. The comment on `STARTING` says it is set for the whole of a start. `OneDaemon` and
   `OnSaved` do not depend on it.
5. `ExfatCardTwins`, `TwinsTold`: a rename to a longer name writes the new entry set, then clears the
   old one. `exfat_write_entry_slabs_at` says with its error whether a failed write was put back,
   and `exfat_create_file_in` heeds that; `rename_cart_exfat` drops it with `?`. When the sectors
   reached the card and the cable went before they could be restored, the user hears of an
   error and the folder lists two entries over the same clusters, of which the comment a few lines
   below says that deleting either would free the other's data.
6. `WatchRearmed`, `WatchRearmed`: a console reset into the same image, waited out with retries on
   one link, has forgotten the watch. `recheck_rom` finds the same ROM and only clears `missed`;
   `watch_on_cart` and `watch_armed_at` stay, so the slot is neither watched nor sampled until
   the link is renewed. The comment on `watch_armed_at` says that a cart that restarted is asked
   again before anything relies on the watch.

`CacheIsCarts` states less than one might wish, and says so: `unseen` excludes a reset that no
request of the host could have noticed (none was sent while the console was silent), and a recheck
whose own reply is lost leaves `missed` set until the next answer.

## 4. Proofs

`SerialLinkProofs` proves, for all finite or infinite sets of writers and clients, any backoff cap
and either kind of cart:

| theorem | states |
|---|---|
| `LinkTypes` | `TypeOK` is an invariant, with the backoff's wait within its cap and the passes still to skip within the wait |
| `LinkLock` | `LockDiscipline`: one holder; the queue is exactly the waiting tasks, each once; a refused request is nowhere |
| `LinkPipe` | `PipeAgrees`: outside the lock, Active is an open pipe on which nothing failed |
| `LinkStream` | `NoMixedStream`: nothing is written after a message that was cut off |
| `LinkReleased` | `ReleasedPortIsFree`: a released port is open only for a resume being served |
| `LinkKeepsPromise` | `YieldRefined`: `SerialLink` implements `SerialYield` |

Assumptions: the named ones of `SerialLink` (the three kinds of task are disjoint, `None` is none
of them, the cap is positive).

The inductive invariant is `IInv` = `TypeOK` /\ `LockDiscipline` /\ `PhasesByTask` /\
`PhasesAndPipe` /\ `PipeExplained`. `LockDiscipline` is needed because a step's guard speaks of
one task's phase while the property speaks of the link: only that no other task is in a holding
phase makes the link what this task left. `PhasesByTask` says which phases each kind of task can be
in and with which request (a client in "opening" is a resume), `PhasesAndPipe` what the link is in
each of them (a task in "faulting" has a live or dead handle under an Active link), and
`PipeExplained` that a pipe on which something failed is held by the task that is about to drop
it. The proof of the step has a lemma per group of actions. `YieldRefined` needs the same
invariant: a step of the reader or of a writer maps to `TakePort`, `DropPort` or a stutter, and it
is `PhasesAndPipe` that says a released port is opened only for a resume.

`SupervisorProofs` proves, for any threads, pids and settings, finite or not:

| theorem | states |
|---|---|
| `SupervisorTypes` | `TypeOK` is an invariant |
| `SupervisorOneDaemon` | `OneDaemon`: two multi64d are never alive together |
| `SupervisorOnSaved` | `OnSaved`: with no command under way, a running bridge is on the saved settings |
| `SupervisorNoneAfterExit` | `NoneAfterExit`: nothing is alive once the exit has killed the daemon |
| `SupervisorLink` | `LinkIsChilds`: the link recorded was said by the daemon that runs |
| `SupervisorNoHang` | `NoHangOnExit`: the exit waits for no thread that waits for the main thread |

Assumptions: the named ones of `Supervisor` (the threads are distinct, `None` is neither a thread
nor a pid, and no pid is one of the words a watcher's state is written with).

The inductive invariant is `TypeOK` /\ `OneDaemon` and six conjuncts. `OpsHeld` makes `DAEMON_OPS` the
place of one thread. `ProcsKnown` is why there is one daemon: a process is the recorded one or the
one about to be recorded, and from the kill to the spawn there is none, which holds only because
the place of a start is one thread's. `StaleIsReplaced` is `start_until_settled`'s argument: if
the daemon is not on the saved settings, some thread is at a place from which it will start or
compare again; it needs `StartingIsStart`, as a Save that saw `STARTING` set relies on the start
it saw, and that one stays true although `STARTING` can be unset during a start (finding 4): the
code needs only that it is never set without one. `ExitFlagged` is that the exit sets its flag
before it waits, and that nothing is about to spawn when it has killed. `WatchesOwn` is that a
watcher that heard a stranger has lost its daemon for good.

`XferProofs` proves, of `BridgePause` for any operations, with no assumption on them:

| theorem | states |
|---|---|
| `PauseTypesHold` | `PauseTypeOK` is an invariant |
| `NotesAgree` | `PausesNoted`: the count is the number of operations that noted a pause |
| `GivenBack` | `BridgeGivenBack`: with nothing under way the bridge is not left released, but for the two exceptions it names |

`PauseInvariant` is the inductive one (`PauseIInv`): `PauseTypeOK`, `NotesCounted` (`PausesNoted` with the
finiteness it needs) and `Kept`, which has four parts. `PlacesPaused` is where an operation with a
pause can be. `RequestsOwned` is that a request's client waits for just that request, and that each
waits for one at most, so that a served or withdrawn request concerns one operation.
`RequestsAttended` is that a queued request other than the first has its client: only one being
served goes on without. `ReleasesAnswered` is the argument for `GivenBack`: while the bridge is
released, or is serving a release, some operation has its resume still to send, or one is queued,
or an exception holds. It needs the others: a release whose operation withdrew while it was being
served is answered for by that operation's resume only if nobody else's request went with it. The
lemmas `DropAt` and `ReplaceHead` say what leaving the queue makes of it.

and of `CloseGuard`, for any windows, any `Copying`, any number of reports and any threshold:

| theorem | states |
|---|---|
| `CloseTypesHold` | `CloseTypeOK`, with fewer than `ForceAfter` closes held while Xfer64 runs |
| `ExitWaitsForWork` | `ExitsWhenIdle` |
| `GuardKnows` | `GuardCatchesUp` |
| `CloseRemembered` | `CloseNotForgotten` |

Assumption: `ForceAfter` is positive. `CloseInvariant` (`CloseIInv`) is `CloseTypeOK` with `ReportsTrue` (no report
is numbered beyond the last sent, and the last says what the window does), `LatestOrComing` (the
last report sent was received or is on its way), `IdleThen` (after an exit for idleness the guard
had nobody busy) and `CloseNotForgotten`, which is inductive only with the types.

`SdSessionProofs` proves, for any card, any budget of the cache and any number of messages:

| theorem | states |
|---|---|
| `AnswersAreFresh` | `FreshAnswers`: unless a command was given up on, no answer is taken for another command's |
| `CardChangesHands` | `CardPassedOn`: while a session works, the cart keeps the card for the PC, and one that ended left it to the console |
| `CacheServesTheCard` | `CacheIsCard`: unless a command was given up on, what the sector cache would serve is what is on the card |
| `SdTypeCorrect` | `SdTypeOK`, with the cache in its budget and no sector cached twice |

Assumptions: the last sector and the cache's budget are numbers. `SessionInvariant` says four things. `Types`. `OnCable`:
answers are older than commands, and what the session waits for is behind identifications only; until
the identification comes, at most one message of an earlier session is before it, the one a
reset does not clear. `WhoseCard`: by phase, and by whether the cart has carried out the command,
who has the card. `ReleasedWhenOver`: a session that works was not released. The second and third
hold of a session in which no command was given up on, which is what the properties except:
`send_cmp_raw` matches an answer by its kind alone, so a late one may be taken for the next.
`CacheInvariant` is the cache's: anything is cached only while the session has the card (`CachedInOurs`), the
command under way is for the request wanted (`Asked`), what was read for it, in the cart's buffer and
then in the answer, is what the card holds (`Buffered`), and while a write is on its way none of its
sectors is cached (`Uncached`), which is what invalidating them before the write starts gives. What
`Invalidated` leaves of the cache is a recursive function, shown to exist sector by sector.

`StreamRxProofs` proves, for any window, any sizes of the queue and the buffer, any lengths and numbers
of requests and of losses:

| theorem | states |
|---|---|
| `BuffersHold` | `RxTypeOK`: a message is put together inside `s_rxq`, `s_rx` is never overfilled, the mark of a loss is in the queue |
| `HandledInOrder` | `ServedInOrder`, a conjunct of `ServedWhole`: requests are handled in the PC's order, none twice |
| `RequestsWhole` | `ServedWhole`: in that order, and each request handled is one the PC sent, whole, but for one cut off and followed too soon |
| `UndamagedHandled` | `UndamagedServed`: with nothing left to read, every request that came undamaged was handled, but between two that were hurt |

Assumption: a window fits in the queue, and sizes and lengths are numbers, positive where the code needs
it. `Bounded` is `RxTypeOK` with the shapes of the sequences and one fact it needs: the agent has dropped
the frame it handled before it pulls. `InRow` says that what the agent holds behind that frame, the
queue and the cart's messages are one row: each in order, each before the next, all behind the header
handled last and before what the PC writes next. Every action takes something out of the row, moves
its front from one place to the next, or adds at its end (`PartsKept`, `HandedOver`, `Queued`,
`RowAppends`, `RowServes`); a frame begins with its header, so its number is above the last one's.
Order is not enough for `ServedWhole`: a loss between two cells keeps it. `Unbroken` says that with no
loss between them the next cell goes on where the last one left off (`Follows`), unless that one
ended its frame, its frame is longer than `s_rx`, or it was cut off and followed too soon. `Flow` says
so of the row: up to the mark of a loss and behind it in the driver's queue, and from message to
message in the cart, where messages of other programs stand between two of the PC's (`Leads`). Behind the last cell there
is the PC, which goes on with the frame or has cut it off (`Open`). Two more conjuncts say when
that is over: what is cut off was written to its end as the PC counts, and while the agent holds
anything, it has waited for at least the ticks that were quiet, so once `StaleTicks` were quiet it
holds nothing. A loss on the way either empties what the agent holds or is marked before anything joins the queue
behind it (`FlowLoses`, `FlowPast`); what joins does so behind its own last cell (`FlowJoins`,
`FlowAppended`). A header, and from each cell the next, then make a whole frame (`StepsAreWhole`).

`UndamagedServed` speaks of a moment with nothing left to read; `Accounted` says what holds before it. Of
every request that is not hurt, handled or between two that are, all that the PC has sent is in the
row, in no message that will be lost (`Due`); and a loss, marked or still in the cart, is of a request
that is hurt, with nothing of a later one before it and nothing of an earlier one behind it (`LossAt`,
`HarmKnown`). The agent passes over bytes only before the first header `s_rx` can hold, so none of a frame
whose header it has (`DueHeld`). A loss empties what it holds only when there is no whole frame in it, and
of a frame before the loss everything would be there: by `Unbroken` the driver's bytes would then make
it up (`WholeIsSeen`, `DueSpared`). Of two losses that `Fold` makes one, what lay between is between two requests
that are hurt; and what the agent gives up becomes hurt.

`CartLinkProofs` proves, for any writes, pages, images and agents, any number of retries, reads,
reconnects, resets and busy answers, and a path of any depth:

| theorem | states | if |
|---|---|---|
| `CartTypes` | `TypeOK` | |
| `LinkHearsItsOwn` | `HelloDrains`: on the path of a greeted link there is only what was sent on it | `~SlowHello` |
| `WrittenWasApplied` | `AckTruthful`: a write reported written was applied to the running console | `~SlowHello` |
| `WritesLandOnce` | `AtMostOnce`: no write is applied twice to a running console | `0 \notin Pages`, `Images \subseteq Recognizes \cup Refuses` |
| `CachedIsTheCarts` | `CacheIsCarts`: what is cached of the ROM, with no miss outstanding, is the ROM on the cart | `~SlowHello`, `Pages \subseteq {0}` |

Assumptions: the named ones of `CartLink`. The conditions in the last column are where the code's promise
ends, and each is there because TLC breaks the property without it. `~SlowHello` says that the daemon's
path answers a HELLO before the client gives it up (finding 2 is what happens otherwise). `0 \notin Pages`
says that the ROM header was not read through the cache: a write then asks for nothing between its
original and its copy (finding 1). The other condition of `WritesLandOnce` says that an agent that takes
writes recognizes copies, or takes none: with an agent of neither kind, a reset into it while an original
and its quick copy are both queued has it apply both. `Pages \subseteq {0}` says that nothing but the page
the recheck compares is cached (finding 3).

Four inductive invariants, each on top of the one before. `Types` is `TypeOK` with `ReadHolds` and
`PhaseFits`, what a phase needs of the call and of the transport. `LinkHolds` has three parts. `HelloLast`: a
HELLO is the last message on the path, and while its answer is under way nothing is before that and the
server holds nothing, which is why a link starts clean although rids start again at 1. `OneLink`: all else
on the path, and what the server holds, is of the link in use and has a rid below the next one.
`WriteTold`: under the rid of the write in progress there is only that write, and whoever acknowledges it or
holds it has applied it. `AckTruthful` is its last clause carried to the moment the client reads the answer.
`AppliesOnce` says why a repeated write is not applied again: the copies of one write are next to
each other on the way (`OneRun`), nothing the client sends comes between them (`NextCopy`,
`NoHeader`), and once it is applied a copy still on the way is at the front and its rid is the one held
(`Recognized`), so that the next message the server takes is the copy. `RomHolds` is for the cache: a
page in it is the running image's unless a reset is known or about to be (`PageIsCarts`, `ResetKnown`),
and a recheck under way (`CallHolds`) compares with the image that answers it. `Appended`, `Taken`,
`Dropped` and `DownFrom` say what sending, serving and losing make of a path.

`SdCardProofs` proves, of `ExfatCard` for any card, names, sizes and numbers of commands and faults:

| theorem | states |
|---|---|
| `CancelTakesNothing` | `CancelLeavesNothing`: a command that fails although no write did leaves the folder and the bitmap as they were, and the FAT but for entries of free clusters |
| `ReplaceIsAtomic` | `ReplaceAtomic`: a file being replaced is listed at every moment, with its old contents or its new ones |
| `FilesStayMarked` | `LiveMarked`, while `~torn`: a file that is listed names only clusters marked on the card |
| `FilesStayWhole` | `ContentKept`, while `~torn`: a file that is listed holds all of what its user put in |
| `ReportsAreTrue` | `DoesWhatItSays`: what a command reports is what a listing shows, until an entry-set write fails and is not put back |
| `FatKeepsToChains` | `FatAgrees`, if it was so of the card to start from (`CardsAgree`): until a write fails, the FAT has entries for the clusters of chains only |

and of `FatCard`, which has no constants, so that TLC's run is all of it too:

| theorem | states |
|---|---|
| `FatKeepsFiles` | `FatFileKept`: a file that was there can be had at every moment, and is untouched until the copy over it is complete |
| `FatTellsWhere` | `FatTold`: what the user is told says where the file is |

Assumptions: a card's bitmap and FAT are of its own clusters, sizes are numbers, a name has a part, and the
cards a run starts from are sound and tidy (`SoundCards`): a file's slots, clusters and name are its
own, its clusters are marked and hold what was put in, and nothing follows the end mark. `~torn` says that no entry-set write failed so that its
restore failed too; after one that was, `LiveMarked` and `ContentKept` are TLC's alone, and only as long as
no two entries are left over one cluster.

`CancelHolds` is the invariant of `CancelTakesNothing`. A command that met no fault (`NoFaultYet`) finds the cable in and puts nothing
back, and until its entry is written, or while it gives clusters back, it is `Untouched`: the folder and
the bitmap on the card are as it found them, the bitmap in memory is that with the clusters taken, the
FAT differs at the planned clusters only, and those were free; when it releases them, each has a free entry
or one still to be written. That a plan is of free clusters (`PlanIsFree`) rests on `LeastIs`, that a
set of numbers has a least one, by way of the well-foundedness of the naturals: `InOrder` takes the
least number for which a plan in order fails to exist, which is induction without its operator.

`FolderHolds` adds the folder. `Command` says what a command that was begun found and chose, `Stages`
which commands pass through which stage, and `FolderNow` what the folder is in each: as found until
the entry is written, all of the new entry set over it when it is (`Changed`), and between them
`SectorsPut`: some of its sectors written, in order, over the folder the write began with, and those
still to be restored from `before` (`PutsAt`). Which slots a sector covers comes from `SectorWritesAre`.
For `ReplaceIsAtomic` a new entry set is slot for slot of the same shape as the one it goes over
(`Alike`), so that whichever sectors have landed a listing goes the same way through the folder and
finds the same heads (`HeadsAlike`), and the name, which is the same in both. That a listing is what
its equation says is shown from the end of the folder backwards (`GatheredExists`, `HeadsAre`).

`KeptHolds` adds the clusters. The clusters planned for are distinct, unmarked, and in a row if they are not chained
(`Fresh`). While a command works (`Working`), the folder it found is `Sound` over the clusters then marked, and
these stay marked on the card and in memory; `Progress` says how far its own clusters are: taken, linked
or still queued to be, written up to `got`, marked before the entry is put. While clusters are given
back (`Freeing`), the folder is sound over what is in use both on the card and in memory, and none that is
still to be given back is in a file's chain. A command that ends leaves a sound folder, unless it warned of two
names. `FilesNow` draws from this that at every moment, with an entry set half written or half put
back, each file found has a chain that is marked and holds what was put in: a slot is the found
folder's or the new set's, and a file's stream slot is its own. What a chain is comes from `ChainAt`, and
that a step leaves it alone from `ChainSame`: only the entries it passes count.

`ToldHolds` is the invariant of `ReportsAreTrue`, and asks nothing of the clusters. A command begins in a
folder that is laid out and tidy; the name it is given is nobody else's there and the slots it chose are
free (`Chosen`). In such a folder a listing finds every file (`AllListed`), so its files can be told slot
by slot (`FilesAre`) rather than by the walk. With the whole new entry set in, the old file's slots are the
new one's or are cleared later, all others are as found, and the folder ends where it did or further on (`EndsOn`): the
files are those found, less the old one, with the new one (`ReplacedIsDone`), or, between the two entry
sets of a rename, both (`BothAreListed`). A write that fails and is put back leaves the folder as
it was before it. `ToldEnds` is the end of a command, where its report has to fit (`Outcome`).

`AgreeHolds`, for `FatKeepsToChains`, speaks of a card on which nothing failed (`FaultFree`). Between commands every
cluster with a FAT entry is of a file's chain; while one works, of a chain it found or planned for (`Accounted`). Planned clusters
in a row have lost their end marks before the data are written (`Unlinking`, `Unlinked`), and what is given back
has an entry only as long as it is queued (`Queue`). The chains themselves stay (`AccountedOn`), because nothing but
planned clusters and those of no file are written to, which is `KeptHolds`; `AccountedAfter` is the
end, with the new file's chain in and the old one's out. `CardsAgree` is a condition because the code
takes cards that other programs wrote, and asks of their FAT only that it links no cluster of a free run on
to another (`ChainedButFree`).

`FatHolds` says for each next call what is under which name: until a copy is complete it is aside
(`CopyAside`), from then on it is whole (`CopyComplete`), and a file whose case changes is under one of two
names (`Recasing`).

`WatchEventsProofs` proves, for any number of events, messages and troubles and any sizes of the queues:

| theorem | states |
|---|---|
| `EventsShownInOrder` | `EventsInOrder`: the connector is shown the events in the order in which they happened, none twice unless one was sampled |
| `NoEventUncounted` | `EventsCounted`: while no message is lost, every event the agent saw was shown, is on its way, or is counted as dropped |

Assumption: both queues have room for an event, and the agent's count saturates at a number. The
invariant is `EventsHold`. `Rises`: what the agent holds and what it sent, message by message, is in
order, of events that happened, and before the event its next look finds (`Due`), which is what a
game that writes between two looks could break. `WatchFollows`: while AP64 relies on the watch, what
its link keeps is in order and after what the connector was shown or will be (`Told`), and all that is
on the path comes after both. Neither survives a new link or a reset by itself: a watch is relied
upon again when its WATCH_ACK comes, so `AckFollows` says the same of what is behind such an
answer on the path, which is true when it is sent as the agent then holds nothing and has
looked at nothing. `SampleFollows` is for the time without a watch: a sample still waited for is no
older than what was told. The lemmas `Looks`, `Writes`, `Appends`, `Drops` and `Stales` say what a look of the agent, a
write of the game, an answer, a loss and a new request make of the path, whatever must stay
before it; `Ends` and `Joins` what the queue of the connector makes of what it is given.

`Counted` is the invariant of the second. While nothing was lost, no HELLO is on the path once the link is
greeted, before the agent's first look and before the WATCH_ACK nothing was reported (`Unwatched`,
`AcksFirst`), and from then on the books are square (`Balance`): the events owed are those in the queues
of the connector and of its link, those on answers on the path, those the agent holds, and those dropped
that were not yet reported. What the answers on the path hold is `FlattenSeq`, a recursive function; it
is shown to exist and to count by way of a path as short as any on which it would not.

Only model-checked: liveness (TLAPS has no fairness or ENABLED); and the types of the parts that `MCParts`
runs side by side (`PartsTypeOK`), most of which are theorems of the parts.

## 5. Not modelled, and the plan

In this order:

1. The way back: `ed64_send`, which waits while the cart's buffer is full, the write buffer of
   `ed64-l2` that gives a stall 500 ms, and the L3 decoder of the host. A reply arrives whole or not
   at all; neither side waits for the other for good.
2. `Relay`: the connector's cycle between a ROM's mailbox and its clients over a link that restarts.
3. `WsFanout`: the broadcast to WebSocket clients; most of it is tokio's.
4. Liveness of `Supervisor`: every command ends and the exit is reached, under weak fairness of
   the threads (and, for `DAEMON_OPS`, what parking_lot's eventual fairness gives); and a history
   of the user's stops, for auto-start that undoes one.

Abstract specifications worth stating next: a write-once register for `CartLink`, one-process
supervision for `Supervisor`.

What the modelled parts leave open:

- `BridgeGivenBack` excepts a second release by an operation that found no bridge to pause and
  met another's pause (`crossed`): nobody's resume is owed for it. The comment beside it in
  `cart_serial_sd.rs` counts on the resume of the pause it was made in.
- A cancel that a user gives while an operation prepares is lost when the copy starts, as
  `resetProgressCancel` clears the flag; the flag is not in `CloseGuard`.
- An event sampled before the watch was set up can be shown again by the watch (`resampled`).
- A reopen made too early: `TypeOK` bounds the backoff from above and `FaultRecovers` says that it
  ends; that no attempt comes before `not_before` is the guard of one task and no property.
- The wrap of a rid after 65 535 requests on one link (rids are unbounded in `CartLink`), and what
  the agent's counter of dropped events loses once it is saturated: `EventsCounted` speaks of
  counts below, `Parts` drops too few events to get there, and `NoEventUncounted` covers every
  number of them up to it.
- The second release by the drop, after one that failed: `DropSession` has it, but `CardPassedOn`
  is of sessions without a command given up on, and in those no release fails.
- A late answer of the same session that is of the kind waited for is taken (`timedOut`): the
  identification protects sessions from each other, not commands of one session.
- Two requests of which the first was cut off can be handled as one (`hurried`). `StreamRx` has
  the EverDrive X7 only; the SummerCart64 hands over one frame a message, and the X-series PRO
  feeds the same `stream_frame` from a FIFO.
- Growing a folder, recursive deletes and the deletes of FAT folders; EverDrive sessions; several
  watched slots and their filters.

Left out for good: patching and copy planning (one pure pass over data), argument parsing,
presentation, register-level cart drivers and packet layouts, whose correctness is that of
their bytes.
