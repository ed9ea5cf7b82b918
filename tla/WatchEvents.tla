---------------------------- MODULE WatchEvents ----------------------------
(***************************************************************************)
(* The watched slot.  The agent on the console looks at the slot every     *)
(* frame, queues what changed in it and sends the queue as the trailer of  *)
(* whatever read it answers next; AP64 keeps the trailers of all answers,  *)
(* late ones included, and hands the events to the connector one by one.   *)
(* Where the agent does not watch, AP64 compares samples of its own.       *)
(* Requests and answers keep their order and may be lost; the console may  *)
(* be reset; AP64 asks again, and greets the agent anew on a new link.     *)
(***************************************************************************)
EXTENDS Integers, Sequences, SequencesExt

CONSTANTS
  MaxEvents,    \* bound: events of the game, numbered from 1
  AgentQueue,   \* M64P_WATCH_QUEUE
  HostQueue,    \* QUEUE_CAP
  MaxDropped,   \* where the agent's count of dropped events saturates
  MaxMessages,  \* bound: requests and answers under way
  MaxTrouble    \* bound: messages lost, resets and new links

ASSUME QueuesAssumption ==
  AgentQueue \in Nat \ {0} /\ HostQueue \in Nat \ {0} /\ MaxDropped \in Nat

VARIABLES
  watched,      \* what the game's slot holds: an event's number, or 0
  happened,     \* how many events there were
  agent,        \* [watching, have, last, queue, dropped]: s_watch and s_events
  toAgent,      \* requests: [msg, stale, sample]
  fromAgent,    \* answers: [msg, stale, events, dropped, sample]
  asking,       \* what AP64 waits for: "none", "watch", "peek", "alive", "sample"
  greeting,     \* whether it waits for a HELLO_ACK first, on a new link
  copied,       \* whether the request went twice
  probing,      \* the read carries a sample of the slot
  link, fresh,  \* the transport, and the one being greeted: [events, seen, new]
  onCart, armed,
  sampled,      \* the last sample compared: an event's number, 0, or -1 for none
  queue,        \* events not yet shown to the connector
  shown,        \* the last event shown to the connector
  lossless,     \* no message was lost, and nothing the agent held forgotten
  owed,         \* meanwhile: events the agent queued, less those shown or
                \* known to be lost
  resampled,    \* an event was queued from a sample
  trouble,      \* how many of these there were
  reset         \* a reset of the console: "none", "unseen", "silence" when
                \* a request then timed out, "answered" when another did not

console == <<watched, happened, agent>>
wire == <<toAgent, fromAgent>>
waiting == <<asking, greeting, copied, probing>>
seen == <<link, fresh, onCart, armed, sampled, queue, shown, resampled>>
counts == <<lossless, owed>>
watchVars == <<console, wire, waiting, seen, counts, trouble, reset>>

NoWatch == [watching |-> FALSE, have |-> FALSE, last |-> 0, queue |-> <<>>, dropped |-> 0]
NewLink == [events |-> <<>>, seen |-> 0, new |-> 0]
Least(a, b) == IF a < b THEN a ELSE b

\* A queue that drops its oldest when full, with events pushed one by one, and
\* what it then dropped.
Pushed(q, e, cap) == Append(IF Len(q) = cap THEN Tail(q) ELSE q, e)
PushedAll(q, es, cap) ==
  LET all == q \o es
  IN SubSeq(all, IF Len(all) > cap THEN Len(all) - cap + 1 ELSE 1, Len(all))
DroppedBy(q, es, cap) == Len(q) + Len(es) - Len(PushedAll(q, es, cap))

\* Messages no longer waited for; nobody looks at the samples they bring.
Stale(ms) == [i \in 1..Len(ms) |-> [ms[i] EXCEPT !.stale = TRUE, !.sample = 0]]
Room == Len(toAgent) + Len(fromAgent) < MaxMessages
\* A request; sample is 1 if it reads the slot, too.
Request(msg) ==
  [msg |-> msg, stale |-> FALSE, sample |-> IF probing' /\ msg = "PEEKV" THEN 1 ELSE 0]
SendRequest(msg) == toAgent' = Append(Stale(toAgent), Request(msg))
Trouble ==
  /\ trouble < MaxTrouble /\ trouble' = trouble + 1
  /\ lossless' = FALSE /\ owed' = 0
Owed(n) == owed' = (IF lossless THEN owed + n ELSE 0) /\ UNCHANGED lossless

-----------------------------------------------------------------------------
(* The console.                                                            *)

\* The game records an event, or is done with the last.
GameWrites ==
  /\ \/ happened < MaxEvents /\ happened' = happened + 1 /\ watched' = happened + 1
     \/ watched' = 0 /\ UNCHANGED happened
  /\ UNCHANGED <<agent, wire, waiting, seen, counts, trouble, reset>>

\* The agent at a frame: the first look is a baseline, and a slot going to
\* zero no event.
WatchTick ==
  LET event == agent.have /\ watched # agent.last /\ watched # 0
      full == Len(agent.queue) = AgentQueue
  IN /\ agent.watching
     /\ agent' = [agent EXCEPT
          !.have = TRUE, !.last = watched,
          !.queue = IF event THEN Pushed(@, watched, AgentQueue) ELSE @,
          !.dropped = IF event /\ full THEN Least(@ + 1, MaxDropped) ELSE @]
     /\ Owed(IF event THEN 1 ELSE 0)
     /\ UNCHANGED <<watched, happened, wire, waiting, seen, trouble, reset>>

Respond(msg, q, trailer) ==
  /\ toAgent' = Tail(toAgent)
  /\ fromAgent' = Append(fromAgent, [msg |-> msg, stale |-> Head(toAgent).stale,
                                 events |-> q, dropped |-> trailer,
                                 sample |-> Head(toAgent).sample * watched])

\* Both forget what was watched, and what was queued.
HandleHello ==
  /\ toAgent # <<>> /\ Head(toAgent).msg = "HELLO"
  /\ agent' = NoWatch
  /\ Respond("HELLO_ACK", <<>>, 0)
  /\ UNCHANGED <<watched, happened, waiting, seen, counts, trouble, reset>>

HandleWatch ==
  /\ toAgent # <<>> /\ Head(toAgent).msg = "WATCH"
  /\ agent' = [NoWatch EXCEPT !.watching = TRUE]
  /\ lossless' = (lossless /\ ~agent.have) /\ owed' = IF agent.have THEN 0 ELSE owed
  /\ Respond("WATCH_ACK", <<>>, 0)
  /\ UNCHANGED <<watched, happened, waiting, seen, trouble, reset>>

\* Variant: what was sent is sent again until the queue overflows.
HandlePeek_KeepsQueue ==
  /\ toAgent # <<>> /\ Head(toAgent).msg = "PEEKV"
  /\ \E n \in 0..Len(agent.queue) :
        /\ Respond("PEEKV_RESP", SubSeq(agent.queue, 1, n),
                  IF agent.watching THEN agent.dropped ELSE 0)
        /\ agent' = agent
  /\ UNCHANGED <<watched, happened, waiting, seen, counts, trouble, reset>>

\* The trailer takes as many events as fit, and is left out where it does not.
HandlePeek ==
  /\ toAgent # <<>> /\ Head(toAgent).msg = "PEEKV"
  /\ \/ /\ agent.watching
        /\ \E n \in 0..Len(agent.queue) :
              /\ Respond("PEEKV_RESP", SubSeq(agent.queue, 1, n), agent.dropped)
              /\ agent' = [agent EXCEPT !.queue = SubSeq(@, n + 1, Len(@))]
     \/ Respond("PEEKV_RESP", <<>>, 0) /\ UNCHANGED agent
  /\ UNCHANGED <<watched, happened, waiting, seen, counts, trouble, reset>>

ConsoleReset ==
  /\ agent # NoWatch \/ toAgent # <<>>
  /\ agent' = NoWatch /\ watched' = 0
  /\ toAgent' = <<>> /\ fromAgent' = <<>>
  /\ Trouble /\ reset' = "unseen"
  /\ UNCHANGED <<happened, waiting, seen>>

LoseMessage ==
  /\ \/ toAgent # <<>> /\ toAgent' = Tail(toAgent) /\ UNCHANGED fromAgent
     \/ fromAgent # <<>> /\ fromAgent' = Tail(fromAgent) /\ UNCHANGED toAgent
  /\ Trouble
  /\ UNCHANGED <<console, waiting, seen, reset>>

-----------------------------------------------------------------------------
(* AP64 asks.                                                              *)

AskAgent(what, msg) ==
  /\ Room
  /\ asking' = what /\ greeting' = FALSE /\ copied' = FALSE
  /\ SendRequest(msg) /\ fromAgent' = Stale(fromAgent)

\* A read arms the watch first, on each new link.
Read ==
  /\ asking = "none"
  /\ IF armed THEN probing' = ~onCart /\ AskAgent("peek", "PEEKV")
     ELSE probing' = FALSE /\ AskAgent("watch", "WATCH")
  /\ UNCHANGED <<console, seen, counts, trouble, reset>>

\* The idle probe reads some other place, and is not sent again.
Alive ==
  /\ asking = "none" /\ probing' = FALSE /\ AskAgent("alive", "PEEKV")
  /\ UNCHANGED <<console, seen, counts, trouble, reset>>

SampleWatch ==
  /\ asking = "none" /\ ~onCart /\ probing' = TRUE /\ AskAgent("sample", "PEEKV")
  /\ UNCHANGED <<console, seen, counts, trouble, reset>>

QuickCopy ==
  /\ asking \in {"peek", "alive", "sample"} /\ ~greeting /\ ~copied /\ Room
  /\ copied' = TRUE /\ UNCHANGED probing
  /\ toAgent' = Append(toAgent, Request("PEEKV"))
  /\ UNCHANGED <<console, fromAgent, asking, greeting, seen, counts, trouble, reset>>

\* After a timeout the request goes again on the same link...
Resend ==
  /\ asking \notin {"none", "alive"} /\ ~greeting
  /\ UNCHANGED probing
  /\ AskAgent(asking, IF asking = "watch" THEN "WATCH" ELSE "PEEKV")
  /\ reset' = IF reset = "unseen" THEN "silence" ELSE reset
  /\ UNCHANGED <<console, seen, counts, trouble>>

\* ...or on a new one.
Reconnect ==
  /\ asking \notin {"none", "alive"} /\ Room
  /\ greeting' = TRUE /\ copied' = FALSE /\ UNCHANGED probing
  /\ SendRequest("HELLO") /\ fromAgent' = Stale(fromAgent)
  /\ fresh' = NewLink
  /\ Trouble
  /\ UNCHANGED <<console, asking, link, onCart, armed, sampled, queue, shown,
                 resampled, reset>>

\* A watch that could not be set does not keep the read from going out.
GiveUp ==
  /\ asking # "none"
  /\ IF asking = "watch" THEN probing' = ~onCart /\ AskAgent("peek", "PEEKV")
     ELSE /\ asking' = "none" /\ greeting' = FALSE
          /\ toAgent' = Stale(toAgent) /\ fromAgent' = Stale(fromAgent)
          /\ copied' = FALSE /\ probing' = FALSE
  /\ UNCHANGED <<console, seen, counts, trouble, reset>>

-----------------------------------------------------------------------------
(* AP64 receives.                                                          *)

\* Variant: only the answer waited for gives up its trailer.
KeepTrailer_IfWanted(t, r) ==
  IF r.stale THEN t
  ELSE [events |-> t.events \o r.events,
        seen |-> IF r.dropped > t.seen THEN r.dropped ELSE t.seen,
        new |-> t.new + (IF r.dropped > t.seen THEN r.dropped - t.seen ELSE 0)]

KeepTrailer(t, r) ==
  [events |-> t.events \o r.events,
   seen |-> IF r.dropped > t.seen THEN r.dropped ELSE t.seen,
   new |-> t.new + (IF r.dropped > t.seen THEN r.dropped - t.seen ELSE 0)]

\* The answer to the HELLO of a new link, to the WATCH, or to the read.
Greeted ==
  /\ link' = fresh /\ fresh' = NewLink /\ onCart' = FALSE /\ armed' = FALSE
  /\ greeting' = FALSE /\ copied' = FALSE /\ UNCHANGED probing
  /\ toAgent' = Append(Stale(toAgent),
                       Request(IF asking = "watch" THEN "WATCH" ELSE "PEEKV"))
  /\ UNCHANGED <<asking, sampled, queue, shown, resampled, counts>>

Armed ==
  /\ link' = [link EXCEPT !.events = <<>>, !.seen = 0]
  /\ onCart' = TRUE /\ armed' = TRUE
  /\ asking' = "peek" /\ copied' = FALSE /\ probing' = FALSE
  /\ toAgent' = Append(Stale(toAgent), Request("PEEKV"))
  /\ UNCHANGED <<greeting, fresh, sampled, queue, shown, resampled, counts>>

\* The sample is compared, then the trailers kept so far are collected.
WasRead(r) ==
  LET kept == KeepTrailer(link, r)
      event == probing /\ sampled \notin {-1, r.sample} /\ r.sample # 0
      was == IF event THEN <<r.sample>> ELSE <<>>
      collects == asking # "sample" /\ onCart
      came == was \o (IF collects THEN kept.events ELSE <<>>)
  IN /\ sampled' = IF probing THEN r.sample ELSE sampled
     /\ resampled' = (resampled \/ event)
     /\ queue' = PushedAll(queue, came, HostQueue)
     /\ Owed(-DroppedBy(queue, came, HostQueue) - (IF collects THEN kept.new ELSE 0))
     /\ link' = IF collects THEN [kept EXCEPT !.events = <<>>, !.new = 0] ELSE kept
     /\ asking' = "none" /\ copied' = FALSE /\ probing' = FALSE
     /\ toAgent' = Stale(toAgent)
     /\ UNCHANGED <<greeting, fresh, onCart, armed, shown>>

ReceiveReply ==
  LET r == Head(fromAgent)
      awaited == ~r.stale /\ asking # "none"
  IN /\ fromAgent # <<>>
     /\ fromAgent' = IF awaited THEN Stale(Tail(fromAgent)) ELSE Tail(fromAgent)
     /\ IF awaited THEN CASE r.msg = "HELLO_ACK" -> Greeted
                         [] r.msg = "WATCH_ACK" -> Armed
                         [] r.msg = "PEEKV_RESP" -> WasRead(r)
        ELSE /\ asking # "none"
             /\ IF greeting THEN fresh' = KeepTrailer(fresh, r) /\ UNCHANGED link
                            ELSE link' = KeepTrailer(link, r) /\ UNCHANGED fresh
             /\ UNCHANGED <<toAgent, waiting, onCart, armed, sampled, queue, shown,
                            resampled, counts>>
     /\ reset' = IF ~awaited THEN reset
                 ELSE IF reset \in {"silence", "answered"} THEN "answered" ELSE "none"
     /\ UNCHANGED <<console, trouble>>

\* The connector's read of the slot is shown the oldest event.
TakeWatched ==
  /\ queue # <<>>
  /\ shown' = Head(queue)
  /\ queue' = Tail(queue)
  /\ Owed(-1)
  /\ UNCHANGED <<console, wire, waiting, link, fresh, onCart, armed, sampled, resampled,
                 trouble, reset>>

-----------------------------------------------------------------------------
WatchInit ==
  /\ watched = 0 /\ happened = 0 /\ agent = NoWatch
  /\ toAgent = <<>> /\ fromAgent = <<>>
  /\ asking = "none" /\ greeting = FALSE /\ copied = FALSE /\ probing = FALSE
  /\ link = NewLink /\ fresh = NewLink
  /\ onCart = FALSE /\ armed = FALSE /\ sampled = -1
  /\ queue = <<>> /\ shown = 0 /\ owed = 0
  /\ lossless = TRUE /\ trouble = 0 /\ resampled = FALSE /\ reset = "none"

WatchNext ==
  \/ GameWrites \/ WatchTick \/ HandleHello \/ HandleWatch \/ HandlePeek
  \/ ConsoleReset \/ LoseMessage
  \/ Read \/ Alive \/ SampleWatch \/ QuickCopy \/ Resend \/ Reconnect \/ GiveUp
  \/ ReceiveReply \/ TakeWatched

WatchSpec == WatchInit /\ [][WatchNext]_watchVars

-----------------------------------------------------------------------------
(* Properties.                                                             *)

\* Events that are on their way, from the connector's end to the agent's.
UnderWay == queue \o (IF onCart THEN link.events ELSE <<>>)
              \o FlattenSeq([i \in 1..Len(fromAgent) |->
                               IF onCart /\ ~greeting THEN fromAgent[i].events ELSE <<>>])
              \o (IF onCart /\ ~greeting THEN agent.queue ELSE <<>>)

\* The connector is shown the events in the order in which they happened, and
\* each of them once as long as none of them had to be sampled, through lost
\* messages, copies, late answers, resets and new links.
EventsInOrder ==
  LET es == <<shown>> \o queue
  IN \A i, j \in 1..Len(es) : i < j =>
        es[i] < es[j] \/ (es[i] = es[j] /\ resampled)

\* While no message is lost, every event the agent saw was shown, is on its
\* way, or is counted as dropped, up to where the agent's count saturates,
\* though both queues overflow and answers come late.
EventsCounted ==
  lossless /\ onCart /\ ~resampled /\ agent.dropped < MaxDropped =>
    owed = Len(UnderWay) + link.new + (agent.dropped - link.seen)

\* A console that was reset, that AP64 waited for and that answers again is
\* asked to watch again before its answers are relied upon.
WatchRearmed == asking = "none" /\ onCart /\ reset = "answered" => agent.watching
=============================================================================
