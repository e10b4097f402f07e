------------------------------ MODULE LogStream ------------------------------
(***************************************************************************)
(* The log monitor (proxy/logMonitor.go) and the two handlers that stream  *)
(* it to clients: streamLogsHandler, which sends the history and then      *)
(* subscribes, and apiSendEvents, which subscribes and then sends it.      *)
(*                                                                         *)
(* The monitor's dispatcher is the abstract EventBus, which EventDispatcher*)
(* implements, with a bound on its queues.  A chunk of log is a number and *)
(* a length; its bytes are pairs.                                          *)
(***************************************************************************)
EXTENDS Integers, Sequences, FiniteSets, SequencesExt

CONSTANTS
    Cap,                 \* LogBufferSize
    Writers,             \* goroutines that log
    Lengths,             \* lengths of the chunks they write
    LogClients,          \* clients of streamLogsHandler, each served once
    EventClients,        \* clients of apiSendEvents, each served once
    ChanSize,            \* capacity of sendChan and sendBuffer
    QueueLimit,          \* the dispatcher's maxQueue
    MaxChunks,           \* bound: chunks written
    MaxStreams,          \* bound: clients served
    None

Clients == LogClients \cup EventClients

Ids == 1 .. MaxChunks
Chunks == [id : Ids, len : Lengths]
Chars == Ids \X Nat
Rings == [data : [0 .. Cap - 1 -> Chars \cup {None}], head : 0 .. Cap - 1, size : 0 .. Cap]

ASSUME LogAssumption ==
    /\ Cap \in Nat \ {0} /\ ChanSize \in Nat \ {0} /\ QueueLimit \in Nat \ {0}
    /\ MaxChunks \in Nat /\ MaxStreams \in Nat
    /\ Lengths \subseteq Nat \ {0}
    /\ LogClients \cap EventClients = {}
    /\ None \notin Rings

VARIABLES
    buffer,              \* the circular buffer, None while nil
    chunks,              \* chunks written so far
    wpc, chunk,          \* of each writer: where it is, and its chunk
    listeners, unseen,   \* the dispatcher, as in EventBus
    pc,                  \* where each client's handler is
    channel,             \* sendChan or sendBuffer: messages are sets of chunk numbers
    gone,                \* clients that disconnected
    shutdown,            \* pm.shutdownCtx is done
    bytes,               \* history: bytes buffered since the last Clear
    accounted            \* history: chunks a client was sent, that its full channel dropped,
                         \* that the history it read had lost (or it skipped), or that were
                         \* broadcast between a log client's history and its subscription

monitorVars == <<buffer, chunks, wpc, chunk, bytes>>
logVars == <<buffer, chunks, wpc, chunk, listeners, unseen, pc, channel, gone, shutdown,
          bytes, accounted>>

Dispatcher == INSTANCE EventBus WITH
                  Events <- Ids, Consumers <- Clients, subs <- listeners

LogInit ==
    /\ Dispatcher!Init
    /\ buffer = None
    /\ chunks = 0
    /\ wpc = [w \in Writers |-> "idle"]
    /\ chunk = [w \in Writers |-> None]
    /\ pc = [c \in Clients |-> "idle"]
    /\ channel = [c \in Clients |-> << >>]
    /\ gone = {}
    /\ shutdown = FALSE
    /\ bytes = << >>
    /\ accounted = [c \in Clients |-> {}]
-----------------------------------------------------------------------------
(***************************************************************************)
(* circularBuffer.                                                         *)
(***************************************************************************)
newCircularBuffer == [data |-> [i \in 0 .. Cap - 1 |-> None], head |-> 0, size |-> 0]

\* copy(data[at:], p)
Copy(data, at, p) ==
    [i \in DOMAIN data |-> IF i \in at .. at + Len(p) - 1 THEN p[i - at + 1] ELSE data[i]]

\* Mutant: the size is not limited to the capacity.
WriteRingTooLong(cb, p) ==
    LET first == Cap - cb.head IN
    IF Len(p) >= Cap
    THEN [data |-> Copy(cb.data, 0, SubSeq(p, Len(p) - Cap + 1, Len(p))), head |-> 0, size |-> Cap]
    ELSE [data |-> IF first >= Len(p) THEN Copy(cb.data, cb.head, p)
                   ELSE Copy(Copy(cb.data, cb.head, SubSeq(p, 1, first)),
                             0, SubSeq(p, first + 1, Len(p))),
          head |-> (cb.head + Len(p)) % Cap,
          size |-> cb.size + Len(p)]

WriteRing(cb, p) ==
    LET first == Cap - cb.head IN
    IF Len(p) >= Cap
    THEN [data |-> Copy(cb.data, 0, SubSeq(p, Len(p) - Cap + 1, Len(p))), head |-> 0, size |-> Cap]
    ELSE [data |-> IF first >= Len(p) THEN Copy(cb.data, cb.head, p)
                   ELSE Copy(Copy(cb.data, cb.head, SubSeq(p, 1, first)),
                             0, SubSeq(p, first + 1, Len(p))),
          head |-> IF first >= Len(p) THEN (cb.head + Len(p)) % Cap ELSE Len(p) - first,
          size |-> IF cb.size + Len(p) > Cap THEN Cap ELSE cb.size + Len(p)]

\* The bytes from the oldest to the newest: one copy, or two around the end.
GetHistory(cb) ==
    LET start == (cb.head - cb.size + Cap) % Cap IN
    [i \in 1 .. cb.size |-> cb.data[IF start + i - 1 < Cap THEN start + i - 1 ELSE start + i - 1 - Cap]]
-----------------------------------------------------------------------------
(***************************************************************************)
(* LogMonitor.Write and Clear.                                             *)
(***************************************************************************)
Kept == (1 .. chunks) \ {chunk[w].id : w \in {v \in Writers : wpc[v] = "buffer"}}

Bytes(ch) == [i \in 1 .. ch.len |-> <<ch.id, i>>]

\* The chunk was written to stdout; when that fails, Write returns and nothing changes.
Write(w, len) ==
    /\ wpc[w] = "idle" /\ chunks < MaxChunks
    /\ chunks' = chunks + 1
    /\ wpc' = [wpc EXCEPT ![w] = "buffer"]
    /\ chunk' = [chunk EXCEPT ![w] = [id |-> chunks + 1, len |-> len]]
    /\ UNCHANGED <<buffer, bytes, listeners, unseen, pc, channel, gone, shutdown, accounted>>

BufferChunk(w) ==
    /\ wpc[w] = "buffer"
    /\ buffer' = WriteRing(IF buffer = None THEN newCircularBuffer ELSE buffer, Bytes(chunk[w]))
    /\ bytes' = bytes \o Bytes(chunk[w])
    /\ wpc' = [wpc EXCEPT ![w] = "publish"]
    /\ UNCHANGED <<chunks, chunk, listeners, unseen, pc, channel, gone, shutdown, accounted>>

\* broadcast waits while a subscriber's queue is full.
BroadcastChunk(w) ==
    /\ wpc[w] = "publish"
    /\ \A c \in listeners : Len(unseen[c]) < QueueLimit
    /\ Dispatcher!Publish(chunk[w].id)
    /\ accounted' = [c \in Clients |-> accounted[c] \cup
                        IF c \in LogClients /\ pc[c] \in {"flush", "subscribe"}
                        THEN {chunk[w].id} ELSE {}]
    /\ wpc' = [wpc EXCEPT ![w] = "idle"]
    /\ chunk' = [chunk EXCEPT ![w] = None]
    /\ UNCHANGED <<buffer, bytes, chunks, pc, channel, gone, shutdown>>

Clear ==
    /\ buffer # None
    /\ buffer' = None
    /\ bytes' = << >>
    /\ UNCHANGED <<chunks, wpc, chunk, listeners, unseen, pc, channel, gone, shutdown, accounted>>
-----------------------------------------------------------------------------
(***************************************************************************)
(* streamLogsHandler and apiSendEvents.                                    *)
(***************************************************************************)
\* Mutant: the event stream reads the history first, too.
NobodySubscribesFirst(c) == FALSE

SubscribesFirst(c) == c \in EventClients

\* no-history skips the history.
Open(c) ==
    /\ pc[c] = "idle" /\ Cardinality({d \in Clients : pc[d] # "idle"}) < MaxStreams
    /\ \/ /\ pc' = [pc EXCEPT ![c] = IF SubscribesFirst(c) THEN "subscribe" ELSE "history"]
          /\ UNCHANGED accounted
       \/ /\ c \in LogClients
          /\ pc' = [pc EXCEPT ![c] = "subscribe"]
          /\ accounted' = [accounted EXCEPT ![c] = Kept]
    /\ UNCHANGED <<monitorVars, listeners, unseen, channel, gone, shutdown>>

Subscribe(c) ==
    /\ pc[c] = "subscribe"
    /\ Dispatcher!Subscribe(c)
    /\ pc' = [pc EXCEPT ![c] = IF SubscribesFirst(c) THEN "history" ELSE "follow"]
    /\ UNCHANGED <<monitorVars, channel, gone, shutdown, accounted>>

\* The select with a default that puts a message into a client's channel: it is
\* dropped when the channel is full, and may be once the client is gone.
Offer(c, message) ==
    \/ /\ Len(channel[c]) < ChanSize
       /\ channel' = [channel EXCEPT ![c] = Append(@, message)]
       /\ UNCHANGED accounted
    \/ /\ Len(channel[c]) = ChanSize \/ c \in gone
       /\ accounted' = [accounted EXCEPT ![c] = @ \cup message]
       /\ UNCHANGED channel

Remembered == IF buffer = None THEN {} ELSE {b[1] : b \in Range(GetHistory(buffer))}

\* A log client is sent the history at once, unless it is empty, an event client
\* through its channel.
\* What the history has lost is in neither.
ReadHistory(c) ==
    /\ pc[c] = "history"
    /\ pc' = [pc EXCEPT ![c] = IF c \in LogClients /\ buffer # None THEN "flush"
                               ELSE IF SubscribesFirst(c) THEN "follow" ELSE "subscribe"]
    /\ \/ /\ c \in LogClients \/ Len(channel[c]) = ChanSize \/ c \in gone
          /\ accounted' = [accounted EXCEPT ![c] = @ \cup Kept]
          /\ UNCHANGED channel
       \/ /\ c \in EventClients /\ Len(channel[c]) < ChanSize
          /\ channel' = [channel EXCEPT ![c] = Append(@, Remembered)]
          /\ accounted' = [accounted EXCEPT ![c] = @ \cup (Kept \ Remembered)]
    /\ UNCHANGED <<monitorVars, listeners, unseen, gone, shutdown>>

\* Mutant: the subscriber waits for room in the channel.
DeliverBlocking(c) ==
    /\ Dispatcher!Deliver(c)
    /\ IF pc[c] = "done" THEN UNCHANGED <<channel, accounted>>
       ELSE Len(channel[c]) < ChanSize /\ Offer(c, {Head(unseen[c])})
    /\ UNCHANGED <<monitorVars, pc, gone, shutdown>>

\* The subscriber.  Nobody reads the channel of a stream that ended.
Deliver(c) ==
    /\ Dispatcher!Deliver(c)
    /\ IF pc[c] = "done" THEN UNCHANGED <<channel, accounted>>
       ELSE Offer(c, {Head(unseen[c])})
    /\ UNCHANGED <<monitorVars, pc, gone, shutdown>>

Send(c) ==
    /\ pc[c] = "follow" /\ channel[c] # << >>
    /\ pc' = [pc EXCEPT ![c] = "sending"]
    /\ channel' = [channel EXCEPT ![c] = Tail(@)]
    /\ accounted' = [accounted EXCEPT ![c] = @ \cup Head(channel[c])]
    /\ UNCHANGED <<monitorVars, listeners, unseen, gone, shutdown>>

\* The write to the client returns: it read, or it is gone.
Sent(c) ==
    /\ pc[c] \in {"flush", "sending"}
    /\ pc' = [pc EXCEPT ![c] = IF @ = "flush" THEN "subscribe" ELSE "follow"]
    /\ UNCHANGED <<monitorVars, listeners, unseen, channel, gone, shutdown, accounted>>

\* Mutant: the handler only looks at the server's shutdown.
EndOnShutdown(c) ==
    /\ pc[c] = "follow" /\ shutdown
    /\ Dispatcher!Unsubscribe(c)
    /\ pc' = [pc EXCEPT ![c] = "done"]
    /\ channel' = [channel EXCEPT ![c] = << >>]
    /\ accounted' = [accounted EXCEPT ![c] = {}]
    /\ UNCHANGED <<monitorVars, gone, shutdown>>

End(c) ==
    /\ pc[c] = "follow" /\ (c \in gone \/ shutdown)
    /\ Dispatcher!Unsubscribe(c)
    /\ pc' = [pc EXCEPT ![c] = "done"]
    /\ channel' = [channel EXCEPT ![c] = << >>]
    /\ accounted' = [accounted EXCEPT ![c] = {}]
    /\ UNCHANGED <<monitorVars, gone, shutdown>>

Disconnect(c) ==
    /\ c \notin gone /\ pc[c] \notin {"idle", "done"}
    /\ gone' = gone \cup {c}
    /\ UNCHANGED <<monitorVars, listeners, unseen, pc, channel, shutdown, accounted>>

Shutdown ==
    /\ ~shutdown
    /\ shutdown' = TRUE
    /\ UNCHANGED <<monitorVars, listeners, unseen, pc, channel, gone, accounted>>
-----------------------------------------------------------------------------
WriterStep(w) == BufferChunk(w) \/ BroadcastChunk(w)
HandlerStep(c) == Subscribe(c) \/ ReadHistory(c) \/ Send(c) \/ End(c)

LogNext ==
    \/ \E w \in Writers : (\E len \in Lengths : Write(w, len)) \/ WriterStep(w)
    \/ \E c \in Clients : Open(c) \/ HandlerStep(c) \/ Deliver(c) \/ Sent(c) \/ Disconnect(c)
    \/ Clear \/ Shutdown

LogSpec == LogInit /\ [][LogNext]_logVars

\* Writers, handlers and subscribers run; a client need not read, but a write to a
\* client that is gone returns.
LogFairness ==
    /\ \A w \in Writers : WF_logVars(WriterStep(w))
    /\ \A c \in Clients :
          /\ WF_logVars(HandlerStep(c)) /\ WF_logVars(Deliver(c))
          /\ WF_logVars(c \in gone /\ Sent(c))

LogFairSpec == LogSpec /\ LogFairness
-----------------------------------------------------------------------------
(***************************************************************************)
(* Properties.                                                             *)
(***************************************************************************)
\* Type correctness: the buffer is one that circularBuffer's fields can hold, a writer
\* in Write has its chunk, and no channel holds more than its capacity.
LogTypeOK ==
    /\ buffer \in Rings \cup {None} /\ bytes \in Seq(Chars)
    /\ chunks \in 0 .. MaxChunks
    /\ wpc \in [Writers -> {"idle", "buffer", "publish"}]
    /\ chunk \in [Writers -> Chunks \cup {None}]
    /\ \A w \in Writers : wpc[w] # "idle" => chunk[w] \in Chunks
    /\ listeners \subseteq Clients /\ unseen \in [Clients -> Seq(Ids)]
    /\ pc \in [Clients -> {"idle", "history", "flush", "subscribe", "follow", "sending", "done"}]
    /\ channel \in [Clients -> Seq(SUBSET Ids)]
    /\ \A c \in Clients : Len(channel[c]) <= ChanSize
    /\ gone \subseteq Clients /\ shutdown \in BOOLEAN
    /\ accounted \in [Clients -> SUBSET Ids]

\* The circular buffer holds the last Cap bytes written since it was made, oldest
\* first, whatever the lengths of the chunks and wherever they wrap around.
HistoryIsTheTail ==
    buffer # None =>
        GetHistory(buffer) = SubSeq(bytes, IF Len(bytes) > Cap THEN Len(bytes) - Cap + 1 ELSE 1, Len(bytes))

\* No chunk goes past a client unseen: it was in the history when the client read
\* it, or the client is sent it, unless the history had lost it, the client's full
\* channel dropped it, or it was broadcast in the one window of streamLogsHandler,
\* between the history and the subscription.
InTransit(c) == (UNION Range(channel[c])) \cup Range(unseen[c])
Unpublished == {chunk[w].id : w \in {v \in Writers : wpc[v] = "publish"}}
NothingGoesPast ==
    \A c \in Clients : pc[c] \in {"follow", "sending"} =>
        Kept \subseteq Unpublished \cup InTransit(c) \cup accounted[c]

\* Logging never waits for a client: every Write returns although clients need not
\* read what they are sent.
WritesReturn == \A w \in Writers : wpc[w] # "idle" ~> wpc[w] = "idle"

\* A stream ends when its client is gone or the server shuts down, except that one
\* that waits for a client to read what it is sent does not notice the shutdown.
StreamsEnd ==
    \A c \in Clients :
        (pc[c] # "idle" /\ (c \in gone \/ shutdown))
            ~> (pc[c] = "done" \/ (pc[c] \in {"flush", "sending"} /\ c \notin gone))
=============================================================================
