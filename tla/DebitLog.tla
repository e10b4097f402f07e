------------------------------ MODULE DebitLog ------------------------------
(***************************************************************************)
(* The usage-billing rail: the bounded queue and the single writer of      *)
(* proxy/debit_emitter.go, the fsynced append-only file of                 *)
(* proxy/debit_log.go, the pull endpoint and the shutdown order of         *)
(* proxy/proxymanager.go, and HOME, which pulls from its cursor to the     *)
(* reported head.                                                          *)
(*                                                                         *)
(* The file is a sequence of entries: a record ended by a newline, a torn  *)
(* fragment without one, or the bad line that a record appended to a       *)
(* fragment becomes.  A prefix of it is known to be on the medium.         *)
(***************************************************************************)
EXTENDS Naturals, Sequences, FiniteSets, FiniteSetsExt, SequencesExt

CONSTANTS
    Inferences,          \* completed inferences, each emits one debit event
    BufSize,             \* capacity of the emitter's channel
    Faults,              \* what may go wrong: "write", "sync", "kill", "power"
    MaxCrashes,          \* bound: kills and power losses
    MaxCloses            \* bound: clean shutdowns (configuration reloads)

NoEvent == "none"

ASSUME DebitLogAssumption ==
    /\ NoEvent \notin Inferences
    /\ BufSize \in Nat \ {0}
    /\ Faults \subseteq {"write", "sync", "kill", "power"}
    /\ MaxCrashes \in Nat /\ MaxCloses \in Nat

VARIABLES
    up,                  \* a proxy manager is running
    queue,               \* debitEmitter.ch
    closed,              \* debitEmitter.closed
    writer,              \* the run goroutine and the Append it is in
    seq, events,         \* debitLog: last ordinal, records in memory
    file,                \* debitLog.file is open
    disk, synced,        \* the file, and how many entries are on the medium
    emitted,             \* inferences that completed
    dropped, failed, appended,  \* the emitter's counters, as sets
    ignored,             \* emitted after Close
    crashed,             \* queued or being written when the program died
    home,                \* HOME: cursor, and the records it ingested
    risks,               \* history: windows that were hit
    crashes, closes

emitterVars == <<queue, closed, dropped, failed, appended, ignored>>
memoryVars == <<seq, events, file>>
diskVars == <<disk, synced>>
boundVars == <<risks, crashes, closes>>
vars == <<up, emitterVars, writer, memoryVars, diskVars, emitted, crashed, home, boundVars>>

Line(e, n) == [kind |-> "line", id |-> e, seq |-> n]
Torn(by) == [kind |-> "torn", by |-> by]     \* by a short "write" or a "power" loss
Bad(by) == [kind |-> "bad", by |-> by]
Idle == [pc |-> "idle", ev |-> NoEvent]

Init ==
    /\ up = TRUE
    /\ queue = <<>> /\ closed = FALSE
    /\ writer = Idle
    /\ seq = 0 /\ events = <<>> /\ file = TRUE
    /\ disk = <<>> /\ synced = 0
    /\ emitted = {} /\ dropped = {} /\ failed = {} /\ appended = {}
    /\ ignored = {} /\ crashed = {}
    /\ home = [cursor |-> 0, seen |-> {}]
    /\ risks = {}
    /\ crashes = 0 /\ closes = 0
-----------------------------------------------------------------------------
(***************************************************************************)
(* The request path.                                                       *)
(***************************************************************************)
\* Emit: a no-op after Close, a counted drop when the buffer is full.
Emit(e) ==
    /\ up
    /\ e \notin emitted
    /\ emitted' = emitted \cup {e}
    /\ IF closed
       THEN ignored' = ignored \cup {e} /\ UNCHANGED <<queue, dropped>>
       ELSE IF Len(queue) < BufSize
            THEN queue' = Append(queue, e) /\ UNCHANGED <<ignored, dropped>>
            ELSE dropped' = dropped \cup {e} /\ UNCHANGED <<queue, ignored>>
    /\ UNCHANGED <<up, closed, failed, appended, writer, memoryVars, diskVars,
                   crashed, home, boundVars>>
-----------------------------------------------------------------------------
(***************************************************************************)
(* The writer: run, and Append under debitLog.mu.                          *)
(***************************************************************************)
\* The next queued event; Append on a closed log returns at once, without error.
Take ==
    /\ up
    /\ writer.pc = "idle"
    /\ queue # <<>>
    /\ queue' = Tail(queue)
    /\ IF file
       THEN writer' = [pc |-> "write", ev |-> Head(queue)] /\ UNCHANGED appended
       ELSE appended' = appended \cup {Head(queue)} /\ UNCHANGED writer
    /\ UNCHANGED <<up, closed, dropped, failed, ignored, memoryVars, diskVars,
                   emitted, crashed, home, boundVars>>

\* A window in which the log does not keep what it promises was hit.
Window(name, hit) == risks' = IF hit THEN risks \cup {name} ELSE risks

TornTail == disk # <<>> /\ Last(disk).kind = "torn"

\* Bytes reach the file: after a fragment they extend it.
Put(entry) ==
    IF TornTail
    THEN /\ disk' = Append(Front(disk), IF entry.kind = "torn" THEN entry ELSE Bad(Last(disk).by))
         /\ synced' = Min({synced, Len(disk) - 1})
    ELSE /\ disk' = Append(disk, entry)
         /\ UNCHANGED synced

\* Window "repeated": the file holds the line of a failed fsync, and this line takes
\* the same ordinal.
Write ==
    /\ up
    /\ writer.pc = "write"
    /\ Put(Line(writer.ev, seq + 1))
    /\ Window("repeated", \E e \in Inferences : Line(e, seq + 1) \in ToSet(disk))
    /\ writer' = [writer EXCEPT !.pc = "sync"]
    /\ UNCHANGED <<up, emitterVars, memoryVars, emitted, crashed, home, crashes, closes>>

\* Mutant: run returns on the first failed append.
WriteErrorEnds ==
    /\ "write" \in Faults
    /\ up
    /\ writer.pc = "write"
    /\ Put(Torn("write")) \/ UNCHANGED diskVars
    /\ failed' = failed \cup {writer.ev}
    /\ writer' = [pc |-> "exited", ev |-> NoEvent]
    /\ UNCHANGED <<up, queue, closed, dropped, appended, ignored, memoryVars,
                   emitted, crashed, home, boundVars>>

\* file.Write fails: nothing or a part of the line was written, and stays.
WriteError ==
    /\ "write" \in Faults
    /\ up
    /\ writer.pc = "write"
    /\ Put(Torn("write")) \/ UNCHANGED diskVars
    /\ failed' = failed \cup {writer.ev}
    /\ writer' = Idle
    /\ UNCHANGED <<up, queue, closed, dropped, appended, ignored, memoryVars,
                   emitted, crashed, home, boundVars>>

\* The fsync fails: the line is in the file, but seq and events are not advanced.
SyncError ==
    /\ "sync" \in Faults
    /\ up
    /\ writer.pc = "sync"
    /\ failed' = failed \cup {writer.ev}
    /\ writer' = Idle
    /\ UNCHANGED <<up, queue, closed, dropped, appended, ignored, memoryVars, diskVars,
                   emitted, crashed, home, boundVars>>

\* Mutant: the record counts as durable without an fsync.
SyncSkipped ==
    /\ up
    /\ writer.pc = "sync"
    /\ seq' = seq + 1
    /\ events' = Append(events, Line(writer.ev, seq + 1))
    /\ appended' = appended \cup {writer.ev}
    /\ writer' = Idle
    /\ UNCHANGED <<up, queue, closed, dropped, failed, ignored, file, diskVars,
                   emitted, crashed, home, boundVars>>

\* The record is durable; only now seq and events advance.  Window "merged": the line
\* is part of, or stands behind, a line that a short write spoiled for load.
Sync ==
    /\ up
    /\ writer.pc = "sync"
    /\ synced' = Len(disk)
    /\ seq' = seq + 1
    /\ events' = Append(events, Line(writer.ev, seq + 1))
    /\ appended' = appended \cup {writer.ev}
    /\ Window("merged", \E i \in DOMAIN disk : disk[i].kind # "line" /\ disk[i].by = "write")
    /\ writer' = Idle
    /\ UNCHANGED <<up, queue, closed, dropped, failed, ignored, file, disk,
                   emitted, crashed, home, crashes, closes>>

\* The channel is closed and drained: run returns.
WriterExits ==
    /\ up
    /\ writer.pc = "idle"
    /\ closed /\ queue = <<>>
    /\ writer' = [pc |-> "exited", ev |-> NoEvent]
    /\ UNCHANGED <<up, emitterVars, memoryVars, diskVars, emitted, crashed, home, boundVars>>
-----------------------------------------------------------------------------
(***************************************************************************)
(* Pull, shutdown, crash and restart.                                      *)
(***************************************************************************)
\* Mutant: the head is read before the events under a second lock, one Append late.
PullSkewed ==
    /\ up
    /\ file
    /\ writer.pc \notin {"write"}
    /\ home' = [cursor |-> IF writer.pc = "sync" THEN seq + 1 ELSE seq,
                seen |-> home.seen \cup {events[i] : i \in
                             {j \in DOMAIN events : events[j].seq > home.cursor}}]
    /\ UNCHANGED <<up, emitterVars, writer, memoryVars, diskVars, emitted, crashed, boundVars>>

\* debitsPullHandler answers from SinceWithHead, under the lock Append holds.
Pull ==
    /\ up
    /\ file
    /\ writer.pc \notin {"write", "sync"}
    /\ home' = [cursor |-> seq,
                seen |-> home.seen \cup {events[i] : i \in
                             {j \in DOMAIN events : events[j].seq > home.cursor}}]
    /\ UNCHANGED <<up, emitterVars, writer, memoryVars, diskVars, emitted, crashed, boundVars>>

\* Shutdown calls debitEmitter.Close, which waits for the writer ...
Close ==
    /\ up
    /\ ~closed
    /\ closes < MaxCloses
    /\ closed' = TRUE
    /\ closes' = closes + 1
    /\ UNCHANGED <<up, queue, dropped, failed, appended, ignored, writer, memoryVars,
                   diskVars, emitted, crashed, home, risks, crashes>>

\* Mutant: the log is closed without waiting for the writer.
CloseLogEarly ==
    /\ up
    /\ closed
    /\ file
    /\ writer.pc \in {"idle", "exited"}
    /\ file' = FALSE
    /\ UNCHANGED <<up, emitterVars, writer, seq, events, diskVars, emitted, crashed,
                   home, boundVars>>

\* ... and then debitLog.close.
CloseLog ==
    /\ up
    /\ closed
    /\ file
    /\ writer.pc = "exited"
    /\ file' = FALSE
    /\ UNCHANGED <<up, emitterVars, writer, seq, events, diskVars, emitted, crashed,
                   home, boundVars>>

\* What dies with the program; the queue and the append in progress are lost.
Die ==
    /\ up
    /\ crashes < MaxCrashes
    /\ crashes' = crashes + 1
    /\ up' = FALSE
    /\ crashed' = crashed \cup ToSet(queue) \cup ({writer.ev} \ {NoEvent})
    /\ queue' = <<>> /\ writer' = Idle
    /\ UNCHANGED <<closed, dropped, failed, appended, ignored, memoryVars, emitted,
                   home, closes>>

\* The program is killed; the operating system keeps what was written.
Kill ==
    /\ "kill" \in Faults
    /\ Die
    /\ UNCHANGED <<diskVars, risks>>

\* Power is lost: of what was not synced a prefix survives, its last line perhaps torn.
\* Window "unsynced": a record that load took over without an fsync is gone.
PowerLoss ==
    /\ "power" \in Faults
    /\ Die
    /\ \E n \in synced .. Len(disk) :
          \/ disk' = SubSeq(disk, 1, n) /\ synced' = n
          \/ /\ n < Len(disk)
             /\ disk' = Append(SubSeq(disk, 1, n), Torn("power")) /\ synced' = n + 1
    /\ Window("unsynced", ~(ToSet(events) \subseteq ToSet(disk')))

\* The clean end of a shutdown.
Exit ==
    /\ up
    /\ ~file
    /\ up' = FALSE
    /\ writer' = Idle
    /\ queue' = <<>>
    /\ UNCHANGED <<closed, dropped, failed, appended, ignored, memoryVars, diskVars,
                   emitted, crashed, home, boundVars>>

\* load keeps the records before the first fragment or bad line.
GoodRecords ==
    Max({n \in 0 .. Len(disk) : \A i \in 1 .. n : disk[i].kind = "line"})

\* Mutant: a torn tail is skipped but stays in the file.
RestartNoTruncate ==
    /\ ~up
    /\ up' = TRUE
    /\ events' = SubSeq(disk, 1, GoodRecords)
    /\ seq' = Max({0} \cup {disk[i].seq : i \in 1 .. GoodRecords})
    /\ file' = TRUE
    /\ closed' = FALSE
    /\ UNCHANGED <<queue, dropped, failed, appended, ignored, writer, diskVars, emitted,
                   crashed, home, boundVars>>

\* newDebitLog: load, truncate the rest, resume from the highest seq; a new emitter.
Restart ==
    /\ ~up
    /\ up' = TRUE
    /\ events' = SubSeq(disk, 1, GoodRecords)
    /\ seq' = Max({0} \cup {disk[i].seq : i \in 1 .. GoodRecords})
    /\ disk' = SubSeq(disk, 1, GoodRecords)
    /\ synced' = Min({synced, GoodRecords})
    /\ file' = TRUE
    /\ closed' = FALSE
    /\ UNCHANGED <<queue, dropped, failed, appended, ignored, writer, emitted,
                   crashed, home, boundVars>>

Next ==
    \/ \E e \in Inferences : Emit(e)
    \/ Take \/ Write \/ WriteError \/ Sync \/ SyncError \/ WriterExits
    \/ Pull
    \/ Close \/ CloseLog \/ Exit
    \/ Kill \/ PowerLoss \/ Restart

Spec == Init /\ [][Next]_vars

\* The writer goroutine and the shutdown it holds up run on: neither waits for the
\* outside world.
Fairness ==
    /\ WF_vars(Take \/ Write \/ WriteError \/ Sync \/ SyncError)
    /\ WF_vars(WriterExits)
    /\ WF_vars(CloseLog)

FairSpec == Spec /\ Fairness
-----------------------------------------------------------------------------
Lines == [kind : {"line"}, id : Inferences, seq : Nat]
Entries == Lines \cup [kind : {"torn", "bad"}, by : {"write", "power"}]

\* Types; in particular the channel never holds more than its capacity and every
\* counted event was emitted.
TypeOK ==
    /\ {up, closed, file} \subseteq BOOLEAN
    /\ queue \in Seq(Inferences) /\ Len(queue) <= BufSize
    /\ writer \in [pc : {"idle", "write", "sync", "exited"}, ev : Inferences \cup {NoEvent}]
    /\ seq \in Nat /\ events \in Seq(Lines)
    /\ disk \in Seq(Entries) /\ synced \in 0 .. Len(disk)
    /\ emitted \subseteq Inferences
    /\ dropped \cup failed \cup appended \cup ignored \cup crashed \subseteq emitted
    /\ home \in [cursor : Nat, seen : SUBSET Lines]

\* Records HOME has, or would be given.
Known == home.seen \cup IF up THEN ToSet(events) ELSE {}

\* debit_log.go:38 "so a debit survives a pool restart": an event Append acknowledged
\* is in the log after any restart.
DebitSurvivesRestart ==
    up => \A e \in appended : \E i \in DOMAIN events : events[i].id = e

\* The same for every crash, failed write and failed fsync, until an acknowledged line
\* was merged with the fragment of a short write.
AppendedSurvives == "merged" \notin risks => DebitSurvivesRestart

\* An ordinal names one debit for ever: no two records HOME has or would be given
\* carry the same seq, so the ack watermark never covers a debit it did not see.
\* Only the three windows break it.
SeqNeverReused == risks = {} => \A x, y \in Known : x.seq = y.seq => x = y

\* Records in memory are numbered 1, 2, ... seq without a gap, and the cursor HOME
\* advances to the head never passes a record HOME was not given, except after one of
\* the three windows.
NothingSkipped ==
    up /\ risks = {} =>
        /\ {events[i].seq : i \in DOMAIN events} = 1 .. seq
        /\ \A i \in DOMAIN events :
              events[i].seq <= home.cursor => events[i] \in home.seen

\* When Shutdown has closed the log, every event accepted before Close is in the file,
\* or was counted as failed or dropped, or was lost in a crash.
CleanShutdownPersists ==
    up /\ ~file /\ "merged" \notin risks =>
        emitted \ (failed \cup dropped \cup crashed \cup ignored)
            \subseteq {disk[i].id : i \in {j \in DOMAIN disk : disk[j].kind = "line"}}

\* No failed append wedges the writer: every event the emitter accepted is eventually
\* appended or counted as failed, unless the program dies first, and Shutdown, which
\* waits for the writer in debitEmitter.Close, goes on to close the log.
EmitterProgresses ==
    /\ \A e \in Inferences :
          (\E i \in DOMAIN queue : queue[i] = e) ~> e \in UNION {appended, failed, crashed}
    /\ up /\ closed ~> ~file \/ ~up
=============================================================================
