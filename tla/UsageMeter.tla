----------------------------- MODULE UsageMeter -----------------------------
(***************************************************************************)
(* The usage meter (proxy/usage_meter.go) over the life of a server:       *)
(* requests recorded by the proxy manager that served them, the flushes of *)
(* persistLoop and of the reset handler through one temporary file, kills, *)
(* and configuration reloads (llama-swap.go).  A reload creates a new      *)
(* proxy manager and meter beside the old one, whose requests may still    *)
(* complete and whose persistLoop never ends.                              *)
(*                                                                         *)
(* The rollups by client, country and address, always changed together     *)
(* under one lock, are abstracted to the set of requests they count.  The  *)
(* files have open-file semantics: flushes that opened the temporary file  *)
(* before it was renamed share its inode with the renamed file.            *)
(***************************************************************************)
EXTENDS Naturals, FiniteSets

CONSTANTS
    Requests,            \* completed inference requests, each recorded once
    Resets,              \* calls of the reset handler, each made once
    MaxGens,             \* bound: proxy managers ever created
    MaxCrashes,          \* bound: kills of the server
    WriteFails,          \* os.WriteFile may fail
    NoFile

Gens == 1 .. MaxGens
Flushers == Gens \cup Resets          \* flusher g is the persistLoop of meter g
Inodes == 1 .. Cardinality(Flushers) + 2
Rollups == SUBSET Requests

\* Contents of a file: a marshalled rollup, or what json.Unmarshal rejects.
Text(rollup) == [kind |-> "whole", of |-> rollup]
Empty == [kind |-> "empty", of |-> {}]
Mixed == [kind |-> "mixed", of |-> {}]
Texts == {Text(rollup) : rollup \in Rollups} \cup {Empty, Mixed}

ASSUME UsageAssumption ==
    /\ MaxGens \in Nat \ {0} /\ MaxCrashes \in Nat
    /\ WriteFails \in BOOLEAN
    /\ IsFiniteSet(Resets) /\ Resets \cap Gens = {}
    /\ NoFile \notin Inodes

VARIABLES
    serving,             \* srv.Handler, as the number of its proxy manager
    created,             \* proxy managers created
    alive,               \* those of the running program
    mem, dirty,          \* UsageMeter: rollup, dirty
    served,              \* proxy manager that serves each request, 0 before it
    recorded,            \* requests that were recorded
    flush,               \* each flusher: where it is, its meter, what a reset
                         \* removed, its bytes and its open file
    data, tmp, path,     \* contents of inodes, and the two names
    crashes,
    saved,               \* history: requests that were in the file
    windows              \* history: the windows that were hit

memoryVars == <<serving, created, alive, mem, dirty>>
requestVars == <<served, recorded>>
diskVars == <<data, tmp, path>>
historyVars == <<saved, windows>>
meterVars == <<memoryVars, requestVars, flush, diskVars, crashes, historyVars>>

MeterInit ==
    /\ serving = 1 /\ created = 1 /\ alive = {1}
    /\ mem = [g \in Gens |-> {}]
    /\ dirty = [g \in Gens |-> FALSE]
    /\ served = [r \in Requests |-> 0]
    /\ recorded = {}
    /\ flush = [t \in Flushers |-> [pc |-> "idle", meter |-> IF t \in Gens THEN t ELSE 0,
                                    lost |-> {}, buf |-> {}, node |-> NoFile]]
    /\ data = [i \in Inodes |-> Empty]
    /\ tmp = NoFile /\ path = NoFile
    /\ crashes = 0 /\ saved = {} /\ windows = {}

\* The windows in which the promises of the meter may be broken:
\*   "overlap"  a flush begins, or a reset finds nothing to flush, while another
\*              flush is being written;
\*   "older"    the meter of a replaced proxy manager is written after its
\*              successor loaded the file;
\*   "failed"   a write failed: dirty was already cleared, so nobody retries it;
\*   "killed"   the program was killed with unwritten changes.
Hit(name, hit) == windows' = IF hit THEN windows \cup {name} ELSE windows

InProgram(t) == flush[t].meter \in alive
Writing(t) == InProgram(t) /\ flush[t].pc \in {"open", "write", "rename"}
Contents == IF path = NoFile THEN Text({}) ELSE data[path]   \* load takes none for empty
-----------------------------------------------------------------------------
(***************************************************************************)
(* Requests.                                                               *)
(***************************************************************************)
Serve(r) ==
    /\ served[r] = 0
    /\ served' = [served EXCEPT ![r] = serving]
    /\ UNCHANGED <<memoryVars, recorded, flush, diskVars, crashes, historyVars>>

\* Mutant: the rollup changes without being marked dirty.
RecordClean(r) ==
    /\ served[r] \in alive
    /\ r \notin recorded
    /\ recorded' = recorded \cup {r}
    /\ mem' = [mem EXCEPT ![served[r]] = @ \cup {r}]
    /\ UNCHANGED <<serving, created, alive, dirty, served, flush, diskVars, crashes, historyVars>>

\* Record, called for the metrics of a completed request.
Record(r) ==
    /\ served[r] \in alive
    /\ r \notin recorded
    /\ recorded' = recorded \cup {r}
    /\ mem' = [mem EXCEPT ![served[r]] = @ \cup {r}]
    /\ dirty' = [dirty EXCEPT ![served[r]] = TRUE]
    /\ UNCHANGED <<serving, created, alive, served, flush, diskVars, crashes, historyVars>>
-----------------------------------------------------------------------------
(***************************************************************************)
(* flush, called by persistLoop and by Reset.                              *)
(***************************************************************************)
\* The loop wakes up; a flush of a meter that is not dirty changes nothing.
PersistTick(g) ==
    /\ g \in alive /\ dirty[g]
    /\ flush[g].pc = "idle"
    /\ flush' = [flush EXCEPT ![g].pc = "flush"]
    /\ UNCHANGED <<memoryVars, requestVars, diskVars, crashes, historyVars>>

\* Mutant: the cleared rollup is not marked dirty, so the flush returns at once.
ResetClean(t) ==
    /\ flush[t].pc = "idle"
    /\ flush' = [flush EXCEPT ![t] = [@ EXCEPT !.pc = "flush", !.meter = serving,
                                               !.lost = mem[serving]]]
    /\ mem' = [mem EXCEPT ![serving] = {}]
    /\ UNCHANGED <<serving, created, alive, dirty, requestVars, diskVars, crashes, historyVars>>

\* Reset clears the rollup under the lock; its flush is a second critical section.
Reset(t) ==
    /\ flush[t].pc = "idle"
    /\ flush' = [flush EXCEPT ![t] = [@ EXCEPT !.pc = "flush", !.meter = serving,
                                               !.lost = mem[serving]]]
    /\ mem' = [mem EXCEPT ![serving] = {}]
    /\ dirty' = [dirty EXCEPT ![serving] = TRUE]
    /\ UNCHANGED <<serving, created, alive, requestVars, diskVars, crashes, historyVars>>

\* flush returns: to the loop, or to the handler that answers the reset.
Finish(t) ==
    flush' = [flush EXCEPT ![t] = [@ EXCEPT !.pc = IF t \in Resets THEN "done" ELSE "idle",
                                            !.buf = {}, !.node = NoFile]]

\* Not dirty any more: the other flusher of this meter was faster.
NothingToFlush(t) ==
    /\ flush[t].pc = "flush" /\ InProgram(t)
    /\ ~dirty[flush[t].meter]
    /\ Finish(t)
    /\ Hit("overlap", t \in Resets /\ \E u \in Flushers : Writing(u))
    /\ UNCHANGED <<memoryVars, requestVars, diskVars, crashes, saved>>

\* The rollup is marshalled and dirty cleared before anything is written.
Marshal(t) ==
    LET m == flush[t].meter IN
    /\ flush[t].pc = "flush" /\ InProgram(t)
    /\ dirty[m]
    /\ flush' = [flush EXCEPT ![t].pc = "open", ![t].buf = mem[m]]
    /\ dirty' = [dirty EXCEPT ![m] = FALSE]
    /\ windows' = windows \cup {w \in {"overlap", "older"} :
                                   \/ w = "overlap" /\ \E u \in Flushers : Writing(u)
                                   \/ w = "older" /\ m < created}
    /\ UNCHANGED <<serving, created, alive, mem, requestVars, diskVars, crashes, saved>>

\* Mutant: the file itself is truncated and written, not a temporary one.
OpenInPlace(t) ==
    LET node == IF path # NoFile THEN path ELSE 1 IN
    /\ flush[t].pc = "open" /\ InProgram(t)
    /\ path' = node
    /\ data' = [data EXCEPT ![node] = Empty]
    /\ flush' = [flush EXCEPT ![t].pc = "write", ![t].node = node]
    /\ UNCHANGED <<memoryVars, requestVars, tmp, crashes, historyVars>>

\* os.WriteFile opens the temporary file, truncates it if it exists and creates
\* it otherwise, ...
Open(t) ==
    LET InUse == {path} \cup {flush[u].node : u \in Flushers}
        node == IF tmp # NoFile THEN tmp ELSE CHOOSE i \in Inodes : i \notin InUse
    IN  /\ flush[t].pc = "open" /\ InProgram(t)
        /\ tmp' = node
        /\ data' = [data EXCEPT ![node] = Empty]
        /\ flush' = [flush EXCEPT ![t].pc = "write", ![t].node = node]
        /\ UNCHANGED <<memoryVars, requestVars, path, crashes, historyVars>>

\* ... and writes from its start; a shorter text leaves the rest of a longer one
\* that another flush wrote since.
WriteFile(t) ==
    LET node == flush[t].node
        text == Text(flush[t].buf)
    IN
    /\ flush[t].pc = "write" /\ InProgram(t)
    /\ \E result \in {text, Mixed} :
        /\ result = Mixed => data[node] \notin {Empty, text}
        /\ data' = [data EXCEPT ![node] = result]
        /\ saved' = IF node = path THEN saved \cup result.of ELSE saved
    /\ flush' = [flush EXCEPT ![t].pc = "rename"]
    /\ UNCHANGED <<memoryVars, requestVars, tmp, path, crashes, windows>>

\* The open or the write fails: flush logs it and returns.
WriteError(t) ==
    /\ WriteFails
    /\ flush[t].pc \in {"open", "write"} /\ InProgram(t)
    /\ Finish(t)
    /\ Hit("failed", TRUE)
    /\ UNCHANGED <<memoryVars, requestVars, diskVars, crashes, saved>>

\* The rename; its error, when another flush renamed the file first, is ignored.
Rename(t) ==
    /\ flush[t].pc = "rename" /\ InProgram(t)
    /\ IF tmp = NoFile
       THEN UNCHANGED <<tmp, path, saved>>
       ELSE /\ path' = tmp
            /\ tmp' = NoFile
            /\ saved' = saved \cup data[tmp].of
    /\ Finish(t)
    /\ UNCHANGED <<memoryVars, requestVars, data, crashes, windows>>
-----------------------------------------------------------------------------
(***************************************************************************)
(* Proxy managers: reload, kill and restart.                               *)
(***************************************************************************)
\* Mutant: the rollup of an earlier run is not loaded.
LoadNothing == {}

\* load: a file that does not parse is ignored.
Load == Contents.of

\* proxy.New creates the next manager, whose meter loads the file.
NewManager ==
    /\ created < MaxGens
    /\ created' = created + 1
    /\ mem' = [mem EXCEPT ![created + 1] = Load]

\* A reload shuts the manager down, which neither flushes its meter nor ends its
\* persistLoop, and creates the next one; one reload runs at a time.
Reload ==
    /\ serving = created
    /\ NewManager
    /\ alive' = alive \cup {created + 1}
    /\ Hit("older", \E u \in Flushers : Writing(u))
    /\ UNCHANGED <<serving, dirty, requestVars, flush, diskVars, crashes, saved>>

InstallHandler ==
    /\ serving < created
    /\ serving' = created
    /\ UNCHANGED <<created, alive, mem, dirty, requestVars, flush, diskVars, crashes, historyVars>>

\* The program is killed at any point and started again.
Crash ==
    /\ crashes < MaxCrashes
    /\ crashes' = crashes + 1
    /\ NewManager
    /\ alive' = {created + 1}
    /\ serving' = created + 1
    /\ Hit("killed", (\E g \in alive : dirty[g]) \/ \E u \in Flushers : Writing(u))
    /\ UNCHANGED <<dirty, requestVars, flush, diskVars, saved>>

FlushStep(t) ==
    NothingToFlush(t) \/ Marshal(t) \/ Open(t) \/ WriteFile(t) \/ WriteError(t) \/ Rename(t)

MeterNext ==
    \/ \E r \in Requests : Serve(r) \/ Record(r)
    \/ \E g \in Gens : PersistTick(g)
    \/ \E t \in Resets : Reset(t)
    \/ \E t \in Flushers : FlushStep(t)
    \/ Reload \/ InstallHandler \/ Crash

MeterSpec == MeterInit /\ [][MeterNext]_meterVars

\* persistLoop wakes up for ever, and a flush that began runs on.
MeterFairSpec ==
    /\ MeterSpec
    /\ \A g \in Gens : WF_meterVars(PersistTick(g))
    /\ \A t \in Flushers : WF_meterVars(FlushStep(t))
-----------------------------------------------------------------------------
(***************************************************************************)
(* Properties.                                                             *)
(***************************************************************************)
Flushes == [pc : {"idle", "flush", "open", "write", "rename", "done"}, meter : 0 .. MaxGens,
            lost : Rollups, buf : Rollups, node : Inodes \cup {NoFile}]

\* Type correctness.  Of the two file names in usage_meter.go's flush, the
\* temporary one never names the inode the other names.
MeterTypeOK ==
    /\ created \in Gens /\ serving \in 1 .. created
    /\ alive \subseteq 1 .. created /\ serving \in alive
    /\ mem \in [Gens -> Rollups] /\ dirty \in [Gens -> BOOLEAN]
    /\ served \in [Requests -> 0 .. created] /\ recorded \subseteq Requests
    /\ flush \in [Flushers -> Flushes]
    /\ data \in [Inodes -> Texts]
    /\ tmp \in Inodes \cup {NoFile} /\ path \in Inodes \cup {NoFile}
    /\ tmp # NoFile => tmp # path
    /\ crashes \in 0 .. MaxCrashes /\ saved \subseteq Requests
    /\ windows \subseteq {"overlap", "older", "failed", "killed"}

\* "flush atomically writes the current rollup to disk" (usage_meter.go:383): a
\* restart at any point finds no file or a whole one, unless two flushes overlapped
\* on the temporary file.
FileIsWhole == "overlap" \notin windows => Contents.kind = "whole"

\* What a reset that answered had removed.
Cleared == UNION {flush[t].lost : t \in {t \in Resets : flush[t].pc = "done"}}

\* "flushes the now-empty state to disk so the reset survives a restart"
\* (usage_meter.go:364): after the reset handler answered, neither the file nor the
\* meter that serves holds what was reset, unless another flush was being written,
\* a reload came in between, or the write failed.
ResetSurvives ==
    windows \cap {"overlap", "older", "failed"} = {}
        => (Contents.of \cup mem[serving]) \cap Cleared = {}

\* What any reset removed, whether it answered or not.
Removed == UNION {flush[t].lost : t \in Resets}

\* "persisted to disk so it survives pool restarts" (usage_meter.go:124): a request
\* that once was in the file stays there, through kills, reloads and failed writes,
\* until a reset, unless flushes overlapped or a replaced meter wrote late.
SavedStays ==
    windows \cap {"overlap", "older"} = {}
        => saved \ Removed \subseteq Contents.of

\* Every recorded request reaches the file or is reset, also one that a replaced
\* proxy manager records after a reload, unless a write failed, flushes overlapped
\* or the program was killed with unwritten changes.
RecordsArePersisted ==
    \A r \in Requests :
        r \in recorded ~> \/ r \in saved \cup Removed
                          \/ windows \cap {"overlap", "failed", "killed"} # {}
-----------------------------------------------------------------------------
=============================================================================
