--------------------------- MODULE DebitLogProofs ---------------------------
(***************************************************************************)
(* Proofs about DebitLog, for any inferences, any buffer size, any number  *)
(* of crashes and shutdowns and any of the faults.                         *)
(*                                                                         *)
(* Durability: an acknowledged event has a whole line, with nothing but    *)
(* whole lines before it, in the part of the file that is on the medium.   *)
(*                                                                         *)
(* Numbering: where only whole lines stand before it, the n-th line has    *)
(* ordinal n; the memory is the prefix of the file of length seq, and what *)
(* HOME has is the prefix up to its cursor.                                *)
(***************************************************************************)
EXTENDS DebitLog, SequenceTheorems, WellFoundedInduction, TLAPS

\* The first n entries of the file are whole lines.
WholeUpTo(n) == \A j \in 1 .. n : disk[j].kind = "line"

\* The order of a shutdown: the channel is drained, then the log is closed; a program
\* that is down holds no events.
ShutdownOrder ==
    /\ ~up => queue = <<>> /\ writer = Idle
    /\ up /\ writer.pc = "exited" => closed /\ queue = <<>>
    /\ up /\ ~file => writer.pc = "exited"
    /\ writer.ev = NoEvent <=> writer.pc \in {"idle", "exited"}

\* While the program runs only its own short writes leave fragments, since load
\* truncates those of a power loss; the line that waits for its fsync ends the file.
FileTail ==
    up => /\ \A i \in 1 .. Len(disk) : disk[i].kind = "line" \/ disk[i].by = "write"
          /\ writer.pc = "sync" =>
                /\ Len(disk) > 0
                /\ disk[Len(disk)] \in {Line(writer.ev, seq + 1), Bad("write")}

\* Where an emitted event is.
Accounted ==
    /\ \A e \in emitted : \/ \E i \in 1 .. Len(queue) : queue[i] = e
                          \/ writer.ev = e
                          \/ e \in appended \/ e \in failed \/ e \in dropped
                          \/ e \in crashed \/ e \in ignored
    /\ \A i \in 1 .. Len(queue) : queue[i] \in emitted
    /\ writer.ev \in emitted \cup {NoEvent}

\* An acknowledged event is on the medium, where load finds it, and in memory.
Durable(e) == \E i \in 1 .. synced : disk[i].kind = "line" /\ disk[i].id = e /\ WholeUpTo(i)
InMemory(e) == \E i \in 1 .. Len(events) : events[i].id = e

AppendedDurable ==
    "merged" \notin risks => \A e \in appended : Durable(e) /\ (up => InMemory(e))

\* The numbering of the file, of the memory and of what HOME has.
FileNumbered == \A i \in 1 .. Len(disk) : WholeUpTo(i) => disk[i].seq = i
MemoryIsPrefix ==
    up => /\ Len(events) = seq /\ seq <= Len(disk)
          /\ \A i \in 1 .. seq : events[i] = disk[i]
          /\ WholeUpTo(seq)
HomeIsPrefix ==
    /\ home.cursor <= Len(disk) /\ WholeUpTo(home.cursor)
    /\ home.seen = {disk[i] : i \in 1 .. home.cursor}
    /\ up => home.cursor <= seq

AllNumbered == FileNumbered /\ MemoryIsPrefix /\ HomeIsPrefix
Numbered == risks = {} => AllNumbered

IInv ==
    /\ TypeOK /\ ShutdownOrder /\ FileTail /\ Accounted
    /\ AppendedDurable /\ Numbered

(***************************************************************************)
(* Operators.                                                              *)
(***************************************************************************)
\* A non-empty set of bounded naturals has a largest element, and Max is it.
LEMMA MaxOfBounded ==
    ASSUME NEW N \in Nat, NEW S, S \subseteq 0 .. N, S # {}
    PROVE Max(S) \in S /\ \A y \in S : y <= Max(S)
<1> DEFINE T == {k \in Nat : N - k \in S}
<1>1. T \subseteq Nat /\ T # {}
  <2>1. PICK x \in S : TRUE
    OBVIOUS
  <2>2. N - x \in Nat /\ N - (N - x) = x
    BY <2>1
  <2> QED BY <2>1, <2>2
<1>2. PICK k \in T : \A y \in T : ~(<<y, k>> \in OpToRel(<, Nat))
  <2> HIDE DEF T
  <2> QED BY <1>1, NatLessThanWellFounded, WFMin
<1>3. \A y \in T : y \in Nat /\ k \in Nat /\ ~(y < k)
  BY <1>2 DEF OpToRel
<1>4. N - k \in S /\ \A y \in S : N - k >= y
  <2>1. N - k \in S
    BY <1>2
  <2>2. ASSUME NEW y \in S PROVE N - k >= y
    <3>1. N - y \in Nat /\ N - (N - y) = y
      OBVIOUS
    <3>2. N - y \in T
      BY <3>1
    <3>3. ~(N - y < k)
      BY <3>2, <1>3
    <3> QED BY <1>3, <3>3, <3>1
  <2> QED BY <2>1, <2>2
<1>5. \E x \in S : \A y \in S : x >= y
  BY <1>4
<1>6. Max(S) \in S /\ \A y \in S : Max(S) >= y
  BY <1>5 DEF Max
<1> QED
  <2>1. ASSUME NEW y \in S PROVE y <= Max(S)
    BY <1>6
  <2> QED BY <1>6, <2>1

LEMMA MinOfTwo ==
    ASSUME NEW a \in Nat, NEW b \in Nat
    PROVE Min({a, b}) = IF a <= b THEN a ELSE b
<1>1. \E x \in {a, b} : \A y \in {a, b} : x <= y
  OBVIOUS
<1>2. Min({a, b}) \in {a, b} /\ \A y \in {a, b} : Min({a, b}) <= y
  BY <1>1 DEF Min
<1> QED BY <1>2

LEMMA EntryTypes ==
    /\ \A e \in Inferences, n \in Nat : Line(e, n) \in Lines
    /\ \A e, n : Line(e, n).kind = "line" /\ Line(e, n).id = e /\ Line(e, n).seq = n
    /\ \A by \in {"write", "power"} : Torn(by) \in Entries /\ Bad(by) \in Entries
    /\ \A by : /\ Torn(by).kind = "torn" /\ Torn(by).by = by
               /\ Bad(by).kind = "bad" /\ Bad(by).by = by
    /\ Lines \subseteq Entries
    /\ \A x \in Entries : x.kind = "line" => x \in Lines
    /\ \A x \in Entries : x.kind # "line" => x.kind \in {"torn", "bad"} /\ x.by \in {"write", "power"}
    /\ \A x \in Lines : x.kind = "line" /\ x.id \in Inferences /\ x.seq \in Nat
    /\ \A x \in Lines : x = Line(x.id, x.seq)
BY DEF Line, Torn, Bad, Lines, Entries

LEMMA TypeFacts ==
    ASSUME TypeOK
    PROVE /\ Len(disk) \in Nat /\ DOMAIN disk = 1 .. Len(disk)
          /\ \A i \in 1 .. Len(disk) : disk[i] \in Entries
          /\ Len(events) \in Nat /\ DOMAIN events = 1 .. Len(events)
          /\ \A i \in 1 .. Len(events) : events[i] \in Lines
          /\ Len(queue) \in Nat /\ DOMAIN queue = 1 .. Len(queue)
          /\ \A i \in 1 .. Len(queue) : queue[i] \in Inferences
          /\ synced \in Nat /\ synced <= Len(disk)
          /\ home.cursor \in Nat
BY LenProperties DEF TypeOK

(***************************************************************************)
(* What the steps do to the file, entry by entry.                          *)
(***************************************************************************)
\* Put keeps the whole entries: k of them, and the entry behind them.
PutEffect(entry, k) ==
    /\ k \in Nat
    /\ disk' \in Seq(Entries) /\ Len(disk') = k + 1
    /\ \A i \in 1 .. k : disk'[i] = disk[i]
    /\ \/ k = Len(disk) /\ disk'[k + 1] = entry /\ synced' = synced
       \/ /\ k + 1 = Len(disk) /\ disk[k + 1].kind = "torn"
          /\ disk'[k + 1] = IF entry.kind = "torn" THEN entry ELSE Bad(disk[k + 1].by)
          /\ synced' = IF synced <= k THEN synced ELSE k

LEMMA PutKeepsLines ==
    ASSUME TypeOK, NEW entry \in Entries, Put(entry)
    PROVE \E k \in Nat : PutEffect(entry, k)
<1> USE DEF PutEffect
<1>0. Len(disk) \in Nat /\ \A i \in 1 .. Len(disk) : disk[i] \in Entries
  BY TypeFacts
<1>1. CASE ~TornTail
  <2>1. disk' = Append(disk, entry) /\ synced' = synced
    BY <1>1 DEF Put
  <2>2. PutEffect(entry, Len(disk))
    BY <2>1, <1>0, AppendProperties DEF TypeOK
  <2> QED BY <2>2, <1>0
<1>2. CASE TornTail
  <2> DEFINE k == Len(disk) - 1
             new == IF entry.kind = "torn" THEN entry ELSE Bad(disk[k + 1].by)
  <2>1. k \in Nat /\ k + 1 = Len(disk) /\ disk[k + 1].kind = "torn" /\ Last(disk) = disk[k + 1]
    BY <1>2, <1>0, EmptySeq DEF TornTail, Last, TypeOK
  <2>2. new \in Entries
    BY <2>1, <1>0, EntryTypes
  <2>3. /\ Front(disk) \in Seq(Entries) /\ Len(Front(disk)) = k
        /\ \A i \in 1 .. k : Front(disk)[i] = disk[i]
    <3>1. Front(disk) = SubSeq(disk, 1, k)
      BY DEF Front
    <3>2. \A i \in 1 .. k : disk[i] \in Entries
      BY <2>1, <1>0
    <3> HIDE DEF k
    <3>3. /\ SubSeq(disk, 1, k) \in Seq(Entries)
          /\ Len(SubSeq(disk, 1, k)) = IF 1 <= k THEN k - 1 + 1 ELSE 0
          /\ \A i \in 1 .. k - 1 + 1 : SubSeq(disk, 1, k)[i] = disk[1 + i - 1]
      BY <3>2, <2>1, SubSeqProperties
    <3> QED BY <3>1, <3>3, <2>1
  <2>4. disk' = Append(Front(disk), new)
    BY <1>2, <2>1 DEF Put
  <2>5. synced' = IF synced <= k THEN synced ELSE k
    <3>1. synced' = Min({synced, k})
      BY <1>2 DEF Put
    <3>2. synced \in Nat
      BY TypeFacts
    <3> QED BY <3>1, <3>2, <2>1, MinOfTwo
  <2> HIDE DEF k, new
  <2>6. PutEffect(entry, k)
    <3>1. disk' \in Seq(Entries) /\ Len(disk') = k + 1 /\ disk'[k + 1] = new
          /\ \A i \in 1 .. k : disk'[i] = Front(disk)[i]
      BY <2>1, <2>2, <2>3, <2>4, AppendProperties
    <3> QED BY <3>1, <2>1, <2>3, <2>5 DEF new
  <2> QED BY <2>1, <2>6
<1> QED BY <1>1, <1>2

\* A loss of power keeps n entries, at least those on the medium, and perhaps a fragment.
PowerEffect(n) ==
    /\ n \in Nat /\ synced <= n /\ n <= Len(disk)
    /\ disk' \in Seq(Entries) /\ synced' = Len(disk')
    /\ \A i \in 1 .. n : disk'[i] = disk[i]
    /\ \/ Len(disk') = n
       \/ Len(disk') = n + 1 /\ disk'[n + 1] = Torn("power")

LEMMA Prefix ==
    ASSUME TypeOK, NEW n \in 0 .. Len(disk)
    PROVE /\ SubSeq(disk, 1, n) \in Seq(Entries) /\ Len(SubSeq(disk, 1, n)) = n
          /\ \A i \in 1 .. n : SubSeq(disk, 1, n)[i] = disk[i]
<1>1. n \in Nat /\ \A i \in 1 .. n : disk[i] \in Entries
  BY TypeFacts
<1>2. /\ SubSeq(disk, 1, n) \in Seq(Entries)
      /\ Len(SubSeq(disk, 1, n)) = IF 1 <= n THEN n - 1 + 1 ELSE 0
      /\ \A i \in 1 .. n - 1 + 1 : SubSeq(disk, 1, n)[i] = disk[1 + i - 1]
  BY <1>1, SubSeqProperties
<1> QED BY <1>1, <1>2

LEMMA PowerKeepsSynced ==
    ASSUME TypeOK, PowerLoss
    PROVE \E n \in Nat : PowerEffect(n)
<1>1. PICK n \in synced .. Len(disk) :
          \/ disk' = SubSeq(disk, 1, n) /\ synced' = n
          \/ disk' = Append(SubSeq(disk, 1, n), Torn("power")) /\ synced' = n + 1
  BY DEF PowerLoss
<1>2. n \in Nat /\ synced <= n /\ n <= Len(disk) /\ n \in 0 .. Len(disk)
  BY TypeFacts
<1> DEFINE s == SubSeq(disk, 1, n)
<1>3. s \in Seq(Entries) /\ Len(s) = n /\ \A i \in 1 .. n : s[i] = disk[i]
  BY <1>2, Prefix
<1> HIDE DEF s
<1>4. Torn("power") \in Entries
  BY EntryTypes
<1>5. CASE disk' = s /\ synced' = n
  BY <1>2, <1>3, <1>5 DEF PowerEffect
<1>6. CASE disk' = Append(s, Torn("power")) /\ synced' = n + 1
  BY <1>2, <1>3, <1>4, <1>6, AppendProperties DEF PowerEffect
<1> QED BY <1>1, <1>5, <1>6 DEF s

\* load keeps the g lines before the first entry that is none.
RestartEffect(g) ==
    /\ g \in Nat /\ g <= Len(disk) /\ WholeUpTo(g)
    /\ \A n \in 0 .. Len(disk) : WholeUpTo(n) => n <= g
    /\ disk' \in Seq(Entries) /\ Len(disk') = g
    /\ \A i \in 1 .. g : disk'[i] = disk[i]
    /\ events' = disk' /\ events' \in Seq(Lines)
    /\ synced' = IF synced <= g THEN synced ELSE g
    /\ seq' \in Nat
    /\ (\A i \in 1 .. g : disk[i].seq = i) => seq' = g

\* The ordinals of finitely many lines are bounded.
LEMMA OrdinalsBounded ==
    ASSUME NEW g \in Nat, NEW f, \A i \in 1 .. g : f[i].seq \in Nat
    PROVE \E b \in Nat : \A i \in 1 .. g : f[i].seq <= b
<1> DEFINE Bounded(n) == \E b \in Nat : \A i \in 1 .. n : f[i].seq <= b
           T == {n \in Nat : n <= g /\ ~Bounded(n)}
<1> SUFFICES ASSUME ~Bounded(g) PROVE FALSE
  OBVIOUS
<1>1. T # {}
  <2> HIDE DEF Bounded
  <2>1. g \in T
    OBVIOUS
  <2> QED BY <2>1
<1>2. PICK n \in T : \A y \in T : ~(<<y, n>> \in OpToRel(<, Nat))
  <2>1. T \subseteq Nat
    OBVIOUS
  <2> HIDE DEF T
  <2> QED BY <1>1, <2>1, NatLessThanWellFounded, WFMin
<1>3. \A y \in T : ~(y < n)
  BY <1>2 DEF OpToRel
<1>4. n \in Nat /\ n <= g /\ ~Bounded(n)
  BY <1>2
<1>5. n # 0
  BY <1>4
<1>6. n - 1 \in Nat /\ n - 1 <= g /\ n - 1 < n
  BY <1>4, <1>5
<1>7. Bounded(n - 1)
  <2> HIDE DEF Bounded
  <2> QED BY <1>3, <1>6
<1>8. PICK b \in Nat : \A i \in 1 .. n - 1 : f[i].seq <= b
  BY <1>7
<1>9. f[n].seq \in Nat
  BY <1>4, <1>5
<1> HIDE DEF Bounded, T
<1>10. ASSUME NEW i \in 1 .. n PROVE f[i].seq <= b + f[n].seq
  <2>1. f[i].seq \in Nat
    BY <1>4
  <2>2. i = n \/ i \in 1 .. n - 1
    BY ONLY i \in 1 .. n, <1>4
  <2> QED BY ONLY b \in Nat, <1>8, <1>9, <2>1, <2>2
<1>11. b + f[n].seq \in Nat
  BY ONLY b \in Nat, <1>9
<1>12. Bounded(n)
  BY ONLY <1>10, <1>11 DEF Bounded
<1> QED BY <1>4, <1>12

LEMMA RestartKeepsLines ==
    ASSUME TypeOK, Restart
    PROVE \E g \in Nat : RestartEffect(g)
<1> DEFINE g == GoodRecords
           S == {n \in 0 .. Len(disk) : \A i \in 1 .. n : disk[i].kind = "line"}
<1>0. Len(disk) \in Nat /\ \A i \in 1 .. Len(disk) : disk[i] \in Entries
  BY TypeFacts
<1>1. g \in S /\ \A n \in S : n <= g
  <2>1. g = Max(S)
    BY DEF GoodRecords
  <2>2. S \subseteq 0 .. Len(disk) /\ S # {}
    <3>1. 0 \in S
      BY <1>0
    <3> QED BY <3>1
  <2> HIDE DEF g, S
  <2> QED BY <1>0, <2>1, <2>2, MaxOfBounded
<1>2. g \in Nat /\ g <= Len(disk) /\ g \in 0 .. Len(disk) /\ WholeUpTo(g)
  BY <1>0, <1>1 DEF WholeUpTo
<1>3. \A n \in 0 .. Len(disk) : WholeUpTo(n) => n <= g
  BY <1>1 DEF WholeUpTo
<1>4. /\ disk' = SubSeq(disk, 1, g) /\ events' = SubSeq(disk, 1, g)
      /\ synced' = Min({synced, g})
      /\ seq' = Max({0} \cup {disk[i].seq : i \in 1 .. g})
  BY DEF Restart
<1> HIDE DEF g, S
<1>5. disk' \in Seq(Entries) /\ Len(disk') = g /\ \A i \in 1 .. g : disk'[i] = disk[i]
  BY <1>2, <1>4, Prefix
<1>6. \A i \in 1 .. g : disk[i] \in Lines /\ disk[i].seq \in Nat
  BY <1>0, <1>2, EntryTypes DEF WholeUpTo
<1>7. events' \in Seq(Lines)
  BY <1>2, <1>4, <1>6, SubSeqProperties
<1>8. synced' = IF synced <= g THEN synced ELSE g
  BY <1>2, <1>4, MinOfTwo, TypeFacts
<1>9. (\A i \in 1 .. g : disk[i].seq = i) => seq' = g
  <2> SUFFICES ASSUME \A i \in 1 .. g : disk[i].seq = i PROVE seq' = g
    OBVIOUS
  <2> DEFINE Q == {0} \cup {disk[i].seq : i \in 1 .. g}
  <2>1. Q \subseteq 0 .. g /\ Q # {} /\ g \in Q
    BY <1>2
  <2> HIDE DEF Q
  <2>2. Max(Q) \in Q /\ \A y \in Q : y <= Max(Q)
    BY <1>2, <2>1, MaxOfBounded
  <2> QED BY <1>2, <1>4, <2>1, <2>2 DEF Q
<1>10. seq' \in Nat
  <2>1. PICK b \in Nat : \A i \in 1 .. g : disk[i].seq <= b
    BY <1>2, <1>6, OrdinalsBounded
  <2> DEFINE Q == {0} \cup {disk[i].seq : i \in 1 .. g}
  <2>2. Q \subseteq 0 .. b /\ Q # {}
    BY <1>6, <2>1
  <2> HIDE DEF Q
  <2>3. Max(Q) \in Q
    BY <2>2, MaxOfBounded
  <2> QED BY <1>4, <2>2, <2>3 DEF Q
<1> QED BY <1>2, <1>3, <1>4, <1>5, <1>7, <1>8, <1>9, <1>10 DEF RestartEffect

(***************************************************************************)
(* The parts of the type invariant.                                        *)
(***************************************************************************)
Flags == {up, closed, file} \subseteq BOOLEAN
EmitterType ==
    /\ queue \in Seq(Inferences) /\ Len(queue) <= BufSize
    /\ writer \in [pc : {"idle", "write", "sync", "exited"}, ev : Inferences \cup {NoEvent}]
LogType ==
    /\ seq \in Nat /\ events \in Seq(Lines)
    /\ disk \in Seq(Entries) /\ synced \in 0 .. Len(disk)
CountsType ==
    /\ emitted \subseteq Inferences
    /\ dropped \cup failed \cup appended \cup ignored \cup crashed \subseteq emitted
HomeType == home \in [cursor : Nat, seen : SUBSET Lines]

LEMMA TypeParts == TypeOK <=> Flags /\ EmitterType /\ LogType /\ CountsType /\ HomeType
BY DEF TypeOK, Flags, EmitterType, LogType, CountsType, HomeType

LEMMA InitHolds == Init => IInv
<1> SUFFICES ASSUME Init PROVE IInv
  OBVIOUS
<1>1. disk = <<>> /\ events = <<>> /\ queue = <<>> /\ Len(<<>>) = 0
      /\ <<>> \in Seq(Entries) /\ <<>> \in Seq(Lines) /\ <<>> \in Seq(Inferences)
  BY EmptySeq DEF Init
<1>2. TypeOK
  <2>1. Flags
    BY DEF Init, Flags
  <2>2. EmitterType /\ LogType /\ CountsType /\ HomeType
    BY <1>1, DebitLogAssumption DEF Init, EmitterType, LogType, CountsType, HomeType, Idle
  <2> QED BY <2>1, <2>2, TypeParts
<1>3. ShutdownOrder /\ FileTail /\ Accounted
  BY <1>1, DebitLogAssumption DEF Init, ShutdownOrder, FileTail, Accounted, Idle
<1>4. AppendedDurable
  BY DEF Init, AppendedDurable
<1>5. FileNumbered /\ MemoryIsPrefix /\ HomeIsPrefix
  BY <1>1 DEF Init, FileNumbered, MemoryIsPrefix, HomeIsPrefix, WholeUpTo
<1> QED BY <1>2, <1>3, <1>4, <1>5 DEF IInv, Numbered, AllNumbered

LEMMA ShutdownOrderStep == TypeOK /\ ShutdownOrder /\ [Next]_vars => ShutdownOrder'
<1> SUFFICES ASSUME TypeOK, ShutdownOrder, [Next]_vars PROVE ShutdownOrder'
  OBVIOUS
<1> USE DebitLogAssumption DEF TypeOK, ShutdownOrder, Idle, emitterVars, memoryVars, diskVars, boundVars
<1>1. ASSUME NEW e \in Inferences, Emit(e) PROVE ShutdownOrder'
  BY <1>1 DEF Emit
<1>2. CASE Take
  BY <1>2, HeadTailProperties DEF Take
<1>3. CASE Write
  BY <1>3 DEF Write, Window
<1>4. CASE WriteError
  BY <1>4 DEF WriteError, Idle
<1>5. CASE Sync
  BY <1>5 DEF Sync, Idle, Window
<1>6. CASE SyncError
  BY <1>6 DEF SyncError, Idle
<1>7. CASE WriterExits
  BY <1>7 DEF WriterExits
<1>8. CASE Pull
  BY <1>8 DEF Pull
<1>9. CASE Close
  BY <1>9 DEF Close
<1>10. CASE CloseLog
  BY <1>10 DEF CloseLog
<1>11. CASE Exit
  BY <1>11 DEF Exit, Idle
<1>12. CASE Kill
  BY <1>12 DEF Kill, Die, Idle
<1>13. CASE PowerLoss
  BY <1>13 DEF PowerLoss, Die, Idle, Window
<1>14. CASE Restart
  BY <1>14 DEF Restart
<1>15. CASE UNCHANGED vars
  BY <1>15 DEF vars
<1> QED
  BY <1>1, <1>2, <1>3, <1>4, <1>5, <1>6, <1>7, <1>8, <1>9, <1>10, <1>11, <1>12, <1>13,
     <1>14, <1>15
     DEF Next

LEMMA AccountedStep == TypeOK /\ ShutdownOrder /\ Accounted /\ [Next]_vars => Accounted'
<1> SUFFICES ASSUME TypeOK, ShutdownOrder, Accounted, [Next]_vars PROVE Accounted'
  OBVIOUS
<1> USE TypeFacts DEF Accounted, ToSet, emitterVars, memoryVars, diskVars, boundVars
<1>1. ASSUME NEW e \in Inferences, Emit(e) PROVE Accounted'
  <2>1. CASE closed \/ ~(Len(queue) < BufSize)
    BY <1>1, <2>1 DEF Emit
  <2>2. CASE ~closed /\ Len(queue) < BufSize
    <3>1. Len(queue') = Len(queue) + 1 /\ queue'[Len(queue) + 1] = e
          /\ \A i \in 1 .. Len(queue) : queue'[i] = queue[i]
      <4>1. queue' = Append(queue, e)
        BY <1>1, <2>2 DEF Emit
      <4>2. queue \in Seq(Inferences)
        BY DEF TypeOK
      <4> QED BY <4>1, <4>2, AppendProperties
    <3>2. emitted' = emitted \cup {e} /\ UNCHANGED <<writer, appended, failed, crashed>>
          /\ ignored \subseteq ignored' /\ dropped \subseteq dropped'
      BY <1>1 DEF Emit
    <3> QED BY <3>1, <3>2
  <2> QED BY <1>1, <2>1, <2>2 DEF Emit
<1>2. CASE Take
  <2>1. /\ Len(Tail(queue)) = Len(queue) - 1 /\ Len(queue) > 0
        /\ \A i \in 1 .. Len(Tail(queue)) : Tail(queue)[i] = queue[i + 1]
        /\ Head(queue) = queue[1]
    BY <1>2, HeadTailProperties, EmptySeq DEF TypeOK, Take
  <2>2. queue' = Tail(queue) /\ UNCHANGED <<emitted, failed, dropped, crashed, ignored>>
    BY <1>2 DEF Take
  <2>3. writer.ev = NoEvent /\ NoEvent \notin emitted
    BY <1>2, DebitLogAssumption DEF Take, ShutdownOrder, TypeOK
  <2>4. Head(queue) \in emitted
    BY <2>1
  <2>5. \/ writer'.ev = Head(queue) /\ appended' = appended
        \/ writer' = writer /\ appended' = appended \cup {Head(queue)}
    BY <1>2 DEF Take
  <2>6. ASSUME NEW x \in emitted, NEW i \in 1 .. Len(queue), queue[i] = x
        PROVE x = Head(queue) \/ \E j \in 1 .. Len(queue') : queue'[j] = x
    <3>1. CASE i = 1
      BY <3>1, <2>6, <2>1
    <3>2. CASE i # 1
      <4>1. i - 1 \in 1 .. Len(Tail(queue)) /\ i - 1 + 1 = i
        BY <3>2, <2>1
      <4>2. queue'[i - 1] = x
        BY <4>1, <2>1, <2>2, <2>6
      <4> QED BY <4>1, <4>2, <2>2
    <3> QED BY <3>1, <3>2
  <2>7. \A i \in 1 .. Len(queue') : queue'[i] \in emitted
    BY <2>1, <2>2
  <2> QED BY <2>2, <2>3, <2>4, <2>5, <2>6, <2>7
<1>3. CASE Write
  BY <1>3 DEF Write, Window
<1>4. CASE WriteError
  BY <1>4 DEF WriteError, Idle
<1>5. CASE Sync
  BY <1>5 DEF Sync, Idle, Window
<1>6. CASE SyncError
  BY <1>6 DEF SyncError, Idle
<1>7. CASE WriterExits
  BY <1>7 DEF WriterExits, ShutdownOrder
<1>8. CASE Pull
  BY <1>8 DEF Pull
<1>9. CASE Close
  BY <1>9 DEF Close
<1>10. CASE CloseLog
  BY <1>10 DEF CloseLog
<1>11. CASE Exit
  BY <1>11 DEF Exit, Idle, ShutdownOrder, Idle
<1>12. CASE Kill
  BY <1>12 DEF Kill, Die, Idle
<1>13. CASE PowerLoss
  BY <1>13 DEF PowerLoss, Die, Idle, Window
<1>14. CASE Restart
  BY <1>14 DEF Restart
<1>15. CASE UNCHANGED vars
  BY <1>15 DEF vars
<1> QED
  BY <1>1, <1>2, <1>3, <1>4, <1>5, <1>6, <1>7, <1>8, <1>9, <1>10, <1>11, <1>12, <1>13,
     <1>14, <1>15
     DEF Next

LEMMA FlagsStep == Flags /\ [Next]_vars => Flags'
<1> SUFFICES ASSUME Flags, [Next]_vars PROVE Flags'
  OBVIOUS
<1> USE DEF Flags, emitterVars, memoryVars, diskVars, boundVars
<1>1. ASSUME NEW e \in Inferences, Emit(e) PROVE Flags'
  BY <1>1 DEF Emit
<1>2. CASE Take
  BY <1>2 DEF Take
<1>3. CASE Write
  BY <1>3 DEF Write, Window
<1>4. CASE WriteError
  BY <1>4 DEF WriteError, Idle
<1>5. CASE Sync
  BY <1>5 DEF Sync, Idle, Window
<1>6. CASE SyncError
  BY <1>6 DEF SyncError, Idle
<1>7. CASE WriterExits
  BY <1>7 DEF WriterExits
<1>8. CASE Pull
  BY <1>8 DEF Pull
<1>9. CASE Close
  BY <1>9 DEF Close
<1>10. CASE CloseLog
  BY <1>10 DEF CloseLog
<1>11. CASE Exit
  BY <1>11 DEF Exit, Idle
<1>12. CASE Kill
  BY <1>12 DEF Kill, Die, Idle
<1>13. CASE PowerLoss
  BY <1>13 DEF PowerLoss, Die, Idle, Window
<1>14. CASE Restart
  BY <1>14 DEF Restart
<1>15. CASE UNCHANGED vars
  BY <1>15 DEF vars
<1> QED
  BY <1>1, <1>2, <1>3, <1>4, <1>5, <1>6, <1>7, <1>8, <1>9, <1>10, <1>11, <1>12, <1>13,
     <1>14, <1>15
     DEF Next

LEMMA EmitterStep == TypeOK /\ [Next]_vars => EmitterType'
<1> SUFFICES ASSUME TypeOK, [Next]_vars PROVE EmitterType'
  OBVIOUS
<1> USE DEF TypeOK, EmitterType, emitterVars, memoryVars, diskVars, boundVars
<1>1. ASSUME NEW e \in Inferences, Emit(e) PROVE EmitterType'
  <2>1. CASE closed \/ ~(Len(queue) < BufSize)
    BY <1>1, <2>1 DEF Emit
  <2>2. CASE ~closed /\ Len(queue) < BufSize
    <3>1. queue' = Append(queue, e) /\ writer' = writer
      BY <1>1, <2>2 DEF Emit
    <3>2. queue' \in Seq(Inferences) /\ Len(queue') = Len(queue) + 1
      BY <3>1, AppendProperties
    <3> QED BY <3>1, <3>2, <2>2, TypeFacts, DebitLogAssumption
  <2> QED BY <2>1, <2>2
<1>2. CASE Take
  <2>1. /\ queue' \in Seq(Inferences) /\ Len(queue') = Len(queue) - 1
        /\ Head(queue) \in Inferences
    BY <1>2, HeadTailProperties DEF Take
  <2>2. writer' \in {writer, [pc |-> "write", ev |-> Head(queue)]}
    BY <1>2 DEF Take
  <2> QED BY <2>1, <2>2, TypeFacts, DebitLogAssumption
<1>3. CASE Write
  BY <1>3 DEF Write, Window
<1>4. CASE WriteError
  BY <1>4 DEF WriteError, Idle
<1>5. CASE Sync
  BY <1>5 DEF Sync, Idle, Window
<1>6. CASE SyncError
  BY <1>6 DEF SyncError, Idle
<1>7. CASE WriterExits
  BY <1>7 DEF WriterExits
<1>8. CASE Pull
  BY <1>8 DEF Pull
<1>9. CASE Close
  BY <1>9 DEF Close
<1>10. CASE CloseLog
  BY <1>10 DEF CloseLog
<1>11. CASE Exit
  BY <1>11, EmptySeq, DebitLogAssumption DEF Exit, Idle
<1>12. CASE Kill
  BY <1>12, EmptySeq, DebitLogAssumption DEF Kill, Die, Idle
<1>13. CASE PowerLoss
  BY <1>13, EmptySeq, DebitLogAssumption DEF PowerLoss, Die, Idle, Window
<1>14. CASE Restart
  BY <1>14 DEF Restart
<1>15. CASE UNCHANGED vars
  BY <1>15 DEF vars
<1> QED
  BY <1>1, <1>2, <1>3, <1>4, <1>5, <1>6, <1>7, <1>8, <1>9, <1>10, <1>11, <1>12, <1>13,
     <1>14, <1>15
     DEF Next

LEMMA LogStep == TypeOK /\ ShutdownOrder /\ [Next]_vars => LogType'
<1> SUFFICES ASSUME TypeOK, ShutdownOrder, [Next]_vars PROVE LogType'
  OBVIOUS
<1> USE DEF TypeOK, LogType, emitterVars, memoryVars, diskVars, boundVars
<1>1. ASSUME NEW e \in Inferences, Emit(e) PROVE LogType'
  BY <1>1 DEF Emit
<1>2. CASE Take
  BY <1>2 DEF Take
<1>3. CASE Write
  <2>1. writer.ev \in Inferences
    BY <1>3 DEF Write, ShutdownOrder, TypeOK
  <2>2. PICK k \in Nat : PutEffect(Line(writer.ev, seq + 1), k)
    <3>1. Line(writer.ev, seq + 1) \in Entries
      BY <2>1, EntryTypes DEF TypeOK
    <3> QED BY <1>3, <3>1, PutKeepsLines DEF Write
  <2> QED BY <1>3, <2>2, TypeFacts DEF Write, PutEffect
<1>4. CASE WriteError
  <2>1. CASE UNCHANGED diskVars
    BY <1>4, <2>1 DEF WriteError
  <2>2. CASE Put(Torn("write"))
    <3>1. PICK k \in Nat : PutEffect(Torn("write"), k)
      BY <2>2, EntryTypes, PutKeepsLines
    <3> QED BY <1>4, <3>1, TypeFacts DEF WriteError, PutEffect
  <2> QED BY <1>4, <2>1, <2>2 DEF WriteError
<1>5. CASE Sync
  <2>1. Line(writer.ev, seq + 1) \in Lines
    BY <1>5, EntryTypes DEF Sync, ShutdownOrder, TypeOK
  <2>2. Append(events, Line(writer.ev, seq + 1)) \in Seq(Lines)
    BY <2>1, AppendProperties DEF TypeOK
  <2> QED BY <1>5, <2>2, TypeFacts DEF Sync
<1>6. CASE SyncError
  BY <1>6 DEF SyncError, Idle
<1>7. CASE WriterExits
  BY <1>7 DEF WriterExits
<1>8. CASE Pull
  BY <1>8 DEF Pull
<1>9. CASE Close
  BY <1>9 DEF Close
<1>10. CASE CloseLog
  BY <1>10 DEF CloseLog
<1>11. CASE Exit
  BY <1>11 DEF Exit, Idle
<1>12. CASE Kill
  BY <1>12 DEF Kill, Die, Idle
<1>13. CASE PowerLoss
  <2>1. PICK n \in Nat : PowerEffect(n)
    BY <1>13, PowerKeepsSynced
  <2> QED BY <1>13, <2>1, TypeFacts, LenProperties DEF PowerLoss, Die, PowerEffect
<1>14. CASE Restart
  <2>1. PICK g \in Nat : RestartEffect(g)
    BY <1>14, RestartKeepsLines
  <2>2. disk' \in Seq(Entries) /\ Len(disk') = g /\ events' \in Seq(Lines) /\ seq' \in Nat
    BY <2>1 DEF RestartEffect
  <2>3. synced \in Nat /\ synced' = IF synced <= g THEN synced ELSE g
    BY <2>1, TypeFacts DEF RestartEffect
  <2>4. synced' \in 0 .. Len(disk')
    BY ONLY g \in Nat, <2>2, <2>3
  <2> QED BY <2>2, <2>4
<1>15. CASE UNCHANGED vars
  BY <1>15 DEF vars
<1> QED
  BY <1>1, <1>2, <1>3, <1>4, <1>5, <1>6, <1>7, <1>8, <1>9, <1>10, <1>11, <1>12, <1>13,
     <1>14, <1>15
     DEF Next

LEMMA CountsStep == TypeOK /\ ShutdownOrder /\ Accounted /\ [Next]_vars => CountsType'
<1> SUFFICES ASSUME TypeOK, ShutdownOrder, Accounted, [Next]_vars PROVE CountsType'
  OBVIOUS
<1> USE DEF TypeOK, CountsType, Accounted, emitterVars, memoryVars, diskVars, boundVars
<1>1. ASSUME NEW e \in Inferences, Emit(e) PROVE CountsType'
  BY <1>1 DEF Emit
<1>2. CASE Take
  BY <1>2, HeadTailProperties, LenProperties, EmptySeq DEF Take
<1>3. CASE Write
  BY <1>3 DEF Write, Window
<1>4. CASE WriteError
  BY <1>4, DebitLogAssumption DEF WriteError, Idle, ShutdownOrder
<1>5. CASE Sync
  BY <1>5, DebitLogAssumption DEF Sync, Idle, Window, ShutdownOrder
<1>6. CASE SyncError
  BY <1>6, DebitLogAssumption DEF SyncError, Idle, ShutdownOrder
<1>7. CASE WriterExits
  BY <1>7 DEF WriterExits
<1>8. CASE Pull
  BY <1>8 DEF Pull
<1>9. CASE Close
  BY <1>9 DEF Close
<1>10. CASE CloseLog
  BY <1>10 DEF CloseLog
<1>11. CASE Exit
  BY <1>11 DEF Exit, Idle
<1>12. CASE Kill
  BY <1>12, LenProperties DEF Kill, Die, Idle, ToSet
<1>13. CASE PowerLoss
  BY <1>13, LenProperties DEF PowerLoss, Die, Idle, Window, ToSet
<1>14. CASE Restart
  BY <1>14 DEF Restart
<1>15. CASE UNCHANGED vars
  BY <1>15 DEF vars
<1> QED
  BY <1>1, <1>2, <1>3, <1>4, <1>5, <1>6, <1>7, <1>8, <1>9, <1>10, <1>11, <1>12, <1>13,
     <1>14, <1>15
     DEF Next

LEMMA HomeStep == TypeOK /\ [Next]_vars => HomeType'
<1> SUFFICES ASSUME TypeOK, [Next]_vars PROVE HomeType'
  OBVIOUS
<1> USE DEF TypeOK, HomeType, emitterVars, memoryVars, diskVars, boundVars
<1>1. ASSUME NEW e \in Inferences, Emit(e) PROVE HomeType'
  BY <1>1 DEF Emit
<1>2. CASE Take
  BY <1>2 DEF Take
<1>3. CASE Write
  BY <1>3 DEF Write, Window
<1>4. CASE WriteError
  BY <1>4 DEF WriteError, Idle
<1>5. CASE Sync
  BY <1>5 DEF Sync, Idle, Window
<1>6. CASE SyncError
  BY <1>6 DEF SyncError, Idle
<1>7. CASE WriterExits
  BY <1>7 DEF WriterExits
<1>8. CASE Pull
  BY <1>8, TypeFacts DEF Pull
<1>9. CASE Close
  BY <1>9 DEF Close
<1>10. CASE CloseLog
  BY <1>10 DEF CloseLog
<1>11. CASE Exit
  BY <1>11 DEF Exit, Idle
<1>12. CASE Kill
  BY <1>12 DEF Kill, Die, Idle
<1>13. CASE PowerLoss
  BY <1>13 DEF PowerLoss, Die, Idle, Window
<1>14. CASE Restart
  BY <1>14 DEF Restart
<1>15. CASE UNCHANGED vars
  BY <1>15 DEF vars
<1> QED
  BY <1>1, <1>2, <1>3, <1>4, <1>5, <1>6, <1>7, <1>8, <1>9, <1>10, <1>11, <1>12, <1>13,
     <1>14, <1>15
     DEF Next


(***************************************************************************)
(* The end of the file.                                                    *)
(***************************************************************************)
LEMMA FileTailStep == TypeOK /\ ShutdownOrder /\ FileTail /\ [Next]_vars => FileTail'
<1> SUFFICES ASSUME TypeOK, ShutdownOrder, FileTail, [Next]_vars PROVE FileTail'
  OBVIOUS
<1> USE TypeFacts DEF FileTail, emitterVars, memoryVars, diskVars, boundVars
<1>1. ASSUME NEW e \in Inferences, Emit(e) PROVE FileTail'
  BY <1>1 DEF Emit
<1>2. CASE Take
  BY <1>2 DEF Take
<1>3. CASE Write
  <2>1. writer.ev \in Inferences
    BY <1>3 DEF Write, ShutdownOrder, TypeOK
  <2>2. PICK k \in Nat : PutEffect(Line(writer.ev, seq + 1), k)
    <3>1. Line(writer.ev, seq + 1) \in Entries
      <4>1. seq + 1 \in Nat
        BY DEF TypeOK
      <4> QED BY ONLY <2>1, <4>1, EntryTypes
    <3>2. Put(Line(writer.ev, seq + 1))
      BY <1>3 DEF Write
    <3> QED BY ONLY TypeOK, <3>1, <3>2, PutKeepsLines
  <2> DEFINE line == Line(writer.ev, seq + 1)
  <2>3. line.kind = "line"
    BY EntryTypes
  <2>4. up /\ seq' = seq /\ writer'.ev = writer.ev
    <3>1. writer' = [writer EXCEPT !.pc = "sync"]
      BY <1>3 DEF Write
    <3>2. writer'.ev = writer.ev
      BY <3>1 DEF TypeOK
    <3> QED BY <1>3, <3>2 DEF Write
  <2>5. line' = line
    BY <2>4 DEF Line
  <2> HIDE DEF line
  <2>6. Len(disk') = k + 1 /\ \A i \in 1 .. k : disk'[i] = disk[i]
    BY <2>2 DEF PutEffect, line
  <2>7. Len(disk) \in Nat /\ k \in Nat /\ k <= Len(disk)
    <3>1. Len(disk) \in Nat
      BY TypeFacts
    <3>2. k = Len(disk) \/ k + 1 = Len(disk)
      BY <2>2 DEF PutEffect
    <3> QED BY ONLY k \in Nat, <3>1, <3>2
  <2>8. \A i \in 1 .. Len(disk) : disk[i].kind = "line" \/ disk[i].by = "write"
    BY <2>4
  <2>9. disk'[k + 1] = line \/ disk'[k + 1] = Bad("write")
    <3>1. CASE disk'[k + 1] = line
      BY <3>1
    <3>2. CASE k + 1 = Len(disk) /\ disk[k + 1].kind = "torn" /\ disk'[k + 1] = Bad(disk[k + 1].by)
      <4>1. disk[k + 1].by = "write"
        BY ONLY <2>7, <2>8, <3>2
      <4> QED BY ONLY <3>2, <4>1
    <3> QED BY <2>2, <2>3, <3>1, <3>2 DEF PutEffect, line
  <2>10. disk'[k + 1].kind = "line" \/ disk'[k + 1].by = "write"
    BY <2>3, <2>9, EntryTypes
  <2>11. Len(disk') > 0 /\ disk'[Len(disk')] \in {line', Bad("write")}
    BY ONLY <2>5, <2>6, <2>7, <2>9
  <2>12. \A i \in 1 .. Len(disk') : disk'[i].kind = "line" \/ disk'[i].by = "write"
    BY ONLY <2>6, <2>7, <2>8, <2>10
  <2> QED BY ONLY <2>11, <2>12 DEF FileTail, line
<1>4. CASE WriteError
  <2>1. CASE UNCHANGED diskVars
    BY <1>4, <2>1 DEF WriteError, Idle
  <2>2. CASE Put(Torn("write"))
    <3>1. PICK k \in Nat : PutEffect(Torn("write"), k)
      BY <2>2, EntryTypes, PutKeepsLines
    <3>2. Torn("write").kind = "torn" /\ Torn("write").by = "write"
      BY EntryTypes
    <3>3. Len(disk) \in Nat
      BY TypeFacts
    <3>4. disk'[k + 1] = Torn("write") /\ (k = Len(disk) \/ k + 1 = Len(disk))
      BY <3>1, <3>2 DEF PutEffect
    <3>5. disk'[k + 1].by = "write"
      BY <3>4, <3>2
    <3>6. Len(disk') = k + 1 /\ k <= Len(disk) /\ \A i \in 1 .. k : disk'[i] = disk[i]
      <4>1. Len(disk') = k + 1 /\ \A i \in 1 .. k : disk'[i] = disk[i]
        BY <3>1 DEF PutEffect
      <4>2. k <= Len(disk)
        BY ONLY k \in Nat, <3>3, <3>4
      <4> QED BY <4>1, <4>2
    <3>7. up /\ writer' = Idle
      BY <1>4 DEF WriteError
    <3> QED BY <3>6, <3>7, <3>3, <3>5 DEF Idle
  <2> QED BY <1>4, <2>1, <2>2 DEF WriteError
<1>5. CASE Sync
  BY <1>5 DEF Sync, Idle, Window
<1>6. CASE SyncError
  BY <1>6 DEF SyncError, Idle
<1>7. CASE WriterExits
  BY <1>7 DEF WriterExits
<1>8. CASE Pull
  BY <1>8 DEF Pull
<1>9. CASE Close
  BY <1>9 DEF Close
<1>10. CASE CloseLog
  BY <1>10 DEF CloseLog
<1>11. CASE Exit
  BY <1>11 DEF Exit, Idle
<1>12. CASE Kill
  BY <1>12 DEF Kill, Die, Idle
<1>13. CASE PowerLoss
  BY <1>13 DEF PowerLoss, Die, Idle, Window
<1>14. CASE Restart
  <2>1. PICK g \in Nat : RestartEffect(g)
    BY <1>14, RestartKeepsLines
  <2> QED BY <1>14, <2>1 DEF Restart, RestartEffect, WholeUpTo, ShutdownOrder, Idle
<1>15. CASE UNCHANGED vars
  BY <1>15 DEF vars
<1> QED
  BY <1>1, <1>2, <1>3, <1>4, <1>5, <1>6, <1>7, <1>8, <1>9, <1>10, <1>11, <1>12, <1>13,
     <1>14, <1>15
     DEF Next

(***************************************************************************)
(* Durability.                                                             *)
(***************************************************************************)
LEMMA DurableKept ==
    ASSUME TypeOK, NEW e, Durable(e), NEW k \in Nat, synced' \in Nat,
           \A i \in 1 .. k : disk'[i] = disk[i],
           \A i \in 1 .. synced : WholeUpTo(i) => i <= k /\ i <= synced'
    PROVE Durable(e)'
<1>1. PICK i \in 1 .. synced : disk[i].kind = "line" /\ disk[i].id = e /\ WholeUpTo(i)
  BY DEF Durable
<1>2. i \in 1 .. synced' /\ i \in 1 .. k /\ \A j \in 1 .. i : disk'[j] = disk[j]
  BY <1>1, TypeFacts
<1> QED BY <1>1, <1>2 DEF Durable, WholeUpTo

LEMMA PutKeepsDurable ==
    ASSUME TypeOK, NEW entry, NEW k \in Nat, PutEffect(entry, k), NEW e, Durable(e)
    PROVE Durable(e)'
<1>1. synced' \in Nat /\ \A i \in 1 .. k : disk'[i] = disk[i]
  BY TypeFacts DEF PutEffect
<1>2. ASSUME NEW i \in 1 .. synced, WholeUpTo(i) PROVE i <= k /\ i <= synced'
  <2>1. disk[i].kind = "line" /\ i <= Len(disk)
    BY <1>2, TypeFacts DEF WholeUpTo
  <2>2. synced \in Nat /\ Len(disk) \in Nat
    BY TypeFacts
  <2>3. CASE k = Len(disk) /\ synced' = synced
    BY <2>1, <2>2, <2>3
  <2>4. CASE /\ k + 1 = Len(disk) /\ disk[k + 1].kind = "torn"
             /\ synced' = IF synced <= k THEN synced ELSE k
    <3>1. i # k + 1
      BY <2>1, <2>4
    <3> QED BY <2>1, <2>2, <2>4, <3>1
  <2> QED BY <2>3, <2>4 DEF PutEffect
<1> QED BY <1>1, <1>2, DurableKept

LEMMA DurableStep == TypeOK /\ ShutdownOrder /\ FileTail /\ AppendedDurable /\ [Next]_vars => AppendedDurable'
<1> SUFFICES ASSUME TypeOK, ShutdownOrder, FileTail, AppendedDurable, [Next]_vars PROVE AppendedDurable'
  OBVIOUS
<1> USE DEF AppendedDurable, InMemory, emitterVars, memoryVars, diskVars, boundVars
<1>1. ASSUME NEW e \in Inferences, Emit(e) PROVE AppendedDurable'
  BY <1>1 DEF Emit, Durable, WholeUpTo
<1>2. CASE Take
  BY <1>2 DEF Take, Durable, WholeUpTo, ShutdownOrder
<1>3. CASE Write
  <2>1. writer.ev \in Inferences
    BY <1>3 DEF Write, ShutdownOrder, TypeOK
  <2>2. PICK k \in Nat : PutEffect(Line(writer.ev, seq + 1), k)
    <3>1. Line(writer.ev, seq + 1) \in Entries
      BY <2>1, EntryTypes DEF TypeOK
    <3> QED BY <1>3, <3>1, PutKeepsLines DEF Write
  <2>3. \A e \in appended : Durable(e) => Durable(e)'
    BY <2>2, PutKeepsDurable
  <2> QED BY <1>3, <2>3 DEF Write, Window
<1>4. CASE WriteError
  <2>1. CASE UNCHANGED diskVars
    BY <1>4, <2>1 DEF WriteError, Durable, WholeUpTo
  <2>2. CASE Put(Torn("write"))
    <3>1. PICK k \in Nat : PutEffect(Torn("write"), k)
      BY <2>2, EntryTypes, PutKeepsLines
    <3>2. \A e \in appended : Durable(e) => Durable(e)'
      BY <3>1, PutKeepsDurable
    <3> QED BY <1>4, <3>2 DEF WriteError
  <2> QED BY <1>4, <2>1, <2>2 DEF WriteError
<1>5. CASE Sync
  <2> SUFFICES ASSUME "merged" \notin risks', NEW e \in appended'
               PROVE Durable(e)' /\ InMemory(e)'
    OBVIOUS
  <2> DEFINE new == Line(writer.ev, seq + 1)
  <2>1. /\ "merged" \notin risks /\ \A i \in 1 .. Len(disk) : disk[i].kind = "line"
    BY <1>5, TypeFacts DEF Sync, Window, FileTail
  <2>2. disk' = disk /\ synced' = Len(disk) /\ events' = Append(events, new)
        /\ appended' = appended \cup {writer.ev}
    BY <1>5 DEF Sync
  <2>3. Len(disk) > 0 /\ disk[Len(disk)] = new
    BY <1>5, <2>1, TypeFacts, EntryTypes DEF Sync, FileTail
  <2>4. /\ Len(events') = Len(events) + 1 /\ events'[Len(events) + 1] = new
        /\ \A i \in 1 .. Len(events) : events'[i] = events[i]
    <3>1. new \in Lines
      BY <1>5, EntryTypes DEF Sync, ShutdownOrder, TypeOK
    <3> HIDE DEF new
    <3> QED BY <2>2, <3>1, AppendProperties DEF TypeOK
  <2>5. CASE e = writer.ev
    <3>1. new.id = e /\ new.kind = "line"
      BY <2>5, EntryTypes
    <3> HIDE DEF new
    <3>2. Len(disk) \in 1 .. synced' /\ Len(events) + 1 \in 1 .. Len(events')
      BY <2>2, <2>3, <2>4, TypeFacts
    <3> QED BY <2>1, <2>2, <2>3, <2>4, <3>1, <3>2 DEF Durable, WholeUpTo
  <2>6. CASE e \in appended
    <3>1. Durable(e) /\ InMemory(e)
      BY <1>5, <2>1, <2>6 DEF Sync
    <3>2. Durable(e)'
      BY <2>2, <3>1, TypeFacts DEF Durable, WholeUpTo
    <3>3. InMemory(e)'
      BY <2>4, <3>1, TypeFacts
    <3> QED BY <3>2, <3>3
  <2> QED BY <2>2, <2>5, <2>6
<1>6. CASE SyncError
  BY <1>6 DEF SyncError, Idle, Durable, WholeUpTo, Idle
<1>7. CASE WriterExits
  BY <1>7 DEF WriterExits, Durable, WholeUpTo
<1>8. CASE Pull
  BY <1>8 DEF Pull, Durable, WholeUpTo
<1>9. CASE Close
  BY <1>9 DEF Close, Durable, WholeUpTo
<1>10. CASE CloseLog
  BY <1>10 DEF CloseLog, Durable, WholeUpTo
<1>11. CASE Exit
  BY <1>11 DEF Exit, Idle, Durable, WholeUpTo
<1>12. CASE Kill
  BY <1>12 DEF Kill, Die, Idle, Durable, WholeUpTo
<1>13. CASE PowerLoss
  <2>1. PICK n \in Nat : PowerEffect(n)
    BY <1>13, PowerKeepsSynced
  <2>2. Len(disk') \in Nat
    BY <2>1, LenProperties DEF PowerEffect
  <2>3. \A e \in appended : Durable(e) => Durable(e)'
    <3>1. \A i \in 1 .. synced : i <= n /\ i <= synced'
      BY <2>1, <2>2, TypeFacts DEF PowerEffect
    <3>2. synced' \in Nat /\ \A i \in 1 .. n : disk'[i] = disk[i]
      BY <2>1, <2>2 DEF PowerEffect
    <3> QED BY <3>1, <3>2, DurableKept
  <2> QED BY <1>13, <2>3 DEF PowerLoss, Die, Window
<1>14. CASE Restart
  <2>1. PICK g \in Nat : RestartEffect(g)
    BY <1>14, RestartKeepsLines
  <2>2. \A i \in 1 .. synced : WholeUpTo(i) => i <= g /\ i <= synced'
    BY <2>1, TypeFacts DEF RestartEffect
  <2>3. ASSUME NEW e, Durable(e) PROVE Durable(e)'
    <3>1. synced' \in Nat /\ \A i \in 1 .. g : disk'[i] = disk[i]
      BY <2>1, TypeFacts DEF RestartEffect
    <3> QED BY <2>2, <2>3, <3>1, DurableKept
  <2>4. ASSUME NEW e, Durable(e) PROVE InMemory(e)'
    <3>1. PICK i \in 1 .. synced : disk[i].id = e /\ WholeUpTo(i)
      BY <2>4 DEF Durable
    <3>2. i \in 1 .. g
      BY <2>2, <3>1, <2>1, TypeFacts
    <3>3. events'[i].id = e /\ Len(events') = g
      BY <2>1, <3>1, <3>2 DEF RestartEffect
    <3> QED BY <3>2, <3>3
  <2> QED BY <1>14, <2>3, <2>4 DEF Restart
<1>15. CASE UNCHANGED vars
  BY <1>15 DEF vars, Durable, WholeUpTo
<1> QED
  BY <1>1, <1>2, <1>3, <1>4, <1>5, <1>6, <1>7, <1>8, <1>9, <1>10, <1>11, <1>12, <1>13,
     <1>14, <1>15
     DEF Next

(***************************************************************************)
(* Numbering.                                                              *)
(***************************************************************************)
LEMMA PutKeepsNumbers ==
    ASSUME TypeOK, up, AllNumbered, NEW entry, NEW k \in Nat, PutEffect(entry, k),
           k = Len(disk) /\ WholeUpTo(k) /\ entry.kind = "line" => entry.seq = k + 1,
           UNCHANGED <<up, seq, events, home>>
    PROVE AllNumbered'
<1>1. Len(disk) \in Nat /\ seq \in Nat /\ home.cursor \in Nat
  BY TypeFacts DEF TypeOK
<1>2. Len(disk') = k + 1 /\ \A i \in 1 .. k : disk'[i] = disk[i]
  BY DEF PutEffect
<1>3. \/ k = Len(disk) /\ disk'[k + 1] = entry
      \/ k + 1 = Len(disk) /\ disk[k + 1].kind = "torn" /\ disk'[k + 1].kind # "line"
  <2>1. \A by : Bad(by).kind = "bad"
    BY EntryTypes
  <2> QED BY <2>1 DEF PutEffect
<1>4. seq <= k /\ home.cursor <= k
  <2>1. seq <= Len(disk) /\ WholeUpTo(seq) /\ home.cursor <= seq
    BY DEF AllNumbered, MemoryIsPrefix, HomeIsPrefix
  <2>2. k + 1 = Len(disk) /\ disk[k + 1].kind = "torn" => seq # k + 1
    BY <2>1, <1>1 DEF WholeUpTo
  <2> QED BY <1>1, <1>3, <2>1, <2>2
<1>5. ASSUME NEW n \in Nat, n <= k PROVE WholeUpTo(n)' <=> WholeUpTo(n)
  BY <1>2, <1>5 DEF WholeUpTo
<1>6. FileNumbered'
  <2> SUFFICES ASSUME NEW i \in 1 .. Len(disk'), WholeUpTo(i)' PROVE disk'[i].seq = i
    BY DEF FileNumbered
  <2>1. CASE i <= k
    <3>1. i \in 1 .. Len(disk) /\ i \in Nat
      BY <2>1, <1>1, <1>2, <1>3
    <3>2. WholeUpTo(i)
      BY <3>1, <2>1, <1>5
    <3> QED BY <2>1, <1>2, <3>1, <3>2 DEF AllNumbered, FileNumbered
  <2>2. CASE i = k + 1
    <3>1. disk'[k + 1].kind = "line"
      BY <2>2 DEF WholeUpTo
    <3>2. k = Len(disk) /\ disk'[k + 1] = entry
      BY <3>1, <1>3
    <3>3. WholeUpTo(k)
      BY <2>2, <1>2 DEF WholeUpTo
    <3> QED BY <2>2, <3>1, <3>2, <3>3
  <2> QED BY <1>2, <2>1, <2>2
<1>7. MemoryIsPrefix'
  BY <1>1, <1>2, <1>4, <1>5 DEF AllNumbered, MemoryIsPrefix
<1>8. HomeIsPrefix'
  <2>1. {disk'[i] : i \in 1 .. home.cursor} = {disk[i] : i \in 1 .. home.cursor}
    BY <1>1, <1>2, <1>4
  <2> QED BY <1>1, <1>2, <1>4, <1>5, <2>1 DEF AllNumbered, HomeIsPrefix
<1> QED BY <1>6, <1>7, <1>8 DEF AllNumbered

\* The next line takes the next ordinal, unless the file already holds that ordinal.
LEMMA NextOrdinal ==
    ASSUME TypeOK, up, AllNumbered, WholeUpTo(Len(disk)),
           \A e \in Inferences : Line(e, seq + 1) \notin ToSet(disk)
    PROVE Len(disk) = seq
<1>1. Len(disk) \in Nat /\ seq \in Nat /\ seq <= Len(disk)
  BY TypeFacts DEF TypeOK, AllNumbered, MemoryIsPrefix
<1>2. SUFFICES ASSUME seq < Len(disk) PROVE FALSE
  BY <1>1
<1>3. seq + 1 \in 1 .. Len(disk) /\ WholeUpTo(seq + 1)
  BY <1>1, <1>2 DEF WholeUpTo
<1>4. disk[seq + 1].seq = seq + 1
  BY <1>3 DEF AllNumbered, FileNumbered
<1>5. disk[seq + 1] \in Lines
  BY <1>3, TypeFacts, EntryTypes DEF WholeUpTo
<1>6. disk[seq + 1] = Line(disk[seq + 1].id, seq + 1) /\ disk[seq + 1].id \in Inferences
  BY <1>4, <1>5, EntryTypes
<1>7. disk[seq + 1] \in ToSet(disk)
  BY <1>3, TypeFacts DEF ToSet
<1> QED BY <1>6, <1>7

LEMMA NumberedStep == TypeOK /\ ShutdownOrder /\ FileTail /\ Numbered /\ [Next]_vars => Numbered'
<1> SUFFICES ASSUME TypeOK, ShutdownOrder, FileTail, Numbered, [Next]_vars PROVE Numbered'
  OBVIOUS
<1> USE DEF Numbered, emitterVars, memoryVars, diskVars, boundVars
<1>1. ASSUME NEW e \in Inferences, Emit(e) PROVE Numbered'
  BY <1>1 DEF Emit, AllNumbered, FileNumbered, MemoryIsPrefix, HomeIsPrefix, WholeUpTo
<1>2. CASE Take
  BY <1>2 DEF Take, AllNumbered, FileNumbered, MemoryIsPrefix, HomeIsPrefix, WholeUpTo
<1>3. CASE Write
  <2>1. writer.ev \in Inferences
    BY <1>3 DEF Write, ShutdownOrder, TypeOK
  <2>2. PICK k \in Nat : PutEffect(Line(writer.ev, seq + 1), k)
    <3>1. Line(writer.ev, seq + 1) \in Entries
      BY <2>1, EntryTypes DEF TypeOK
    <3> QED BY <1>3, <3>1, PutKeepsLines DEF Write
  <2>3. Line(writer.ev, seq + 1).kind = "line" /\ Line(writer.ev, seq + 1).seq = seq + 1
    BY EntryTypes
  <2>4. CASE risks' = {}
    <3>1. risks = {} /\ \A e \in Inferences : Line(e, seq + 1) \notin ToSet(disk)
      BY <1>3, <2>4 DEF Write, Window
    <3>2. up /\ UNCHANGED <<up, seq, events, home>>
      BY <1>3 DEF Write
    <3>3. k = Len(disk) /\ WholeUpTo(k) => Line(writer.ev, seq + 1).seq = k + 1
      BY <2>3, <3>1, <3>2, NextOrdinal
    <3> QED BY <2>2, <3>1, <3>2, <3>3, PutKeepsNumbers
  <2> QED BY <2>4
<1>4. CASE WriteError
  <2>1. up /\ UNCHANGED <<up, seq, events, home, risks>>
    BY <1>4 DEF WriteError
  <2>2. CASE UNCHANGED diskVars
    BY <2>1, <2>2 DEF AllNumbered, FileNumbered, MemoryIsPrefix, HomeIsPrefix, WholeUpTo
  <2>3. CASE Put(Torn("write"))
    <3>1. PICK k \in Nat : PutEffect(Torn("write"), k)
      BY <2>3, EntryTypes, PutKeepsLines
    <3>2. Torn("write").kind # "line"
      BY EntryTypes
    <3> QED BY <2>1, <3>1, <3>2, PutKeepsNumbers
  <2> QED BY <1>4, <2>2, <2>3 DEF WriteError
<1>5. CASE Sync
  <2> DEFINE new == Line(writer.ev, seq + 1)
  <2> SUFFICES ASSUME risks' = {} PROVE AllNumbered'
    OBVIOUS
  <2>1. risks = {} /\ WholeUpTo(Len(disk)) /\ AllNumbered
    BY <1>5, TypeFacts DEF Sync, Window, FileTail, WholeUpTo
  <2>2. /\ up /\ UNCHANGED <<up, disk, home>> /\ seq' = seq + 1
        /\ events' = Append(events, new)
    BY <1>5 DEF Sync
  <2>3. Len(disk) \in Nat /\ seq \in Nat
    BY TypeFacts DEF TypeOK
  <2>4. Len(disk) > 0 /\ disk[Len(disk)] = new
    BY <1>5, <2>1, <2>3, EntryTypes DEF Sync, FileTail, WholeUpTo
  <2>5. Len(disk) = seq + 1
    <3>1. disk[Len(disk)].seq = Len(disk)
      BY <2>1, <2>3, <2>4 DEF AllNumbered, FileNumbered
    <3> QED BY <2>4, <3>1, EntryTypes
  <2>6. /\ Len(events') = Len(events) + 1 /\ events'[Len(events) + 1] = new
        /\ \A i \in 1 .. Len(events) : events'[i] = events[i]
    <3>1. new \in Lines
      BY <1>5, EntryTypes DEF Sync, ShutdownOrder, TypeOK
    <3> HIDE DEF new
    <3> QED BY <2>2, <3>1, AppendProperties DEF TypeOK
  <2> HIDE DEF new
  <2>7. Len(events) = seq /\ \A i \in 1 .. seq : events[i] = disk[i]
    BY <2>1, <2>2 DEF AllNumbered, MemoryIsPrefix
  <2>8. \A i \in 1 .. seq + 1 : events'[i] = disk'[i]
    BY <2>2, <2>3, <2>4, <2>5, <2>6, <2>7
  <2>9. FileNumbered'
    BY <2>1, <2>2 DEF AllNumbered, FileNumbered, WholeUpTo
  <2>10. MemoryIsPrefix'
    BY <2>1, <2>2, <2>3, <2>5, <2>6, <2>7, <2>8 DEF MemoryIsPrefix, WholeUpTo
  <2>11. HomeIsPrefix'
    BY <2>1, <2>2, <2>3, TypeFacts DEF AllNumbered, HomeIsPrefix, WholeUpTo
  <2> QED BY <2>9, <2>10, <2>11 DEF AllNumbered
<1>6. CASE SyncError
  BY <1>6 DEF SyncError, Idle, AllNumbered, FileNumbered, MemoryIsPrefix, HomeIsPrefix, WholeUpTo
<1>7. CASE WriterExits
  BY <1>7 DEF WriterExits, AllNumbered, FileNumbered, MemoryIsPrefix, HomeIsPrefix, WholeUpTo
<1>8. CASE Pull
  <2> SUFFICES ASSUME risks' = {} PROVE AllNumbered'
    OBVIOUS
  <2>1. /\ up /\ risks = {} /\ AllNumbered /\ UNCHANGED <<up, disk, seq, events>>
        /\ home' = [cursor |-> seq, seen |-> home.seen \cup {events[i] : i \in
                        {j \in DOMAIN events : events[j].seq > home.cursor}}]
    BY <1>8 DEF Pull
  <2>2. /\ Len(events) = seq /\ seq <= Len(disk) /\ WholeUpTo(seq)
        /\ \A i \in 1 .. seq : events[i] = disk[i]
    BY <2>1 DEF AllNumbered, MemoryIsPrefix
  <2>3. /\ Len(disk) \in Nat /\ seq \in Nat /\ home.cursor \in Nat /\ home.cursor <= seq
        /\ DOMAIN events = 1 .. seq
    BY <2>1, <2>2, TypeFacts DEF TypeOK, AllNumbered, HomeIsPrefix
  <2>4. \A i \in 1 .. seq : events[i].seq = i
    BY <2>1, <2>2, <2>3 DEF AllNumbered, FileNumbered, WholeUpTo
  <2>5. home.seen = {disk[i] : i \in 1 .. home.cursor}
    BY <2>1 DEF AllNumbered, HomeIsPrefix
  <2>6. home'.seen = {disk[i] : i \in 1 .. seq}
    <3>1. home'.seen = home.seen \cup {disk[i] : i \in {j \in 1 .. seq : j > home.cursor}}
      BY <2>1, <2>2, <2>3, <2>4
    <3>2. 1 .. seq = 1 .. home.cursor \cup {j \in 1 .. seq : j > home.cursor}
      BY <2>3
    <3> QED BY <2>5, <3>1, <3>2
  <2>7. home'.cursor = seq
    BY <2>1
  <2>8. HomeIsPrefix'
    BY <2>1, <2>2, <2>3, <2>6, <2>7 DEF HomeIsPrefix, WholeUpTo
  <2> QED BY <2>1, <2>8 DEF AllNumbered, FileNumbered, MemoryIsPrefix, WholeUpTo
<1>9. CASE Close
  BY <1>9 DEF Close, AllNumbered, FileNumbered, MemoryIsPrefix, HomeIsPrefix, WholeUpTo
<1>10. CASE CloseLog
  BY <1>10 DEF CloseLog, AllNumbered, FileNumbered, MemoryIsPrefix, HomeIsPrefix, WholeUpTo
<1>11. CASE Exit
  BY <1>11 DEF Exit, Idle, AllNumbered, FileNumbered, MemoryIsPrefix, HomeIsPrefix, WholeUpTo
<1>12. CASE Kill
  BY <1>12 DEF Kill, Die, Idle, AllNumbered, FileNumbered, MemoryIsPrefix, HomeIsPrefix, WholeUpTo
<1>13. CASE PowerLoss
  <2>1. PICK n \in Nat : PowerEffect(n)
    BY <1>13, PowerKeepsSynced
  <2> SUFFICES ASSUME risks' = {} PROVE AllNumbered'
    OBVIOUS
  <2>2. /\ risks = {} /\ AllNumbered /\ up /\ ~up' /\ home' = home
        /\ ToSet(events) \subseteq ToSet(disk')
    BY <1>13 DEF PowerLoss, Die, Window
  <2>3. /\ Len(disk) \in Nat /\ n <= Len(disk) /\ Len(disk') \in Nat /\ n <= Len(disk')
        /\ \A i \in 1 .. n : disk'[i] = disk[i]
        /\ DOMAIN disk' = 1 .. Len(disk')
    BY <2>1, TypeFacts, LenProperties DEF PowerEffect
  <2>4. ASSUME NEW i \in 1 .. Len(disk'), disk'[i].kind = "line" PROVE i <= n
    BY <2>1, <2>3, <2>4, EntryTypes DEF PowerEffect
  <2>5. FileNumbered'
    <3> SUFFICES ASSUME NEW i \in 1 .. Len(disk'), WholeUpTo(i)' PROVE disk'[i].seq = i
      BY DEF FileNumbered
    <3>1. i <= n
      BY <2>3, <2>4 DEF WholeUpTo
    <3>2. i \in 1 .. Len(disk) /\ WholeUpTo(i)
      BY <2>3, <3>1 DEF WholeUpTo
    <3> QED BY <2>2, <2>3, <3>1, <3>2 DEF AllNumbered, FileNumbered
  <2>6. home.cursor \in Nat /\ seq \in Nat /\ home.cursor <= seq /\ seq <= Len(disk)
        /\ Len(events) = seq /\ WholeUpTo(seq) /\ \A i \in 1 .. seq : events[i] = disk[i]
    BY <2>2, TypeFacts DEF TypeOK, AllNumbered, MemoryIsPrefix, HomeIsPrefix
  <2>7. home.cursor <= n
    <3> SUFFICES ASSUME ~(home.cursor <= n) PROVE FALSE
      OBVIOUS
    <3> DEFINE c == home.cursor
    <3>1. c \in 1 .. seq /\ n < c
      BY ONLY n \in Nat, ~(c <= n), <2>6
    <3>2. \A i \in 1 .. seq : disk[i].seq = i
      <4>1. ASSUME NEW i \in 1 .. seq PROVE disk[i].seq = i
        <5>1. i \in 1 .. Len(disk)
          BY ONLY i \in 1 .. seq, <2>3, <2>6
        <5>2. WholeUpTo(i)
          BY ONLY i \in 1 .. seq, <2>6 DEF WholeUpTo
        <5> QED BY <2>2, <5>1, <5>2 DEF AllNumbered, FileNumbered
      <4> QED BY <4>1
    <3>3. disk[c] \in ToSet(disk') /\ disk[c].kind = "line" /\ disk[c].seq = c
      <4>1. disk[c] \in ToSet(events)
        BY <2>6, <3>1, TypeFacts DEF ToSet
      <4> QED BY <4>1, <2>2, <2>6, <3>1, <3>2 DEF WholeUpTo
    <3>4. PICK i \in 1 .. Len(disk') : disk'[i] = disk[c]
      BY <3>3, <2>3 DEF ToSet
    <3>5. i <= n
      BY <3>3, <3>4, <2>4
    <3>6. disk[i].seq = i /\ disk[i] = disk[c]
      BY <3>1, <3>2, <3>4, <3>5, <2>3, <2>6
    <3> QED BY <3>1, <3>3, <3>5, <3>6
  <2>8. HomeIsPrefix'
    <3>1. \A i \in 1 .. home.cursor : disk'[i] = disk[i]
      BY <2>3, <2>6, <2>7
    <3>2. {disk'[i] : i \in 1 .. home.cursor} = {disk[i] : i \in 1 .. home.cursor}
      BY <3>1
    <3> QED BY <2>2, <2>3, <2>6, <2>7, <3>1, <3>2 DEF AllNumbered, HomeIsPrefix, WholeUpTo
  <2> QED BY <2>2, <2>5, <2>8 DEF AllNumbered, MemoryIsPrefix
<1>14. CASE Restart
  <2>1. PICK g \in Nat : RestartEffect(g)
    BY <1>14, RestartKeepsLines
  <2> SUFFICES ASSUME risks' = {} PROVE AllNumbered'
    OBVIOUS
  <2>2. risks = {} /\ AllNumbered /\ home' = home
    BY <1>14 DEF Restart
  <2>3. /\ Len(disk) \in Nat /\ g <= Len(disk) /\ Len(disk') = g /\ WholeUpTo(g)
        /\ events' = disk' /\ \A i \in 1 .. g : disk'[i] = disk[i]
    BY <2>1, TypeFacts DEF RestartEffect
  <2>4. \A i \in 1 .. g : disk[i].seq = i
    BY <2>2, <2>3 DEF AllNumbered, FileNumbered, WholeUpTo
  <2>5. seq' = g
    BY <2>1, <2>4 DEF RestartEffect
  <2>6. home.cursor \in Nat /\ home.cursor <= g
    BY <2>1, <2>2, TypeFacts DEF RestartEffect, AllNumbered, HomeIsPrefix
  <2>7. WholeUpTo(g)'
    BY <2>3 DEF WholeUpTo
  <2>8. FileNumbered' /\ MemoryIsPrefix'
    BY <2>3, <2>4, <2>5, <2>7 DEF FileNumbered, MemoryIsPrefix
  <2>9. HomeIsPrefix'
    <3>1. \A i \in 1 .. home.cursor : disk'[i] = disk[i]
      BY <2>3, <2>6
    <3>2. {disk'[i] : i \in 1 .. home.cursor} = {disk[i] : i \in 1 .. home.cursor}
      BY <3>1
    <3> QED BY <2>2, <2>3, <2>5, <2>6, <3>1, <3>2 DEF AllNumbered, HomeIsPrefix, WholeUpTo
  <2> QED BY <2>8, <2>9 DEF AllNumbered
<1>15. CASE UNCHANGED vars
  BY <1>15 DEF vars, AllNumbered, FileNumbered, MemoryIsPrefix, HomeIsPrefix, WholeUpTo
<1> QED
  BY <1>1, <1>2, <1>3, <1>4, <1>5, <1>6, <1>7, <1>8, <1>9, <1>10, <1>11, <1>12, <1>13,
     <1>14, <1>15
     DEF Next

(***************************************************************************)
(* The invariant and what follows from it.                                 *)
(***************************************************************************)
LEMMA StepHolds == IInv /\ [Next]_vars => IInv'
<1> SUFFICES ASSUME IInv, [Next]_vars PROVE IInv'
  OBVIOUS
<1>1. TypeOK /\ ShutdownOrder /\ FileTail /\ Accounted /\ AppendedDurable /\ Numbered
  BY DEF IInv
<1>2. TypeOK'
  <2>1. Flags' /\ EmitterType' /\ LogType' /\ CountsType' /\ HomeType'
    BY <1>1, TypeParts, FlagsStep, EmitterStep, LogStep, CountsStep, HomeStep
  <2>2. TypeOK' <=> Flags' /\ EmitterType' /\ LogType' /\ CountsType' /\ HomeType'
    BY DEF TypeOK, Flags, EmitterType, LogType, CountsType, HomeType
  <2> QED BY <2>1, <2>2
<1>3. ShutdownOrder' /\ FileTail' /\ Accounted'
  BY <1>1, ShutdownOrderStep, FileTailStep, AccountedStep
<1>4. AppendedDurable' /\ Numbered'
  BY <1>1, DurableStep, NumberedStep
<1> QED BY <1>2, <1>3, <1>4 DEF IInv

\* The inductive invariant of the log: at every moment of every behaviour, crashes and
\* restarts included, the file, the writer's place and HOME's cursor fit together.
THEOREM Invariance == Spec => []IInv
BY InitHolds, StepHolds, PTL DEF Spec

\* In every state of every behaviour the variables have their types; in particular the
\* channel of the emitter holds at most its capacity and every counted event was emitted.
THEOREM TypeCorrect == Spec => []TypeOK
<1>1. IInv => TypeOK
  BY DEF IInv
<1> QED BY <1>1, Invariance, PTL

\* debitLog.Append: an event it acknowledged is found by load after any number of kills,
\* power losses, short writes, failed fsyncs and shutdowns, unless its line was merged
\* with the fragment of a short write.
THEOREM AcknowledgedSurvives == Spec => []AppendedSurvives
<1>1. IInv => AppendedSurvives
  <2> SUFFICES ASSUME IInv, "merged" \notin risks, up, NEW e \in appended
               PROVE \E i \in DOMAIN events : events[i].id = e
    BY DEF AppendedSurvives, DebitSurvivesRestart
  <2>1. InMemory(e) /\ TypeOK
    BY DEF IInv, AppendedDurable
  <2> QED BY <2>1, TypeFacts DEF InMemory
<1> QED BY <1>1, Invariance, PTL

\* debitLog.load and Append: until one of the three windows is hit no two records that
\* HOME has or would be given carry the same ordinal.
THEOREM OrdinalsNeverReused == Spec => []SeqNeverReused
<1>1. IInv => SeqNeverReused
  <2> SUFFICES ASSUME IInv, risks = {}, NEW x \in Known, NEW y \in Known, x.seq = y.seq
               PROVE x = y
    BY DEF SeqNeverReused
  <2>1. TypeOK /\ FileNumbered /\ MemoryIsPrefix /\ HomeIsPrefix
    BY DEF IInv, Numbered, AllNumbered
  <2>2. Len(disk) \in Nat /\ seq \in Nat /\ home.cursor \in Nat
    BY <2>1, TypeFacts DEF TypeOK
  <2>3. ASSUME NEW z \in Known PROVE \E i \in 1 .. Len(disk) : disk[i] = z /\ disk[i].seq = i
    <3>1. CASE z \in home.seen
      <4>1. PICK i \in 1 .. home.cursor : disk[i] = z
        BY <2>1, <3>1 DEF HomeIsPrefix
      <4>2. i \in 1 .. Len(disk) /\ WholeUpTo(i)
        BY <2>1, <2>2 DEF HomeIsPrefix, WholeUpTo
      <4> QED BY <2>1, <4>1, <4>2 DEF FileNumbered
    <3>2. CASE up /\ z \in ToSet(events)
      <4>1. PICK i \in 1 .. seq : events[i] = z
        BY <2>1, <3>2, TypeFacts DEF ToSet, MemoryIsPrefix
      <4>2. i \in 1 .. Len(disk) /\ WholeUpTo(i) /\ disk[i] = z
        BY <2>1, <2>2, <3>2, <4>1 DEF MemoryIsPrefix, WholeUpTo
      <4> QED BY <2>1, <4>2 DEF FileNumbered
    <3> QED BY <2>3, <3>1, <3>2 DEF Known
  <2>4. PICK i \in 1 .. Len(disk) : disk[i] = x /\ disk[i].seq = i
    BY <2>3
  <2>5. PICK j \in 1 .. Len(disk) : disk[j] = y /\ disk[j].seq = j
    BY <2>3
  <2> QED BY <2>4, <2>5
<1> QED BY <1>1, Invariance, PTL

\* SinceWithHead and debitsPullHandler: the records in memory are numbered without a gap,
\* and the cursor HOME moves to the head never passes a record it was not given.
THEOREM CursorSkipsNothing == Spec => []NothingSkipped
<1>1. IInv => NothingSkipped
  <2> SUFFICES ASSUME IInv, up, risks = {}
               PROVE /\ {events[i].seq : i \in DOMAIN events} = 1 .. seq
                     /\ \A i \in DOMAIN events :
                           events[i].seq <= home.cursor => events[i] \in home.seen
    BY DEF NothingSkipped
  <2>1. TypeOK /\ FileNumbered /\ MemoryIsPrefix /\ HomeIsPrefix
    BY DEF IInv, Numbered, AllNumbered
  <2>2. /\ Len(disk) \in Nat /\ seq \in Nat /\ home.cursor \in Nat /\ seq <= Len(disk)
        /\ DOMAIN events = 1 .. seq
    BY <2>1, TypeFacts DEF TypeOK, MemoryIsPrefix
  <2>3. \A i \in 1 .. seq : events[i] = disk[i] /\ events[i].seq = i
    BY <2>1, <2>2 DEF MemoryIsPrefix, FileNumbered, WholeUpTo
  <2>4. {events[i].seq : i \in DOMAIN events} = 1 .. seq
    BY <2>2, <2>3
  <2>5. ASSUME NEW i \in DOMAIN events, events[i].seq <= home.cursor
        PROVE events[i] \in home.seen
    <3>1. i \in 1 .. home.cursor
      BY <2>2, <2>3, <2>5
    <3> QED BY <2>1, <2>2, <2>3, <3>1 DEF HomeIsPrefix
  <2> QED BY <2>4, <2>5
<1> QED BY <1>1, Invariance, PTL

\* ProxyManager.Shutdown: when it has closed the log, every event the emitter accepted is
\* a line of the file, or was counted as failed or dropped, or was lost in a crash.
THEOREM ShutdownPersists == Spec => []CleanShutdownPersists
<1>1. IInv => CleanShutdownPersists
  <2> SUFFICES ASSUME IInv, up, ~file, "merged" \notin risks, NEW e \in emitted,
                      e \notin failed \cup dropped \cup crashed \cup ignored
               PROVE e \in {disk[i].id : i \in {j \in DOMAIN disk : disk[j].kind = "line"}}
    BY DEF CleanShutdownPersists
  <2>1. TypeOK /\ ShutdownOrder /\ Accounted /\ AppendedDurable
    BY DEF IInv
  <2>2. queue = <<>> /\ writer.ev = NoEvent /\ e # NoEvent
    BY <2>1, DebitLogAssumption DEF ShutdownOrder, TypeOK
  <2>3. e \in appended
    BY <2>1, <2>2, EmptySeq DEF Accounted
  <2>4. PICK i \in 1 .. synced : disk[i].kind = "line" /\ disk[i].id = e
    BY <2>1, <2>3 DEF AppendedDurable, Durable
  <2>5. i \in DOMAIN disk
    BY <2>1, TypeFacts
  <2> QED BY <2>4, <2>5
<1> QED BY <1>1, Invariance, PTL
=============================================================================
