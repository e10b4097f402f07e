------------------------- MODULE ConfigReloadProofs -------------------------
(***************************************************************************)
(* Proofs about ConfigReload, for any documents, any verdict of the loader *)
(* and any number of edits, reload goroutines and proxy managers.          *)
(*                                                                         *)
(* While no two reloads have overlapped, the one that runs owns conf and   *)
(* err: past the check of err, conf is a document that loads.  While no    *)
(* reload has overlapped another one or the shutdown, the thread that runs *)
(* also owns the manager that is alive, and its position says which one    *)
(* that is.                                                                *)
(*                                                                         *)
(* Then about Config, for every document: what the loader makes of its     *)
(* ports, groups and macros.  Lists of any length are gone through by      *)
(* induction over their positions, with the set of the positions where a   *)
(* fact holds (UpTo).  When one pass leaves no reference to a macro, the   *)
(* text before each of its steps needs one expansion more than the text    *)
(* after it, so that the text it began with needs as many as there are     *)
(* macros.                                                                 *)
(*                                                                         *)
(* Then about UsageMeter, whose meters the reloads replace, for any number *)
(* of requests, resets, reloads and kills.  While no two flushes           *)
(* overlapped, the one that writes owns the temporary file; the file, the  *)
(* newest meter and the bytes on their way to the file all hold what was   *)
(* saved and none of them what was reset.                                  *)
(***************************************************************************)
EXTENDS ServedConfig, UsageMeter, FiniteSetTheorems, SequenceTheorems, WellFoundedInduction, TLAPS

Good(d) == d # None /\ LoadSucceeds(d)

\* Two reloads are never in progress together.
OneReload == \A s, t \in ReloadSlots : pc[s] # "idle" /\ pc[t] # "idle" => s = t

\* What a reload knows of conf, and of the manager it made.
ConfIsGood ==
    /\ \A t \in ReloadSlots :
          /\ pc[t] = "assign" => got[t] \in Docs
          /\ pc[t] = "check" => (~err => Good(conf))
          /\ pc[t] \in {"shutdown", "closing", "new"} => Good(conf)
          /\ pc[t] = "swap" => made[t] \in Managers /\ Good(config[made[t]])
    /\ handler # 0 => Good(config[handler])

\* Before the start installs its manager no reload runs, and conf is what it read last.
StartIsAlone ==
    /\ phase \in {"boot", "built", "loaded"} => \A t \in ReloadSlots : pc[t] = "idle"
    /\ phase = "loaded" => Good(conf)

ConfInv == StartIsAlone /\ ("reloads" \notin overlap => OneReload /\ ConfIsGood)

\* The facts about threads and bounds that every step needs.
LEMMA ThreadFacts ==
    /\ ReloadSlots \subseteq Threads /\ Signal \in Threads /\ Signal \notin ReloadSlots
    /\ 1 \in Managers /\ 0 \notin Managers
    /\ \A t \in Threads : t \in ReloadSlots \/ t = Signal
    /\ None \notin Docs /\ EditDocs \subseteq Docs
BY ReloadAssumption DEF Threads, Signal, Managers

LEMMA InitInv == Init => TypeOK /\ ConfInv
BY ThreadFacts DEF Init, TypeOK, ConfInv, StartIsAlone, OneReload, ConfIsGood, ReloadPCs, SignalPCs

\* Every step keeps the types.
LEMMA StepType == TypeOK /\ [Next]_vars => TypeOK'
<1> SUFFICES ASSUME TypeOK, [Next]_vars PROVE TypeOK'
  OBVIOUS
<1> USE ThreadFacts DEF TypeOK, ReloadPCs, SignalPCs, files, watch
<1>1. CASE FirstLoad \/ SecondLoad
  <2>1. conf' \in Docs \cup {None}
    BY <1>1 DEF FirstLoad, SecondLoad, LoadConf
  <2>2. phase' \in {"boot", "built", "loaded", "failed", "serving", "exited"}
    BY <1>1 DEF FirstLoad, SecondLoad, LoadConf
  <2>3. UNCHANGED <<file, edits, handler, config, life, pc, cur, got, made, overlap>>
    BY <1>1 DEF FirstLoad, SecondLoad, LoadConf
  <2> QED
    BY <2>1, <2>2, <2>3
<1>0. CASE Start \/ Watch
  <2>1. CASE Start
    <3>1. handler' = 1 /\ config' = [config EXCEPT ![1] = conf] /\ life' = [life EXCEPT ![1] = "live"]
      BY <2>1 DEF Start
    <3>2. /\ handler' \in Managers /\ config' \in [Managers -> Docs \cup {None}]
          /\ life' \in [Managers -> {"none", "live", "closing", "closed"}]
      BY <3>1
    <3>3. phase' = "serving" /\ UNCHANGED <<file, edits, conf, pc, cur, got, made, overlap>>
      BY <2>1 DEF Start
    <3> QED
      BY <3>2, <3>3
  <2>2. CASE Watch
    BY <2>2 DEF Watch
  <2> QED
    BY <1>0, <2>1, <2>2
<1>2. ASSUME NEW d \in EditDocs, Edit(d) PROVE TypeOK'
  BY <1>2 DEF Edit
<1>3. CASE Debounce
  BY <1>3 DEF Debounce
<1>4. ASSUME NEW t \in ReloadSlots, TimerFires(t) PROVE TypeOK'
  BY <1>4 DEF TimerFires, Goto, Overlaps
<1>5. ASSUME NEW t \in ReloadSlots, ReadFile(t) \/ Assign(t) \/ CheckError(t) PROVE TypeOK'
  <2>1. CASE ReadFile(t)
    BY <2>1 DEF ReadFile, Goto
  <2>2. CASE Assign(t)
    BY <2>2 DEF Assign, Goto
  <2>3. CASE CheckError(t)
    BY <2>3 DEF CheckError, Goto
  <2>4. QED
    BY <1>5, <2>1, <2>2, <2>3
<1>6. ASSUME NEW t \in Threads, ShutdownBegins(t) PROVE TypeOK'
  BY <1>6 DEF ShutdownBegins, Goto
<1>7. ASSUME NEW t \in Threads, ShutdownEnds(t) \/ ShutdownAgain(t) PROVE TypeOK'
  <2>1. CASE t = Signal
    <3>1. CASE ShutdownEnds(t)
      BY <2>1, <3>1 DEF ShutdownEnds, AfterShutdown, Goto
    <3>2. CASE ShutdownAgain(t)
      BY <2>1, <3>2 DEF ShutdownAgain, AfterShutdown, Goto
    <3>3. QED
      BY <1>7, <3>1, <3>2
  <2>2. CASE t \in ReloadSlots
    <3>1. CASE ShutdownEnds(t)
      BY <2>2, <3>1 DEF ShutdownEnds, AfterShutdown, Goto
    <3>2. CASE ShutdownAgain(t)
      BY <2>2, <3>2 DEF ShutdownAgain, AfterShutdown, Goto
    <3>3. QED
      BY <1>7, <3>1, <3>2
  <2>3. QED
    BY <2>1, <2>2
<1>8. ASSUME NEW t \in ReloadSlots, New(t) PROVE TypeOK'
  BY <1>8 DEF New, Goto, Unused
<1>9. ASSUME NEW t \in ReloadSlots, SwapHandler(t) PROVE TypeOK'
  BY <1>9 DEF SwapHandler, Goto
<1>10. CASE SignalArrives
  BY <1>10 DEF SignalArrives, Goto
<1>11. CASE Exit
  BY <1>11 DEF Exit, Goto
<1>12. CASE UNCHANGED vars
  BY <1>12 DEF vars
<1>13. QED
  BY <1>0, <1>1, <1>2, <1>3, <1>4, <1>5, <1>6, <1>7, <1>8, <1>9, <1>10, <1>11, <1>12
     DEF Next, ReloadStep, SignalStep

\* The goroutines of main start with the server; only the start itself runs before.
LEMMA StepStart == TypeOK /\ StartIsAlone /\ [Next]_vars => StartIsAlone'
<1> SUFFICES ASSUME TypeOK, StartIsAlone, [Next]_vars PROVE StartIsAlone'
  OBVIOUS
<1> USE ThreadFacts DEF TypeOK, StartIsAlone, Good
<1>1. CASE FirstLoad \/ SecondLoad
  <2>1. LoadSucceeds(file) => conf' = file
    BY <1>1 DEF FirstLoad, SecondLoad, LoadConf
  <2>2. phase' = "loaded" => LoadSucceeds(file)
    BY <1>1 DEF FirstLoad, SecondLoad, LoadConf
  <2>3. pc' = pc /\ phase \in {"boot", "built"}
    BY <1>1 DEF FirstLoad, SecondLoad, LoadConf
  <2> QED
    BY <2>1, <2>2, <2>3
<1>2. CASE Start \/ Watch \/ Debounce
  BY <1>2 DEF Start, Watch, Debounce
<1>3. ASSUME NEW d \in EditDocs, Edit(d) PROVE StartIsAlone'
  BY <1>3 DEF Edit
<1>4. ASSUME NEW t \in Threads, TimerFires(t) \/ ReloadStep(t) \/ SignalArrives \/ SignalStep
      PROVE  StartIsAlone'
  <2>1. phase' \in {"serving", "exited"}
    <3>1. CASE Exit
      BY <3>1 DEF Exit
    <3>2. CASE ~Exit
      BY <1>4, <3>2 DEF TimerFires, ReloadStep, ReadFile, Assign, CheckError, ShutdownBegins,
         ShutdownEnds, ShutdownAgain, New, SwapHandler, SignalArrives, SignalStep
    <3> QED
      BY <3>1, <3>2
  <2> QED
    BY <2>1
<1>5. CASE UNCHANGED vars
  BY <1>5 DEF vars
<1> QED
  BY <1>1, <1>2, <1>3, <1>4, <1>5 DEF Next

\* A reload that starts or goes on keeps what the running one knows of conf.
LEMMA StepConf == TypeOK /\ ConfInv /\ [Next]_vars => ConfInv'
<1> SUFFICES ASSUME TypeOK, ConfInv, [Next]_vars, "reloads" \notin overlap'
             PROVE  OneReload' /\ ConfIsGood'
  BY StepStart DEF ConfInv
<1>s. StartIsAlone
  BY DEF ConfInv
<1> USE ThreadFacts DEF TypeOK, ConfInv, OneReload, ConfIsGood, Good, files, watch
<1>1. CASE FirstLoad \/ SecondLoad
  <2>1. /\ \A t \in ReloadSlots : pc[t] = "idle"
        /\ UNCHANGED <<pc, got, made, handler, config, overlap>>
    BY <1>1, <1>s DEF FirstLoad, SecondLoad, LoadConf, StartIsAlone
  <2> QED
    BY <2>1
<1>0. CASE Start \/ Watch
  <2>1. CASE Start
    <3>1. (\A t \in ReloadSlots : pc[t] = "idle") /\ Good(conf)
      BY <1>s, <2>1 DEF Start, StartIsAlone
    <3> QED
      BY <2>1, <3>1 DEF Start
  <2>2. CASE Watch
    BY <2>2 DEF Watch
  <2> QED
    BY <1>0, <2>1, <2>2
<1>2. ASSUME NEW d \in EditDocs, Edit(d) PROVE OneReload' /\ ConfIsGood'
  BY <1>2 DEF Edit
<1>3. CASE Debounce
  BY <1>3 DEF Debounce
<1>4. ASSUME NEW t \in ReloadSlots, TimerFires(t) PROVE OneReload' /\ ConfIsGood'
  <2>1. Running \ {t, Signal} = {}
    BY <1>4 DEF TimerFires, Overlaps
  <2>2. \A s \in ReloadSlots : s # t => pc[s] = "idle"
    BY <2>1 DEF Running, Idle
  <2>3. QED
    BY <1>4, <2>2 DEF TimerFires, Goto, Overlaps
<1>5. ASSUME NEW t \in ReloadSlots, ReadFile(t) PROVE OneReload' /\ ConfIsGood'
  BY <1>5 DEF ReadFile, Goto
<1>6. ASSUME NEW t \in ReloadSlots, Assign(t) PROVE OneReload' /\ ConfIsGood'
  <2>1. ~err' => LoadSucceeds(got[t])
    BY <1>6, Zenon DEF Assign
  <2>2. got[t] \in Docs
    BY <1>6 DEF Assign, Goto
  <2>3. ~err' => Good(conf')
    BY <1>6, <2>1, <2>2 DEF Assign
  <2>4. \A s \in ReloadSlots : s # t => pc'[s] = "idle"
    BY <1>6 DEF Assign, Goto
  <2>5. pc'[t] = "check" /\ handler' = handler /\ config' = config /\ pc[t] = "assign"
        /\ overlap' = overlap
    BY <1>6 DEF Assign, Goto
  <2>6. QED
    BY <2>3, <2>4, <2>5
<1>7. ASSUME NEW t \in ReloadSlots, CheckError(t) PROVE OneReload' /\ ConfIsGood'
  <2>1. CASE err
    BY <1>7, <2>1 DEF CheckError, Goto
  <2>2. CASE ~err
    BY <1>7, <2>2 DEF CheckError, Goto
  <2>3. QED
    BY <2>1, <2>2
<1>8. ASSUME NEW t \in Threads, ShutdownBegins(t) \/ ShutdownEnds(t) \/ ShutdownAgain(t)
      PROVE OneReload' /\ ConfIsGood'
  <2>1. CASE t = Signal
    BY <1>8, <2>1 DEF ShutdownBegins, ShutdownEnds, ShutdownAgain, Goto
  <2>2. CASE t \in ReloadSlots
    BY <1>8, <2>2 DEF ShutdownBegins, ShutdownEnds, ShutdownAgain, AfterShutdown, Goto
  <2>3. QED
    BY <2>1, <2>2
<1>9. ASSUME NEW t \in ReloadSlots, New(t) PROVE OneReload' /\ ConfIsGood'
  BY <1>9 DEF New, Goto, Unused
<1>10. ASSUME NEW t \in ReloadSlots, SwapHandler(t) PROVE OneReload' /\ ConfIsGood'
  BY <1>10 DEF SwapHandler, Goto
<1>11. CASE SignalArrives
  BY <1>11 DEF SignalArrives, Goto
<1>12. CASE Exit
  BY <1>12 DEF Exit, Goto
<1>13. CASE UNCHANGED vars
  BY <1>13 DEF vars
<1>14. QED
  BY <1>0, <1>1, <1>2, <1>3, <1>4, <1>5, <1>6, <1>7, <1>8, <1>9, <1>10, <1>11, <1>12, <1>13
     DEF Next, ReloadStep, SignalStep

\* The documents, managers, threads and phases of main keep their types.
THEOREM TypeCorrect == Spec => []TypeOK
<1>1. Init => TypeOK
  BY InitInv
<1>2. QED
  BY <1>1, StepType, PTL DEF Spec

\* A reload never installs a manager with a configuration that failed to load,
\* as long as no reload began while another one was in progress.
THEOREM NeverServesABrokenConfig == Spec => []ServesALoadedConfig
<1>1. Init => TypeOK /\ ConfInv
  BY InitInv
<1>2. TypeOK /\ ConfInv /\ [Next]_vars => (TypeOK /\ ConfInv)'
  BY StepType, StepConf
<1>3. TypeOK /\ ConfInv => ServesALoadedConfig
  BY DEF ConfInv, ConfIsGood, Good, ServesALoadedConfig
<1>4. QED
  BY <1>1, <1>2, <1>3, PTL DEF Spec
-----------------------------------------------------------------------------
(***************************************************************************)
(* Which manager is alive while nothing overlaps.                          *)
(***************************************************************************)
Active(t) == pc[t] \notin {"idle", "wait"}
Dead(m) == life[m] \notin {"live", "closing"}
Alone(m) == m \in Managers /\ ~Dead(m) /\ \A n \in Managers : n # m => Dead(n)
AloneAndLive(m) == Alone(m) /\ life[m] = "live"
AllDead == \A m \in Managers : Dead(m)

OneActive == \A s, t \in Threads : Active(s) /\ Active(t) => s = t

\* A thread that runs knows the manager that is alive from where it is.
ThreadOwns ==
    \A t \in Threads :
        /\ pc[t] \in {"load", "assign", "check", "shutdown"} =>
              cur[t] = handler /\ AloneAndLive(handler)
        /\ pc[t] = "closing" => Alone(cur[t])
        /\ pc[t] \in {"new", "server", "done"} => AllDead
        /\ pc[t] = "swap" => AloneAndLive(made[t])

\* When no thread runs, the handler is the manager that is alive; before the first
\* load there is none, and the program has exited once the shutdown is done.
RestOwns ==
    /\ phase \in {"boot", "built", "loaded", "failed"} => AllDead /\ \A t \in Threads : ~Active(t)
    /\ phase = "serving" /\ (\A t \in Threads : ~Active(t)) => AloneAndLive(handler)
    /\ phase = "exited" <=> pc[Signal] = "done"

LiveInv == overlap = {} => OneActive /\ ThreadOwns /\ RestOwns

LEMMA InitLive == Init => LiveInv
BY ThreadFacts DEF Init, LiveInv, OneActive, ThreadOwns, RestOwns, Active, AllDead, Dead

\* Running and Active are the same threads.
LEMMA RunningIsActive == TypeOK => \A t \in Threads : t \in Running <=> Active(t)
BY ThreadFacts DEF TypeOK, Running, Idle, Active, ReloadPCs, SignalPCs

LEMMA StepLive == TypeOK /\ LiveInv /\ [Next]_vars => LiveInv'
<1> SUFFICES ASSUME TypeOK, LiveInv, [Next]_vars, overlap' = {}
             PROVE  OneActive' /\ ThreadOwns' /\ RestOwns'
  BY DEF LiveInv
<1>a. overlap = {}
  BY DEF Next, FirstLoad, SecondLoad, LoadConf, Start, Watch, Edit, Debounce, TimerFires, ReloadStep, ReadFile, Assign, CheckError,
         ShutdownBegins, ShutdownEnds, ShutdownAgain, New, SwapHandler, SignalArrives,
         SignalStep, Exit, vars
<1>b. OneActive /\ ThreadOwns /\ RestOwns
  BY <1>a DEF LiveInv
<1> USE ThreadFacts, <1>b
    DEF TypeOK, OneActive, ThreadOwns, RestOwns, Active, AloneAndLive, Alone, AllDead, Dead, files, watch
<1>1. CASE FirstLoad \/ SecondLoad
  <2>1. /\ phase \in {"boot", "built"} /\ phase' \in {"built", "loaded", "failed"}
        /\ UNCHANGED <<life, pc, cur, made, handler>>
    BY <1>1 DEF FirstLoad, SecondLoad, LoadConf
  <2> QED
    BY <2>1
<1>0. CASE Start \/ Watch
  <2>1. CASE Start
    BY <2>1 DEF Start
  <2>2. CASE Watch
    BY <2>2 DEF Watch
  <2> QED
    BY <1>0, <2>1, <2>2
<1>2. ASSUME NEW d \in EditDocs, Edit(d) PROVE OneActive' /\ ThreadOwns' /\ RestOwns'
  BY <1>2 DEF Edit
<1>3. CASE Debounce
  BY <1>3 DEF Debounce
<1>4. ASSUME NEW t \in ReloadSlots, TimerFires(t) PROVE OneActive' /\ ThreadOwns' /\ RestOwns'
  <2>1. Running \ {t, Signal} = {} /\ pc[Signal] = "wait" /\ pc[t] = "idle"
    BY <1>4 DEF TimerFires, Overlaps, Goto
  <2>2. \A s \in Threads : ~Active(s)
    BY <2>1, RunningIsActive
  <2>3. AloneAndLive(handler)
    BY <1>4, <2>2 DEF TimerFires
  <2>4. QED
    BY <1>4, <2>2, <2>3 DEF TimerFires, Goto
<1>5. ASSUME NEW t \in ReloadSlots, ReadFile(t) PROVE OneActive' /\ ThreadOwns' /\ RestOwns'
  BY <1>5 DEF ReadFile, Goto
<1>6. ASSUME NEW t \in ReloadSlots, Assign(t) PROVE OneActive' /\ ThreadOwns' /\ RestOwns'
  BY <1>6 DEF Assign, Goto
<1>7. ASSUME NEW t \in ReloadSlots, CheckError(t) PROVE OneActive' /\ ThreadOwns' /\ RestOwns'
  <2>1. CASE err
    BY <1>7, <2>1 DEF CheckError, Goto
  <2>2. CASE ~err
    BY <1>7, <2>2 DEF CheckError, Goto
  <2>3. QED
    BY <2>1, <2>2
<1>8. ASSUME NEW t \in Threads, ShutdownBegins(t) PROVE OneActive' /\ ThreadOwns' /\ RestOwns'
  BY <1>8 DEF ShutdownBegins, Goto
<1>9. ASSUME NEW t \in Threads, ShutdownEnds(t) PROVE OneActive' /\ ThreadOwns' /\ RestOwns'
  BY <1>9 DEF ShutdownEnds, AfterShutdown, Goto
<1>10. ASSUME NEW t \in Threads, ShutdownAgain(t) PROVE OneActive' /\ ThreadOwns' /\ RestOwns'
  BY <1>10 DEF ShutdownAgain, Goto
<1>11. ASSUME NEW t \in ReloadSlots, New(t) PROVE OneActive' /\ ThreadOwns' /\ RestOwns'
  BY <1>11 DEF New, Goto, Unused
<1>12. ASSUME NEW t \in ReloadSlots, SwapHandler(t) PROVE OneActive' /\ ThreadOwns' /\ RestOwns'
  BY <1>12 DEF SwapHandler, Goto
<1>13. CASE SignalArrives
  <2>1. Running = {} /\ pc[Signal] = "wait"
    BY <1>13 DEF SignalArrives, Goto
  <2>2. \A s \in Threads : ~Active(s)
    BY <2>1, RunningIsActive
  <2>3. QED
    BY <1>13, <2>2 DEF SignalArrives, Goto
<1>14. CASE Exit
  BY <1>14 DEF Exit, Goto
<1>15. CASE UNCHANGED vars
  BY <1>15 DEF vars
<1>16. QED
  BY <1>0, <1>1, <1>2, <1>3, <1>4, <1>5, <1>6, <1>7, <1>8, <1>9, <1>10, <1>11, <1>12, <1>13,
     <1>14, <1>15 DEF Next, ReloadStep, SignalStep

\* While nothing overlaps, a reload shuts the old manager down before it makes the
\* new one, and the shutdown leaves none alive: no manager is ever left behind.
THEOREM ReloadLeavesNoManager == Spec => []NoManagerLeftBehind
<1>1. Init => TypeOK /\ LiveInv
  BY InitInv, InitLive
<1>2. TypeOK /\ LiveInv /\ [Next]_vars => (TypeOK /\ LiveInv)'
  BY StepType, StepLive
<1>3. TypeOK /\ LiveInv => NoManagerLeftBehind
  <2> SUFFICES ASSUME TypeOK, LiveInv, overlap = {} PROVE NoManagerLeftBehind
    BY DEF NoManagerLeftBehind
  <2>1. ASSUME phase = "serving", Running = {} PROVE Live = {handler}
    <3>1. AloneAndLive(handler)
      BY <2>1, RunningIsActive DEF LiveInv, RestOwns
    <3>2. QED
      BY <3>1 DEF AloneAndLive, Alone, Dead, Live
  <2>2. ASSUME phase = "exited" PROVE Live = {}
    BY <2>2, ThreadFacts DEF LiveInv, RestOwns, ThreadOwns, AllDead, Dead, Live
  <2>3. QED
    BY <2>1, <2>2 DEF NoManagerLeftBehind
<1>4. QED
  BY <1>1, <1>2, <1>3, PTL DEF Spec

-----------------------------------------------------------------------------
(***************************************************************************)
(* The loader: recursion over lists.                                       *)
(***************************************************************************)
\* Induction up to n, for a set of numbers.
LEMMA UpTo ==
    ASSUME NEW n \in Nat, NEW P, 0 \in P, \A i \in 1 .. n : i - 1 \in P => i \in P
    PROVE  0 .. n \subseteq P
<1> DEFINE W == {k \in Nat : k <= n /\ k \notin P}
<1> SUFFICES ASSUME W # {} PROVE FALSE
  OBVIOUS
<1>1. PICK k \in W : \A y \in W : ~(<<y, k>> \in OpToRel(<, Nat))
  <2>1. W \subseteq Nat
    OBVIOUS
  <2> HIDE DEF W
  <2> QED
    BY <2>1, NatLessThanWellFounded, WFMin
<1>2. k \in Nat /\ k <= n /\ k \notin P /\ k # 0
  BY <1>1
<1>3. k - 1 \in Nat /\ k - 1 < k /\ k - 1 <= n /\ k \in 1 .. n
  BY <1>2
<1>4. k - 1 \notin W
  BY <1>1, <1>2, <1>3 DEF OpToRel
<1>5. k - 1 \in P
  BY <1>3, <1>4
<1> QED
  BY <1>2, <1>3, <1>5

\* What the steps of a recursion keep, it has after each of them.
LEMMA StepsKeep ==
    ASSUME NEW n \in Nat, NEW X, NEW f, f[0] \in X, \A i \in 1 .. n : f[i - 1] \in X => f[i] \in X
    PROVE  \A i \in 0 .. n : f[i] \in X
<1> DEFINE P == {i \in 0 .. n : f[i] \in X}
<1>1. 0 \in P /\ \A i \in 1 .. n : i - 1 \in P => i \in P
  OBVIOUS
<1> HIDE DEF P
<1>2. 0 .. n \subseteq P
  BY <1>1, UpTo
<1> QED
  BY <1>2 DEF P

\* A recursion over the first n numbers has a solution.
Iterates(f, n, base, step) == f = [i \in 0 .. n |-> IF i = 0 THEN base ELSE step[<<i, f[i - 1]>>]]

LEMMA IteratesExists ==
    ASSUME NEW n \in Nat, NEW X, NEW base \in X, NEW step \in [(1 .. n) \X X -> X]
    PROVE  \E f \in [0 .. n -> X] : Iterates(f, n, base, step)
<1> DEFINE P == {k \in 0 .. n : \E f \in [0 .. k -> X] : Iterates(f, k, base, step)}
<1>1. 0 \in P
  <2> DEFINE f == [i \in 0 .. 0 |-> base]
  <2>1. f \in [0 .. 0 -> X] /\ Iterates(f, 0, base, step)
    BY DEF Iterates
  <2> HIDE DEF f
  <2> QED
    BY <2>1
<1>2. ASSUME NEW k \in 1 .. n, k - 1 \in P PROVE k \in P
  <2>1. PICK g \in [0 .. k - 1 -> X] : Iterates(g, k - 1, base, step)
    BY <1>2
  <2> DEFINE f == [i \in 0 .. k |-> IF i = k THEN step[<<k, g[k - 1]>>] ELSE g[i]]
  <2>2. f \in [0 .. k -> X]
    <3>1. step[<<k, g[k - 1]>>] \in X
      OBVIOUS
    <3> QED
      BY <3>1
  <2>3. ASSUME NEW i \in 0 .. k PROVE f[i] = IF i = 0 THEN base ELSE step[<<i, f[i - 1]>>]
    <3>1. i # 0 => i - 1 \in 0 .. k /\ i - 1 # k /\ f[i - 1] = g[i - 1]
      OBVIOUS
    <3>2. CASE i = k
      <4>1. f[k] = step[<<k, g[k - 1]>>] /\ k # 0
        OBVIOUS
      <4> HIDE DEF f
      <4> QED
        BY <3>1, <3>2, <4>1
    <3>3. CASE i # k
      <4>1. i \in 0 .. k - 1 /\ f[i] = g[i]
        BY <3>3
      <4>2. g[i] = IF i = 0 THEN base ELSE step[<<i, g[i - 1]>>]
        BY <2>1, <4>1, Zenon DEF Iterates
      <4> HIDE DEF f
      <4> QED
        BY <3>1, <4>1, <4>2
    <3> QED
      BY <3>2, <3>3
  <2>4. f = [i \in 0 .. k |-> f[i]]
    OBVIOUS
  <2> HIDE DEF f
  <2>5. Iterates(f, k, base, step)
    BY <2>3, <2>4 DEF Iterates
  <2> QED
    BY <2>2, <2>5
<1>3. n \in P
  <2> HIDE DEF P
  <2>1. 0 .. n \subseteq P
    BY <1>1, <1>2, UpTo
  <2> QED
    BY <2>1
<1> QED
  BY <1>3

\* The sequences FlattenSeq has put together after each of its n steps.
Flattens(g, seqs, n) ==
    g = [i \in 1 .. n |-> IF i = 1 THEN seqs[i] ELSE g[i - 1] \o seqs[i]]

LEMMA FlattensExists ==
    ASSUME NEW n \in Nat, NEW seqs PROVE \E g : Flattens(g, seqs, n)
<1> DEFINE P == {k \in 0 .. n : \E g : Flattens(g, seqs, k)}
<1>1. 0 \in P
  <2> DEFINE g == [i \in 1 .. 0 |-> seqs]
  <2>1. Flattens(g, seqs, 0)
    BY DEF Flattens
  <2> HIDE DEF g
  <2> QED
    BY <2>1
<1>2. ASSUME NEW k \in 1 .. n, k - 1 \in P PROVE k \in P
  <2>1. PICK g : Flattens(g, seqs, k - 1)
    BY <1>2
  <2> DEFINE h == [i \in 1 .. k |-> IF i = k THEN IF i = 1 THEN seqs[i] ELSE g[i - 1] \o seqs[i]
                                    ELSE g[i]]
  <2>2. ASSUME NEW i \in 1 .. k
        PROVE  h[i] = IF i = 1 THEN seqs[i] ELSE h[i - 1] \o seqs[i]
    <3>1. i # 1 => i - 1 \in 1 .. k /\ i - 1 # k /\ h[i - 1] = g[i - 1]
      OBVIOUS
    <3>2. CASE i = k
      BY <3>1, <3>2
    <3>3. CASE i # k
      <4>1. i \in 1 .. k - 1
        BY <3>3
      <4>2. g[i] = IF i = 1 THEN seqs[i] ELSE g[i - 1] \o seqs[i]
        BY <2>1, <4>1 DEF Flattens
      <4>3. h[i] = g[i]
        BY <3>3
      <4> HIDE DEF h
      <4> QED
        BY <3>1, <4>2, <4>3
    <3> QED
      BY <3>2, <3>3
  <2>3. h = [i \in 1 .. k |-> h[i]]
    OBVIOUS
  <2> HIDE DEF h
  <2>4. Flattens(h, seqs, k)
    BY <2>2, <2>3 DEF Flattens
  <2> QED
    BY <2>4
<1>3. n \in P
  <2> HIDE DEF P
  <2>1. 0 .. n \subseteq P
    BY <1>1, <1>2, UpTo
  <2> QED
    BY <2>1
<1> QED
  BY <1>3

\* The beginnings of a flattened list, and that they determine it.
Joins(f, n, seqs) == f[0] = << >> /\ \A i \in 1 .. n : f[i] = f[i - 1] \o seqs[i]

LEMMA FlattenJoins ==
    ASSUME NEW S, NEW n \in Nat, NEW seqs \in [1 .. n -> Seq(S)]
    PROVE  \E f \in [0 .. n -> Seq(S)] : Joins(f, n, seqs) /\ FlattenSeq(seqs) = f[n]
<1>1. seqs \in Seq(Seq(S)) /\ Len(seqs) = n
  <2>1. Seq(Seq(S)) = UNION {[1 .. k -> Seq(S)] : k \in Nat}
    BY SeqDef
  <2>2. seqs \in Seq(Seq(S))
    BY <2>1
  <2> QED
    BY <2>2, LenProperties
<1>2. << >> \in Seq(S) /\ \A s, t \in Seq(S) : s \o t \in Seq(S)
  BY ConcatProperties
<1>3. PICK f \in [0 .. n -> Seq(S)] : Joins(f, n, seqs)
  <2> DEFINE step == [p \in (1 .. n) \X Seq(S) |-> p[2] \o seqs[p[1]]]
  <2>1. step \in [(1 .. n) \X Seq(S) -> Seq(S)]
    BY <1>2
  <2> HIDE DEF step
  <2>2. PICK f \in [0 .. n -> Seq(S)] : Iterates(f, n, << >>, step)
    BY <1>2, <2>1, IteratesExists
  <2>3. ASSUME NEW i \in 0 .. n PROVE f[i] = IF i = 0 THEN << >> ELSE step[<<i, f[i - 1]>>]
    BY <2>2, Zenon DEF Iterates
  <2>4. f[0] = << >>
    <3>1. 0 \in 0 .. n
      OBVIOUS
    <3> QED
      BY <2>3, <3>1, Zenon
  <2>5. ASSUME NEW i \in 1 .. n PROVE f[i] = f[i - 1] \o seqs[i]
    <3>1. i \in 0 .. n /\ i # 0 /\ i - 1 \in 0 .. n
      OBVIOUS
    <3>2. f[i] = step[<<i, f[i - 1]>>] /\ f[i - 1] \in Seq(S)
      BY <2>3, <3>1
    <3> QED
      BY <3>2 DEF step
  <2>6. Joins(f, n, seqs)
    BY <2>4, <2>5 DEF Joins
  <2> QED
    BY <2>6
<1>4. CASE n = 0
  <2>1. FlattenSeq(seqs) = seqs
    BY <1>1, <1>4 DEF FlattenSeq
  <2>2. seqs = << >>
    BY <1>1, <1>4, EmptySeq
  <2> QED
    BY <1>3, <1>4, <2>1, <2>2 DEF Joins
<1>5. CASE n # 0
  <2> DEFINE g == CHOOSE h : h = [i \in 1 .. n |-> IF i = 1 THEN seqs[i] ELSE h[i - 1] \o seqs[i]]
             P == {i \in 0 .. n : i = 0 \/ g[i] = f[i]}
  <2>1. FlattenSeq(seqs) = g[n]
    BY <1>1, <1>5 DEF FlattenSeq
  <2>2. g = [i \in 1 .. n |-> IF i = 1 THEN seqs[i] ELSE g[i - 1] \o seqs[i]]
    BY FlattensExists, Zenon DEF Flattens
  <2> HIDE DEF g
  <2>3. ASSUME NEW i \in 1 .. n PROVE g[i] = IF i = 1 THEN seqs[i] ELSE g[i - 1] \o seqs[i]
    BY <2>2, Zenon
  <2>4. ASSUME NEW i \in 1 .. n, i - 1 \in P PROVE i \in P
    <3>1. CASE i = 1
      <4>1. g[1] = seqs[1] /\ f[1] = f[1 - 1] \o seqs[1]
        BY <1>3, <2>3, <3>1 DEF Joins
      <4>2. f[1 - 1] = << >> /\ seqs[1] \in Seq(S)
        BY <1>3, <1>5 DEF Joins
      <4>3. f[1] = seqs[1]
        BY <4>1, <4>2, ConcatEmptySeq
      <4> QED
        BY <3>1, <4>1, <4>3
    <3>2. CASE i # 1
      <4>1. g[i - 1] = f[i - 1]
        BY <2>4, <3>2
      <4>2. g[i] = g[i - 1] \o seqs[i] /\ f[i] = f[i - 1] \o seqs[i]
        BY <1>3, <2>3, <3>2 DEF Joins
      <4>3. g[i] = f[i]
        BY <4>1, <4>2, Zenon
      <4> QED
        BY <4>3
    <3> QED
      BY <3>1, <3>2
  <2>5. 0 \in P
    OBVIOUS
  <2>6. n \in P
    <3> HIDE DEF P
    <3>1. 0 .. n \subseteq P
      BY <2>4, <2>5, UpTo
    <3> QED
      BY <3>1
  <2>7. g[n] = f[n]
    BY <1>5, <2>6
  <2> QED
    BY <1>3, <2>1, <2>7
<1> QED
  BY <1>4, <1>5

LEMMA JoinsFlatten ==
    ASSUME NEW S, NEW n \in Nat, NEW seqs \in [1 .. n -> Seq(S)], NEW f, Joins(f, n, seqs)
    PROVE  FlattenSeq(seqs) = f[n]
<1>1. PICK g \in [0 .. n -> Seq(S)] : Joins(g, n, seqs) /\ FlattenSeq(seqs) = g[n]
  BY FlattenJoins
<1> DEFINE P == {i \in 0 .. n : g[i] = f[i]}
<1>2. 0 \in P
  BY <1>1 DEF Joins
<1>3. ASSUME NEW i \in 1 .. n, i - 1 \in P PROVE i \in P
  <2>1. g[i] = g[i - 1] \o seqs[i] /\ f[i] = f[i - 1] \o seqs[i] /\ g[i - 1] = f[i - 1]
    BY <1>1, <1>3 DEF Joins
  <2>2. g[i] = f[i]
    BY <2>1, Zenon
  <2> QED
    BY <2>2
<1>4. n \in P
  <2> HIDE DEF P
  <2>1. 0 .. n \subseteq P
    BY <1>2, <1>3, UpTo
  <2> QED
    BY <2>1
<1> QED
  BY <1>1, <1>4

\* The tokens of a flattened list are those of its members.
LEMMA FlattenTokens ==
    ASSUME NEW S, NEW n \in Nat, NEW seqs \in [1 .. n -> Seq(S)]
    PROVE  /\ FlattenSeq(seqs) \in Seq(S)
           /\ \A x : x \in Range(FlattenSeq(seqs)) <=> \E i \in 1 .. n : x \in Range(seqs[i])
<1>1. PICK f \in [0 .. n -> Seq(S)] : Joins(f, n, seqs) /\ FlattenSeq(seqs) = f[n]
  BY FlattenJoins
<1> DEFINE Holds(i) == \A x : x \in Range(f[i]) <=> \E j \in 1 .. i : x \in Range(seqs[j])
           P == {i \in 0 .. n : Holds(i)}
<1>2. 0 \in P
  BY <1>1 DEF Joins, Range
<1>3. ASSUME NEW i \in 1 .. n, i - 1 \in P PROVE i \in P
  <2>1. f[i] = f[i - 1] \o seqs[i] /\ f[i - 1] \in Seq(S) /\ seqs[i] \in Seq(S)
    <3>1. f[i] = f[i - 1] \o seqs[i]
      BY <1>1, Zenon DEF Joins
    <3>2. i - 1 \in 0 .. n
      OBVIOUS
    <3> QED
      BY <3>1, <3>2
  <2>2. Range(f[i]) = Range(f[i - 1]) \cup Range(seqs[i])
    BY <2>1, RangeConcatenation
  <2>3. 1 .. i = (1 .. i - 1) \cup {i} /\ i \in 0 .. n
    OBVIOUS
  <2>4. Holds(i - 1)
    BY <1>3
  <2>5. Holds(i)
    BY <2>2, <2>3, <2>4
  <2> HIDE DEF Holds
  <2> QED
    BY <2>3, <2>5
<1>4. n \in P
  <2> HIDE DEF P
  <2>1. 0 .. n \subseteq P
    BY <1>2, <1>3, UpTo
  <2> QED
    BY <2>1
<1> QED
  BY <1>1, <1>4

Associates(S) == \A s, t, u \in Seq(S) : (s \o t) \o u = s \o (t \o u)

LEMMA Associativity == \A S : Associates(S)
<1> SUFFICES ASSUME NEW S, NEW s \in Seq(S), NEW t \in Seq(S), NEW u \in Seq(S)
             PROVE  (s \o t) \o u = s \o (t \o u)
  BY DEF Associates
<1> QED
  BY ConcatAssociative

\* A list of texts flattens piece by piece, and a list of single tokens to the tokens.
Splits(S, k, n, p, q, r) ==
    /\ k \in Nat /\ n \in Nat
    /\ p \in [1 .. k -> Seq(S)] /\ q \in [1 .. n -> Seq(S)] /\ r \in [1 .. k + n -> Seq(S)]
    /\ \A i \in 1 .. k : r[i] = p[i]
    /\ \A i \in 1 .. n : r[k + i] = q[i]

LEMMA FlattenConcat ==
    ASSUME NEW S, NEW k, NEW n, NEW p, NEW q, NEW r, Splits(S, k, n, p, q, r)
    PROVE  FlattenSeq(r) = FlattenSeq(p) \o FlattenSeq(q)
<1>0. /\ k \in Nat /\ n \in Nat
      /\ p \in [1 .. k -> Seq(S)] /\ q \in [1 .. n -> Seq(S)] /\ r \in [1 .. k + n -> Seq(S)]
      /\ \A i \in 1 .. k : r[i] = p[i]
      /\ \A i \in 1 .. n : r[k + i] = q[i]
  BY DEF Splits
<1> USE <1>0
<1>1. PICK f \in [0 .. k -> Seq(S)] : Joins(f, k, p) /\ FlattenSeq(p) = f[k]
  BY FlattenJoins
<1>2. PICK g \in [0 .. n -> Seq(S)] : Joins(g, n, q) /\ FlattenSeq(q) = g[n]
  BY FlattenJoins
<1> DEFINE h == [i \in 0 .. k + n |-> IF i <= k THEN f[i] ELSE f[k] \o g[i - k]]
<1>10. ASSUME NEW i \in 0 .. k PROVE h[i] = f[i]
  <2>1. i \in 0 .. k + n /\ i <= k
    OBVIOUS
  <2> QED
    BY <2>1, Zenon
<1>11. ASSUME NEW i \in 1 .. n PROVE h[k + i] = f[k] \o g[i]
  <2>1. PICK m \in 0 .. k + n : m = k + i
    OBVIOUS
  <2>2. ~(m <= k) /\ m - k = i
    BY <2>1
  <2>3. h[m] = f[k] \o g[m - k]
    BY <2>2, Zenon
  <2> QED
    BY <2>1, <2>2, <2>3, Zenon
<1> HIDE DEF h
<1>12. h[k] = f[k] \o g[0]
  <2>1. h[k] = f[k] /\ g[0] = << >> /\ f[k] \in Seq(S)
    BY <1>2, <1>10 DEF Joins
  <2> QED
    BY <2>1, ConcatEmptySeq
<1>3. h[k + n] = f[k] \o g[n]
  <2>1. CASE n = 0
    <3>1. k + n = k /\ n = 0
      BY <2>1
    <3> QED
      BY <1>12, <3>1, Zenon
  <2>2. CASE n # 0
    <3>1. n \in 1 .. n
      BY <2>2
    <3> QED
      BY <1>11, <3>1, Zenon
  <2> QED
    BY <2>1, <2>2
<1>4. h[0] = << >>
  BY <1>1, <1>10 DEF Joins
<1>5. ASSUME NEW i \in 1 .. k + n PROVE h[i] = h[i - 1] \o r[i]
  <2>1. CASE i <= k
    <3>1. i \in 1 .. k /\ i \in 0 .. k /\ i - 1 \in 0 .. k
      BY <2>1
    <3>2. f[i] = f[i - 1] \o p[i] /\ h[i] = f[i] /\ h[i - 1] = f[i - 1] /\ r[i] = p[i]
      BY <1>1, <1>10, <3>1 DEF Joins
    <3> QED
      BY <3>2, Zenon
  <2>2. CASE ~(i <= k)
    <3>1. PICK j \in 1 .. n : i = k + j
      <4>1. i - k \in 1 .. n /\ i = k + (i - k)
        BY <2>2
      <4> QED
        BY <4>1
    <3>2. r[i] = q[j] /\ g[j] = g[j - 1] \o q[j] /\ h[i] = f[k] \o g[j]
      BY <1>2, <1>11, <3>1 DEF Joins
    <3>3. h[i - 1] = f[k] \o g[j - 1]
      <4>1. CASE j = 1
        <5>1. i - 1 = k /\ j - 1 = 0
          BY <3>1, <4>1
        <5> QED
          BY <1>12, <5>1, Zenon
      <4>2. CASE j # 1
        <5>1. i - 1 = k + (j - 1) /\ j - 1 \in 1 .. n
          BY <3>1, <4>2
        <5> QED
          BY <1>11, <5>1, Zenon
      <4> QED
        BY <4>1, <4>2
    <3>4. f[k] \in Seq(S) /\ g[j - 1] \in Seq(S) /\ q[j] \in Seq(S)
      BY <3>1
    <3>5. (f[k] \o g[j - 1]) \o q[j] = f[k] \o (g[j - 1] \o q[j])
      <4>1. Associates(S)
        BY Associativity, Zenon
      <4> QED
        BY <3>4, <4>1, Zenon DEF Associates
    <3> QED
      BY <3>2, <3>3, <3>5, Zenon
  <2> QED
    BY <2>1, <2>2
<1>6. Joins(h, k + n, r)
  BY <1>4, <1>5 DEF Joins
<1>7. FlattenSeq(r) = h[k + n]
  <2>1. k + n \in Nat
    OBVIOUS
  <2> QED
    BY <1>6, <2>1, JoinsFlatten, Zenon
<1> QED
  BY <1>1, <1>2, <1>3, <1>7

LEMMA FlattenSingles ==
    ASSUME NEW S, NEW text \in Seq(S), NEW seqs \in [1 .. Len(text) -> Seq(S)],
           \A i \in 1 .. Len(text) : seqs[i] = <<text[i]>>
    PROVE  FlattenSeq(seqs) = text
<1> DEFINE n == Len(text)
           f == [i \in 0 .. n |-> SubSeq(text, 1, i)]
<1>1. n \in Nat
  BY LenProperties
<1>10. ASSUME NEW i \in 0 .. n PROVE f[i] = SubSeq(text, 1, i)
  BY Zenon
<1> HIDE DEF f
<1>2. f[0] = << >>
  <2>1. SubSeq(text, 1, 0) = << >>
    BY SubSeqEmpty
  <2> QED
    BY <1>1, <1>10, <2>1
<1>3. ASSUME NEW i \in 1 .. n PROVE f[i] = f[i - 1] \o seqs[i]
  <2>1. SubSeq(text, 1, i) = SubSeq(text, 1, i - 1) \o <<text[i]>>
    BY <1>1, <1>3, SubSeqRecursiveSecond
  <2>2. i \in 0 .. n /\ i - 1 \in 0 .. n
    BY <1>1
  <2>3. f[i] = SubSeq(text, 1, i) /\ f[i - 1] = SubSeq(text, 1, i - 1) /\ seqs[i] = <<text[i]>>
    BY <1>10, <2>2
  <2> QED
    BY <2>1, <2>3, Zenon
<1>4. f[n] = text
  <2>1. SubSeq(text, 1, n) = text
    BY SubSeqFull
  <2> QED
    BY <1>1, <1>10, <2>1
<1>5. Joins(f, n, seqs)
  BY <1>2, <1>3 DEF Joins
<1> QED
  BY <1>1, <1>4, <1>5, JoinsFlatten

-----------------------------------------------------------------------------
(***************************************************************************)
(* The loader: texts and macros.                                           *)
(***************************************************************************)
\* strings.ReplaceAll and stripComments put tokens in from the value and the text only.
LEMMA ReplaceMacroStays ==
    ASSUME NEW S, NEW text \in Seq(S), NEW name, NEW value \in Seq(S)
    PROVE  ReplaceMacro(text, name, value) \in Seq(S)
<1> DEFINE parts == [i \in DOMAIN text |-> IF text[i] = Ref(name) THEN value ELSE <<text[i]>>]
<1>1. Len(text) \in Nat /\ DOMAIN text = 1 .. Len(text) /\ \A i \in 1 .. Len(text) : text[i] \in S
  BY LenProperties, ElementOfSeq
<1>2. parts \in [1 .. Len(text) -> Seq(S)]
  <2>1. \A x \in S : <<x>> \in Seq(S)
    OBVIOUS
  <2> QED
    BY <1>1, <2>1
<1> HIDE DEF parts
<1>3. FlattenSeq(parts) \in Seq(S)
  BY <1>1, <1>2, FlattenTokens
<1> QED
  BY <1>3 DEF ReplaceMacro, parts

LEMMA StripCommentsStays ==
    ASSUME NEW S, NEW text \in Seq(S) PROVE StripComments(text) \in Seq(S)
<1> DEFINE parts == [i \in DOMAIN text |-> IF text[i][1] = "comment" THEN << >> ELSE <<text[i]>>]
<1>1. Len(text) \in Nat /\ DOMAIN text = 1 .. Len(text) /\ \A i \in 1 .. Len(text) : text[i] \in S
  BY LenProperties, ElementOfSeq
<1>2. parts \in [1 .. Len(text) -> Seq(S)]
  <2>1. << >> \in Seq(S) /\ \A x \in S : <<x>> \in Seq(S)
    OBVIOUS
  <2> QED
    BY <1>1, <2>1
<1> HIDE DEF parts
<1>3. FlattenSeq(parts) \in Seq(S)
  BY <1>1, <1>2, FlattenTokens
<1> QED
  BY <1>3 DEF StripComments, parts

\* The smallest of some natural numbers is one of them.
LEMMA MinIsOne ==
    ASSUME NEW W \in SUBSET Nat, W # {} PROVE Min(W) \in W
<1>1. PICK k \in W : \A y \in W : ~(<<y, k>> \in OpToRel(<, Nat))
  BY NatLessThanWellFounded, WFMin
<1>2. ASSUME NEW y \in W PROVE k <= y
  <2>1. ~(y < k)
    BY <1>1 DEF OpToRel
  <2> QED
    BY <2>1
<1> QED
  BY <1>2 DEF Min

LEMMA OverrideMacroStays ==
    ASSUME NEW M, NEW list \in Seq(M), NEW entry \in M
    PROVE  OverrideMacro(list, entry) \in Seq(M)
<1> DEFINE same == {i \in DOMAIN list : list[i].name = entry.name}
<1>1. CASE same = {}
  <2>1. Append(list, entry) \in Seq(M)
    BY AppendProperties
  <2> QED
    BY <1>1, <2>1 DEF OverrideMacro
<1>2. CASE same # {}
  <2>1. same \subseteq 1 .. Len(list) /\ same \in SUBSET Nat
    BY LenProperties
  <2> HIDE DEF same
  <2>2. Min(same) \in 1 .. Len(list)
    BY <1>2, <2>1, MinIsOne
  <2>3. [list EXCEPT ![Min(same)] = entry] \in Seq(M)
    BY <2>2, ExceptSeq
  <2> QED
    BY <1>2, <2>3 DEF OverrideMacro, same
<1> QED
  BY <1>1, <1>2

\* Replacing a macro takes its references out and puts the value in.
LEMMA ReplaceMacroTokens ==
    ASSUME NEW S, NEW text \in Seq(S), NEW name, NEW value \in Seq(S)
    PROVE  /\ \A t \in Range(ReplaceMacro(text, name, value)) :
                 t \in Range(value) \/ (t \in Range(text) /\ t # Ref(name))
           /\ \A t \in Range(text) : t # Ref(name) => t \in Range(ReplaceMacro(text, name, value))
<1> DEFINE parts == [i \in DOMAIN text |-> IF text[i] = Ref(name) THEN value ELSE <<text[i]>>]
<1>1. Len(text) \in Nat /\ DOMAIN text = 1 .. Len(text) /\ \A i \in 1 .. Len(text) : text[i] \in S
  BY LenProperties, ElementOfSeq
<1>2. parts \in [1 .. Len(text) -> Seq(S)]
  <2>1. \A x \in S : <<x>> \in Seq(S)
    OBVIOUS
  <2> QED
    BY <1>1, <2>1
<1>3. \A i \in 1 .. Len(text) : parts[i] = IF text[i] = Ref(name) THEN value ELSE <<text[i]>>
  BY <1>1
<1>4. ReplaceMacro(text, name, value) = FlattenSeq(parts)
  BY DEF ReplaceMacro
<1> HIDE DEF parts
<1>5. \A t : t \in Range(FlattenSeq(parts)) <=> \E i \in 1 .. Len(text) : t \in Range(parts[i])
  BY <1>1, <1>2, FlattenTokens
<1>6. \A t, u : t \in Range(<<u>>) <=> t = u
  BY DEF Range
<1>7. \A t : t \in Range(text) <=> \E i \in 1 .. Len(text) : t = text[i]
  BY <1>1 DEF Range
<1>8. ASSUME NEW t \in Range(ReplaceMacro(text, name, value))
      PROVE  t \in Range(value) \/ (t \in Range(text) /\ t # Ref(name))
  <2>1. PICK i \in 1 .. Len(text) : t \in Range(parts[i])
    BY <1>4, <1>5
  <2>2. CASE text[i] = Ref(name)
    BY <1>3, <2>1, <2>2
  <2>3. CASE text[i] # Ref(name)
    <3>1. t = text[i]
      BY <1>3, <1>6, <2>1, <2>3
    <3> QED
      BY <1>7, <2>3, <3>1
  <2> QED
    BY <2>2, <2>3
<1>9. ASSUME NEW t \in Range(text), t # Ref(name) PROVE t \in Range(ReplaceMacro(text, name, value))
  <2>1. PICK i \in 1 .. Len(text) : t = text[i]
    BY <1>7
  <2>2. t \in Range(parts[i])
    BY <1>3, <1>6, <1>9, <2>1
  <2> QED
    BY <1>4, <1>5, <2>2
<1> QED
  BY <1>8, <1>9

\* The list after each of the model's macros.
Merges(f, doc, id) ==
    LET own == doc.models[id].macros
    IN  /\ f[0] = <<ModelID(id)>> \o doc.macros
        /\ \A i \in 1 .. Len(own) : f[i] = OverrideMacro(f[i - 1], own[i])

LEMMA MergeExists ==
    ASSUME NEW doc, NEW id, NEW M, doc.macros \in Seq(M), doc.models[id].macros \in Seq(M), ModelID(id) \in M
    PROVE  \E f \in [0 .. Len(doc.models[id].macros) -> Seq(M)] :
              Merges(f, doc, id) /\ mergedMacros(doc, id) = f[Len(doc.models[id].macros)]
<1> DEFINE own == doc.models[id].macros
           global == <<ModelID(id)>> \o doc.macros
           merge == CHOOSE f : f = [i \in 0 .. Len(own) |->
                        IF i = 0 THEN global ELSE OverrideMacro(f[i - 1], own[i])]
           step == [p \in (1 .. Len(own)) \X Seq(M) |-> OverrideMacro(p[2], own[p[1]])]
<1>1. mergedMacros(doc, id) = merge[Len(own)]
  BY DEF mergedMacros
<1>2. Len(own) \in Nat /\ \A i \in 1 .. Len(own) : own[i] \in M
  BY LenProperties, ElementOfSeq
<1>3. global \in Seq(M)
  <2>1. <<ModelID(id)>> \in Seq(M)
    OBVIOUS
  <2> QED
    BY <2>1, ConcatProperties
<1>4. step \in [(1 .. Len(own)) \X Seq(M) -> Seq(M)]
  BY <1>2, OverrideMacroStays
<1> HIDE DEF own, global
<1>5. \E f : f = [i \in 0 .. Len(own) |-> IF i = 0 THEN global ELSE OverrideMacro(f[i - 1], own[i])]
  <2>1. PICK f \in [0 .. Len(own) -> Seq(M)] : Iterates(f, Len(own), global, step)
    <3> HIDE DEF step
    <3> QED
      BY <1>2, <1>3, <1>4, IteratesExists
  <2>2. ASSUME NEW i \in 0 .. Len(own)
        PROVE  f[i] = IF i = 0 THEN global ELSE OverrideMacro(f[i - 1], own[i])
    <3>1. f[i] = IF i = 0 THEN global ELSE step[<<i, f[i - 1]>>]
      BY <2>1, Zenon DEF Iterates
    <3>2. i # 0 => i - 1 \in 0 .. Len(own) /\ i \in 1 .. Len(own)
      BY <1>2
    <3>3. i # 0 => step[<<i, f[i - 1]>>] = OverrideMacro(f[i - 1], own[i])
      BY <3>2
    <3> HIDE DEF step
    <3> QED
      BY <3>1, <3>3
  <2>3. f = [i \in 0 .. Len(own) |-> IF i = 0 THEN global ELSE OverrideMacro(f[i - 1], own[i])]
    BY <2>2
  <2> QED
    BY <2>3
<1>6. merge = [i \in 0 .. Len(own) |-> IF i = 0 THEN global ELSE OverrideMacro(merge[i - 1], own[i])]
  BY <1>5, Zenon
<1> HIDE DEF merge, step
<1>7. ASSUME NEW i \in 0 .. Len(own)
      PROVE  merge[i] = IF i = 0 THEN global ELSE OverrideMacro(merge[i - 1], own[i])
  BY <1>6, Zenon
<1>8. merge[0] = global
  BY <1>2, <1>7
<1>9. ASSUME NEW i \in 1 .. Len(own) PROVE merge[i] = OverrideMacro(merge[i - 1], own[i])
  <2>1. i \in 0 .. Len(own) /\ i # 0
    BY <1>2
  <2> QED
    BY <1>7, <2>1, Zenon
<1>10. \A i \in 0 .. Len(own) : merge[i] \in Seq(M)
  <2>1. ASSUME NEW i \in 1 .. Len(own), merge[i - 1] \in Seq(M) PROVE merge[i] \in Seq(M)
    BY <1>2, <1>9, <2>1, OverrideMacroStays
  <2> QED
    BY <1>2, <1>3, <1>8, <2>1, StepsKeep
<1>11. merge \in [0 .. Len(own) -> Seq(M)]
  <2>1. merge = [i \in 0 .. Len(own) |-> merge[i]]
    BY <1>6, Zenon
  <2> QED
    BY <1>10, <2>1
<1>12. Merges(merge, doc, id)
  BY <1>8, <1>9, Zenon DEF Merges, own, global
<1> QED
  BY <1>1, <1>11, <1>12, Zenon DEF own

LEMMA MergedMacrosStays ==
    ASSUME NEW doc, NEW id, NEW M, doc.macros \in Seq(M), doc.models[id].macros \in Seq(M), ModelID(id) \in M
    PROVE  mergedMacros(doc, id) \in Seq(M)
<1>1. PICK f \in [0 .. Len(doc.models[id].macros) -> Seq(M)] :
          mergedMacros(doc, id) = f[Len(doc.models[id].macros)]
  BY MergeExists
<1>2. Len(doc.models[id].macros) \in Nat
  BY LenProperties
<1> QED
  BY <1>1, <1>2

\* The text after each macro of the one pass.
Passes(f, text, macros) ==
    /\ f[0] = text
    /\ \A i \in 1 .. Len(macros) :
          f[i] = ReplaceMacro(f[i - 1], macros[Len(macros) + 1 - i].name, macros[Len(macros) + 1 - i].value)

LEMMA PassExists ==
    ASSUME NEW S, NEW text \in Seq(S), NEW M, NEW macros \in Seq(M), \A e \in M : e.value \in Seq(S)
    PROVE  \E f \in [0 .. Len(macros) -> Seq(S)] :
              Passes(f, text, macros) /\ SubstituteMacros(text, macros) = f[Len(macros)]
<1> DEFINE last(i) == macros[Len(macros) + 1 - i]
           pass == CHOOSE f : f = [i \in 0 .. Len(macros) |->
                       IF i = 0 THEN text ELSE ReplaceMacro(f[i - 1], last(i).name, last(i).value)]
           step == [p \in (1 .. Len(macros)) \X Seq(S) |->
                       ReplaceMacro(p[2], last(p[1]).name, last(p[1]).value)]
<1>1. SubstituteMacros(text, macros) = pass[Len(macros)]
  BY DEF SubstituteMacros
<1>2. Len(macros) \in Nat /\ \A i \in 1 .. Len(macros) : last(i).value \in Seq(S)
  BY LenProperties, ElementOfSeq
<1>3. step \in [(1 .. Len(macros)) \X Seq(S) -> Seq(S)]
  <2> HIDE DEF last
  <2> QED
    BY <1>2, ReplaceMacroStays
<1> HIDE DEF last
<1>4. \E f : f = [i \in 0 .. Len(macros) |->
                    IF i = 0 THEN text ELSE ReplaceMacro(f[i - 1], last(i).name, last(i).value)]
  <2>1. PICK f \in [0 .. Len(macros) -> Seq(S)] : Iterates(f, Len(macros), text, step)
    <3> HIDE DEF step
    <3> QED
      BY <1>2, <1>3, IteratesExists
  <2>2. ASSUME NEW i \in 0 .. Len(macros)
        PROVE  f[i] = IF i = 0 THEN text ELSE ReplaceMacro(f[i - 1], last(i).name, last(i).value)
    <3>1. f[i] = IF i = 0 THEN text ELSE step[<<i, f[i - 1]>>]
      BY <2>1, Zenon DEF Iterates
    <3>2. i # 0 => i - 1 \in 0 .. Len(macros) /\ i \in 1 .. Len(macros)
      BY <1>2
    <3>3. i # 0 => step[<<i, f[i - 1]>>] = ReplaceMacro(f[i - 1], last(i).name, last(i).value)
      BY <3>2
    <3> HIDE DEF step
    <3> QED
      BY <3>1, <3>3
  <2>3. f = [i \in 0 .. Len(macros) |->
               IF i = 0 THEN text ELSE ReplaceMacro(f[i - 1], last(i).name, last(i).value)]
    BY <2>2
  <2> QED
    BY <2>3
<1>5. pass = [i \in 0 .. Len(macros) |->
                IF i = 0 THEN text ELSE ReplaceMacro(pass[i - 1], last(i).name, last(i).value)]
  BY <1>4, Zenon
<1> HIDE DEF pass, step
<1>6. ASSUME NEW i \in 0 .. Len(macros)
      PROVE  pass[i] = IF i = 0 THEN text ELSE ReplaceMacro(pass[i - 1], last(i).name, last(i).value)
  BY <1>5, Zenon
<1>7. pass[0] = text
  BY <1>2, <1>6
<1>8. ASSUME NEW i \in 1 .. Len(macros)
      PROVE  pass[i] = ReplaceMacro(pass[i - 1], last(i).name, last(i).value)
  <2>1. i \in 0 .. Len(macros) /\ i # 0
    BY <1>2
  <2> QED
    BY <1>6, <2>1, Zenon
<1>9. \A i \in 0 .. Len(macros) : pass[i] \in Seq(S)
  <2>1. ASSUME NEW i \in 1 .. Len(macros), pass[i - 1] \in Seq(S) PROVE pass[i] \in Seq(S)
    BY <1>2, <1>8, <2>1, ReplaceMacroStays
  <2> QED
    BY <1>2, <1>7, <2>1, StepsKeep
<1>10. pass \in [0 .. Len(macros) -> Seq(S)]
  <2>1. pass = [i \in 0 .. Len(macros) |-> pass[i]]
    BY <1>5, Zenon
  <2> QED
    BY <1>9, <2>1
<1>11. Passes(pass, text, macros)
  BY <1>7, <1>8, Zenon DEF Passes, last
<1> QED
  BY <1>1, <1>10, <1>11, Zenon

LEMMA SubstituteMacrosStays ==
    ASSUME NEW S, NEW text \in Seq(S), NEW M, NEW macros \in Seq(M), \A e \in M : e.value \in Seq(S)
    PROVE  SubstituteMacros(text, macros) \in Seq(S)
<1>1. PICK f \in [0 .. Len(macros) -> Seq(S)] : SubstituteMacros(text, macros) = f[Len(macros)]
  BY PassExists
<1>2. Len(macros) \in Nat
  BY LenProperties
<1> QED
  BY <1>1, <1>2

\* The tokens of a model's texts and macros, and its macros.
Tokens(doc, id) == (UNION {Range(text) : text \in TextsOf(doc, id)}) \cup {Lit(id)}
MacrosOf(doc, id) == Range(doc.macros) \cup Range(doc.models[id].macros) \cup {ModelID(id)}

LEMMA DocumentTexts ==
    ASSUME NEW doc, IsDocument(doc), NEW id \in DOMAIN doc.models
    PROVE  /\ \A t \in Tokens(doc, id) : t[1] # "port"
           /\ doc.macros \in Seq(MacrosOf(doc, id)) /\ doc.models[id].macros \in Seq(MacrosOf(doc, id))
           /\ ModelID(id) \in MacrosOf(doc, id)
           /\ mergedMacros(doc, id) \in Seq(MacrosOf(doc, id))
           /\ \A e \in MacrosOf(doc, id) : e.value \in Seq(Tokens(doc, id))
           /\ \A f \in Fields : Uncommented(doc, id, f) \in Seq(Tokens(doc, id))
<1> DEFINE own == doc.models[id].macros
           M == MacrosOf(doc, id)
           S == Tokens(doc, id)
<1>1. \A text \in TextsOf(doc, id) : text \in Seq(Range(text)) /\ \A i \in DOMAIN text : text[i][1] # "port"
  BY DEF IsDocument, IsSequence
<1>2. \A t \in S : t[1] # "port"
  <2>1. Lit(id)[1] # "port"
    BY DEF Lit
  <2>2. \A text \in TextsOf(doc, id) : \A t \in Range(text) : t[1] # "port"
    BY <1>1 DEF Range
  <2>3. \A t \in UNION {Range(text) : text \in TextsOf(doc, id)} : t[1] # "port"
    BY <2>2, Zenon
  <2> QED
    BY <2>1, <2>3, Zenon DEF Tokens
<1>3. \A text \in TextsOf(doc, id) : text \in Seq(S)
  <2> SUFFICES ASSUME NEW text \in TextsOf(doc, id) PROVE text \in Seq(S)
    OBVIOUS
  <2>1. text \in Seq(Range(text)) /\ Range(text) \subseteq S
    BY <1>1 DEF Tokens
  <2> HIDE DEF S
  <2> QED
    BY <2>1, SeqMonotonic
<1>4. doc.macros \in Seq(M) /\ own \in Seq(M) /\ ModelID(id) \in M
  <2>1. doc.macros \in Seq(Range(doc.macros)) /\ own \in Seq(Range(own))
    BY DEF IsDocument, IsSequence
  <2>2. Range(doc.macros) \subseteq M /\ Range(own) \subseteq M /\ ModelID(id) \in M
    BY DEF MacrosOf
  <2> HIDE DEF M
  <2> QED
    BY <2>1, <2>2, SeqMonotonic
<1>5. \A e \in M : e.value \in Seq(S)
  <2>1. \A e \in Range(doc.macros) \cup Range(own) : e.value \in TextsOf(doc, id)
    BY DEF TextsOf
  <2>2. ModelID(id).value \in Seq(S)
    <3>1. ModelID(id).value = <<Lit(id)>>
      BY DEF ModelID
    <3>2. Lit(id) \in S
      BY Zenon DEF Tokens
    <3> HIDE DEF S
    <3> QED
      BY <3>1, <3>2
  <2> HIDE DEF S
  <2> QED
    BY <1>3, <2>1, <2>2 DEF MacrosOf
<1>6. ASSUME NEW f \in Fields PROVE Uncommented(doc, id, f) \in Seq(S)
  <2>1. doc.models[id].fields[f] \in TextsOf(doc, id)
    BY DEF IsDocument, TextsOf, Range
  <2>2. doc.models[id].fields[f] \in Seq(S)
    BY <1>3, <2>1
  <2> HIDE DEF S
  <2> QED
    BY <2>2, StripCommentsStays DEF Uncommented
<1>7. mergedMacros(doc, id) \in Seq(M)
  <2> HIDE DEF M
  <2> QED
    BY <1>4, MergedMacrosStays
<1> HIDE DEF S, M
<1> QED
  BY <1>2, <1>4, <1>5, <1>6, <1>7 DEF S, M

LEMMA SubstitutedStays ==
    ASSUME NEW doc, IsDocument(doc), NEW id \in DOMAIN doc.models, NEW f \in Fields
    PROVE  /\ Substituted(doc, id)[f] = SubstituteMacros(Uncommented(doc, id, f), mergedMacros(doc, id))
           /\ Substituted(doc, id)[f] \in Seq(Tokens(doc, id))
<1>1. Substituted(doc, id)[f] = SubstituteMacros(Uncommented(doc, id, f), mergedMacros(doc, id))
  BY DEF Substituted
<1> QED
  BY <1>1, DocumentTexts, SubstituteMacrosStays

-----------------------------------------------------------------------------
(***************************************************************************)
(* The loader: ports and groups.                                           *)
(***************************************************************************)
\* A loaded model holds the next port, or none.
LEMMA OnePort ==
    ASSUME NEW doc, IsDocument(doc), NEW id \in DOMAIN doc.models
    PROVE  PortsOf(LoadModel(doc, id)) \subseteq (IF UsesPort(doc, id) THEN {NextPort(doc, id)} ELSE {})
<1> DEFINE fields == Substituted(doc, id)
           port == PortLit(NextPort(doc, id))
           S == Tokens(doc, id)
<1>1. /\ \A t \in S : t[1] # "port"
      /\ \A f \in Fields : fields[f] \in Seq(S)
  BY DocumentTexts, SubstitutedStays
<1> HIDE DEF S
<1>2. ASSUME NEW f \in Fields, NEW t \in Range(LoadModel(doc, id)[f]), t[1] = "port"
      PROVE  UsesPort(doc, id) /\ t = port
  <2>1. CASE ~UsesPort(doc, id)
    <3>1. LoadModel(doc, id)[f] = fields[f]
      BY <2>1 DEF LoadModel
    <3>2. t \in S
      BY <1>1, <1>2, <3>1, RangeOfSeq
    <3> QED
      BY <1>1, <1>2, <3>2
  <2>2. CASE UsesPort(doc, id)
    <3> DEFINE T == S \cup {port}
    <3>1. fields[f] \in Seq(S) /\ S \subseteq T /\ port \in T
      BY <1>1
    <3> HIDE DEF T, port
    <3>2. fields[f] \in Seq(T) /\ <<port>> \in Seq(T)
      BY <3>1, SeqMonotonic
    <3>3. LoadModel(doc, id)[f] \in {fields[f], ReplaceMacro(fields[f], "PORT", <<port>>)}
      BY <2>2 DEF LoadModel, port
    <3>4. LoadModel(doc, id)[f] \in Seq(T)
      BY <3>2, <3>3, ReplaceMacroStays
    <3>5. t \in T
      BY <1>2, <3>4, RangeOfSeq
    <3> QED
      BY <1>1, <1>2, <2>2, <3>5 DEF T
  <2> QED
    BY <2>1, <2>2
<1>3. ASSUME NEW p \in PortsOf(LoadModel(doc, id)) PROVE UsesPort(doc, id) /\ p = NextPort(doc, id)
  <2>1. PICK t \in UNION {Range(LoadModel(doc, id)[f]) : f \in Fields} : t[1] = "port" /\ p = t[2]
    BY DEF PortsOf
  <2>2. UsesPort(doc, id) /\ t = port
    <3> HIDE DEF port
    <3> QED
      BY <1>2, <2>1
  <2> QED
    BY <2>1, <2>2 DEF PortLit
<1> QED
  BY <1>3

\* Where a model stands in the order of the IDs.
Position(id) == CHOOSE i \in DOMAIN ModelOrder : ModelOrder[i] = id

LEMMA PositionIs ==
    ASSUME NEW id \in Range(ModelOrder)
    PROVE  /\ Len(ModelOrder) \in Nat
           /\ Position(id) \in 1 .. Len(ModelOrder) /\ ModelOrder[Position(id)] = id
<1>1. \E i \in DOMAIN ModelOrder : ModelOrder[i] = id
  BY DEF Range
<1>2. Len(ModelOrder) \in Nat /\ DOMAIN ModelOrder = 1 .. Len(ModelOrder)
  BY OrderAssumption, LenProperties DEF IsSequence
<1> QED
  BY <1>1, <1>2 DEF Position

\* The port after a model that uses one is another.
LEMMA LaterPort ==
    ASSUME NEW doc, IsDocument(doc), NEW id \in DOMAIN doc.models, NEW jd \in DOMAIN doc.models,
           UsesPort(doc, id), Position(id) < Position(jd)
    PROVE  NextPort(doc, id) # NextPort(doc, jd)
<1> DEFINE before(x) == {j \in 1 .. Len(ModelOrder) : /\ j < Position(x)
                                                      /\ ModelOrder[j] \in DOMAIN doc.models
                                                      /\ UsesPort(doc, ModelOrder[j])}
<1>1. NextPort(doc, id) = doc.startPort + Cardinality(before(id))
  BY DEF NextPort, Position
<1>2. NextPort(doc, jd) = doc.startPort + Cardinality(before(jd))
  BY DEF NextPort, Position
<1>3. id \in Range(ModelOrder) /\ jd \in Range(ModelOrder) /\ doc.startPort \in Int
  BY DEF IsDocument
<1>4. /\ Len(ModelOrder) \in Nat
      /\ Position(id) \in 1 .. Len(ModelOrder) /\ ModelOrder[Position(id)] = id
      /\ Position(jd) \in 1 .. Len(ModelOrder)
  BY <1>3, PositionIs
<1>5. /\ before(id) \subseteq before(jd)
      /\ Position(id) \in before(jd) /\ Position(id) \notin before(id)
      /\ before(id) \subseteq 1 .. Len(ModelOrder) /\ before(jd) \subseteq 1 .. Len(ModelOrder)
  BY <1>4
<1> HIDE DEF before
<1>6. IsFiniteSet(before(id)) /\ IsFiniteSet(before(jd))
  <2>1. IsFiniteSet(1 .. Len(ModelOrder))
    BY <1>4, FS_Interval
  <2> QED
    BY <1>5, <2>1, FS_Subset
<1>7. /\ Cardinality(before(id)) \in Nat /\ Cardinality(before(jd)) \in Nat
      /\ Cardinality(before(id)) # Cardinality(before(jd))
  BY <1>5, <1>6, FS_Subset, FS_CardinalityType
<1> QED
  BY <1>1, <1>2, <1>3, <1>7

\* No two models have the same port.
LEMMA PortsDiffer ==
    ASSUME NEW doc, IsDocument(doc), NEW id \in DOMAIN doc.models, NEW jd \in DOMAIN doc.models, id # jd
    PROVE  PortsOf(LoadModel(doc, id)) \cap PortsOf(LoadModel(doc, jd)) = {}
<1>1. id \in Range(ModelOrder) /\ jd \in Range(ModelOrder)
  BY DEF IsDocument
<1>2. /\ Len(ModelOrder) \in Nat
      /\ Position(id) \in 1 .. Len(ModelOrder) /\ Position(jd) \in 1 .. Len(ModelOrder)
      /\ Position(id) # Position(jd)
  BY <1>1, PositionIs
<1>3. UsesPort(doc, id) /\ UsesPort(doc, jd) => NextPort(doc, id) # NextPort(doc, jd)
  <2>1. Position(id) < Position(jd) \/ Position(jd) < Position(id)
    BY <1>2
  <2> QED
    BY <2>1, LaterPort
<1> QED
  BY <1>3, OnePort

\* A model outside of the document's "(default)" group is in one group.
LEMMA OneGroup ==
    ASSUME NEW doc, IsDocument(doc), Loads(doc), NEW id \in DOMAIN doc.models,
           DefaultGroup \in DOMAIN doc.groups => id \notin Range(doc.groups[DefaultGroup])
    PROVE  Cardinality({g \in DOMAIN AddDefaultGroupToConfig(doc) :
                            id \in Range(AddDefaultGroupToConfig(doc)[g])}) = 1
<1> DEFINE groups == AddDefaultGroupToConfig(doc)
           grouped == UNION {Range(doc.groups[g]) : g \in DOMAIN doc.groups}
           parts == [i \in DOMAIN ModelOrder |->
                        IF ModelOrder[i] \in DOMAIN doc.models \ grouped THEN <<ModelOrder[i]>> ELSE << >>]
<1>1. /\ DOMAIN groups = DOMAIN doc.groups \cup {DefaultGroup}
      /\ groups[DefaultGroup] = FlattenSeq(parts)
      /\ \A g \in DOMAIN doc.groups : g # DefaultGroup => groups[g] = doc.groups[g]
  BY DEF AddDefaultGroupToConfig
<1>2. \A g, h \in DOMAIN groups : g # h => Range(groups[g]) \cap Range(groups[h]) = {}
  BY DEF Loads, groupsLoad
<1>3. \E g \in DOMAIN groups : id \in Range(groups[g])
  <2>1. CASE id \in grouped
    <3>1. PICK g \in DOMAIN doc.groups : id \in Range(doc.groups[g])
      BY <2>1
    <3>2. g # DefaultGroup
      BY <3>1
    <3> HIDE DEF groups
    <3> QED
      BY <1>1, <3>1, <3>2
  <2>2. CASE id \notin grouped
    <3>1. id \in Range(ModelOrder)
      BY DEF IsDocument
    <3>2. /\ Len(ModelOrder) \in Nat /\ Position(id) \in 1 .. Len(ModelOrder)
          /\ ModelOrder[Position(id)] = id
      BY <3>1, PositionIs
    <3>3. DOMAIN ModelOrder = 1 .. Len(ModelOrder) /\ \A i \in 1 .. Len(ModelOrder) : ModelOrder[i] \in Range(ModelOrder)
      BY OrderAssumption, LenProperties, ElementOfSeq DEF IsSequence
    <3>4. parts \in [1 .. Len(ModelOrder) -> Seq(Range(ModelOrder))] /\ parts[Position(id)] = <<id>>
      <4>1. << >> \in Seq(Range(ModelOrder)) /\ \A x \in Range(ModelOrder) : <<x>> \in Seq(Range(ModelOrder))
        OBVIOUS
      <4> HIDE DEF grouped
      <4> QED
        BY <2>2, <3>2, <3>3, <4>1
    <3>5. id \in Range(<<id>>)
      BY DEF Range
    <3> HIDE DEF parts
    <3>6. id \in Range(FlattenSeq(parts))
      BY <3>2, <3>4, <3>5, FlattenTokens
    <3> HIDE DEF groups
    <3> QED
      BY <1>1, <3>6
  <2> QED
    BY <2>1, <2>2
<1> HIDE DEF groups
<1>4. PICK g \in DOMAIN groups : id \in Range(groups[g])
  BY <1>3
<1>5. {h \in DOMAIN groups : id \in Range(groups[h])} = {g}
  BY <1>2, <1>4
<1> QED
  BY <1>5, FS_Singleton DEF groups

\* Whatever document loads: a model it does not list under "(default)" has one group,
\* and a model one port at most and none of another model (AddDefaultGroupToConfig,
\* validateGroups, nextPort).
THEOREM LoadedIsReachable ==
    ASSUME NEW doc, IsDocument(doc), Loads(doc) PROVE Reachable(doc)
<1> SUFFICES ASSUME NEW id \in DOMAIN doc.models
             PROVE  /\ (DefaultGroup \in DOMAIN doc.groups => id \notin Range(doc.groups[DefaultGroup]))
                          => Cardinality({g \in DOMAIN AddDefaultGroupToConfig(doc) :
                                              id \in Range(AddDefaultGroupToConfig(doc)[g])}) = 1
                    /\ Cardinality(PortsOf(LoadModel(doc, id))) <= 1
                    /\ \A jd \in DOMAIN doc.models :
                          id # jd => PortsOf(LoadModel(doc, id)) \cap PortsOf(LoadModel(doc, jd)) = {}
  <2> DEFINE loaded == Loaded(doc)
  <2>1. /\ DOMAIN loaded.models = DOMAIN doc.models
        /\ \A id \in DOMAIN doc.models : loaded.models[id] = LoadModel(doc, id)
        /\ loaded.groups = AddDefaultGroupToConfig(doc)
    BY DEF Loaded
  <2> HIDE DEF loaded
  <2> QED
    BY <2>1 DEF Reachable, loaded
<1>1. Cardinality(PortsOf(LoadModel(doc, id))) <= 1
  <2>1. PortsOf(LoadModel(doc, id)) \subseteq {NextPort(doc, id)}
    BY OnePort
  <2>2. PortsOf(LoadModel(doc, id)) = {} \/ PortsOf(LoadModel(doc, id)) = {NextPort(doc, id)}
    BY <2>1, Zenon
  <2> QED
    BY <2>2, FS_Singleton, FS_EmptySet
<1> QED
  BY <1>1, OneGroup, PortsDiffer
-----------------------------------------------------------------------------
(***************************************************************************)
(* The loader: what macros mean.                                           *)
(***************************************************************************)
\* Macros whose values are texts, no two of one name.
TextMacros(macros, S) ==
    /\ \A macro \in macros : macro.value \in Seq(S)
    /\ \A a, b \in macros : a.name = b.name => a = b

\* A text that refers to no macro any more.
Final(macros, text) == \A macro \in macros : Ref(macro.name) \notin Range(text)

\* What stands for a token after one expansion.
Part(macros, t) ==
    IF \E macro \in macros : t = Ref(macro.name)
    THEN (CHOOSE macro \in macros : t = Ref(macro.name)).value ELSE <<t>>

LEMMA PartIs ==
    ASSUME NEW S, NEW macros, TextMacros(macros, S)
    PROVE  /\ \A t \in S : Part(macros, t) \in Seq(S)
           /\ \A macro \in macros : Part(macros, Ref(macro.name)) = macro.value
           /\ \A t : (\A macro \in macros : t # Ref(macro.name)) => Part(macros, t) = <<t>>
<1>1. \A t \in S : <<t>> \in Seq(S)
  OBVIOUS
<1>2. \A a, b \in macros : Ref(a.name) = Ref(b.name) => a = b
  BY DEF TextMacros, Ref
<1>3. ASSUME NEW macro \in macros PROVE Part(macros, Ref(macro.name)) = macro.value
  BY <1>2, Zenon DEF Part
<1>4. ASSUME NEW t \in S PROVE Part(macros, t) \in Seq(S)
  <2>1. CASE \E macro \in macros : t = Ref(macro.name)
    BY <1>3, <2>1 DEF TextMacros
  <2>2. CASE ~ \E macro \in macros : t = Ref(macro.name)
    BY <1>1, <2>2 DEF Part
  <2> QED
    BY <2>1, <2>2
<1> QED
  BY <1>3, <1>4, Zenon DEF Part

\* The texts an expansion puts together.
Parts(macros, text) == [i \in DOMAIN text |-> Part(macros, text[i])]

LEMMA PartsAre ==
    ASSUME NEW S, NEW macros, TextMacros(macros, S), NEW text \in Seq(S)
    PROVE  /\ Len(text) \in Nat /\ DOMAIN text = 1 .. Len(text)
           /\ \A i \in 1 .. Len(text) : text[i] \in S
           /\ Parts(macros, text) \in [1 .. Len(text) -> Seq(S)]
           /\ \A i \in 1 .. Len(text) : Parts(macros, text)[i] = Part(macros, text[i])
           /\ Expanded(macros, text) = FlattenSeq(Parts(macros, text))
<1>1. Len(text) \in Nat /\ DOMAIN text = 1 .. Len(text) /\ \A i \in 1 .. Len(text) : text[i] \in S
  BY LenProperties, ElementOfSeq
<1>2. \A i \in 1 .. Len(text) : Part(macros, text[i]) \in Seq(S)
  BY <1>1, PartIs
<1>3. Expanded(macros, text) = FlattenSeq(Parts(macros, text))
  BY Zenon DEF Expanded, Parts, Part
<1> QED
  BY <1>1, <1>2, <1>3 DEF Parts

LEMMA ExpandedIs ==
    ASSUME NEW S, NEW macros, TextMacros(macros, S)
    PROVE  /\ \A text \in Seq(S) : Expanded(macros, text) \in Seq(S)
           /\ \A text \in Seq(S) : Final(macros, text) => Expanded(macros, text) = text
           /\ \A a, b \in Seq(S) : Expanded(macros, a \o b) = Expanded(macros, a) \o Expanded(macros, b)
<1>1. ASSUME NEW text \in Seq(S) PROVE Expanded(macros, text) \in Seq(S)
  BY PartsAre, FlattenTokens
<1>2. ASSUME NEW text \in Seq(S), Final(macros, text) PROVE Expanded(macros, text) = text
  <2>1. /\ Parts(macros, text) \in [1 .. Len(text) -> Seq(S)]
        /\ Expanded(macros, text) = FlattenSeq(Parts(macros, text))
        /\ DOMAIN text = 1 .. Len(text)
    BY PartsAre
  <2>2. ASSUME NEW i \in 1 .. Len(text) PROVE Parts(macros, text)[i] = <<text[i]>>
    <3>1. text[i] \in Range(text)
      BY <2>1 DEF Range
    <3>2. \A macro \in macros : text[i] # Ref(macro.name)
      BY <1>2, <3>1 DEF Final
    <3> QED
      BY <3>2, PartIs, PartsAre
  <2> QED
    BY <2>1, <2>2, FlattenSingles
<1>3. ASSUME NEW a \in Seq(S), NEW b \in Seq(S)
      PROVE  Expanded(macros, a \o b) = Expanded(macros, a) \o Expanded(macros, b)
  <2> DEFINE k == Len(a)
             n == Len(b)
             c == a \o b
             r == Parts(macros, c)
  <2>1. c \in Seq(S) /\ Len(c) = k + n /\ \A i \in 1 .. k + n : c[i] = IF i <= k THEN a[i] ELSE b[i - k]
    BY ConcatProperties
  <2>2. /\ k \in Nat /\ n \in Nat
        /\ Parts(macros, a) \in [1 .. k -> Seq(S)] /\ Parts(macros, b) \in [1 .. n -> Seq(S)]
        /\ \A i \in 1 .. k : Parts(macros, a)[i] = Part(macros, a[i])
        /\ \A i \in 1 .. n : Parts(macros, b)[i] = Part(macros, b[i])
    BY PartsAre
  <2> HIDE DEF c
  <2>3. r \in [1 .. k + n -> Seq(S)] /\ \A i \in 1 .. k + n : r[i] = Part(macros, c[i])
    BY <2>1, PartsAre
  <2> HIDE DEF k, n, r
  <2>4. ASSUME NEW i \in 1 .. k PROVE r[i] = Parts(macros, a)[i]
    <3>1. i \in 1 .. k + n /\ i <= k
      BY <2>2
    <3>2. c[i] = a[i]
      BY <2>1, <3>1
    <3> QED
      BY <2>2, <2>3, <3>1, <3>2
  <2>5. ASSUME NEW i \in 1 .. n PROVE r[k + i] = Parts(macros, b)[i]
    <3>1. PICK m \in 1 .. k + n : m = k + i
      BY <2>2
    <3>2. ~(m <= k) /\ m - k = i
      BY <2>2, <3>1
    <3>3. c[m] = b[i]
      BY <2>1, <3>2
    <3>4. r[m] = Part(macros, b[i])
      BY <2>3, <3>3
    <3> QED
      BY <2>2, <3>1, <3>4
  <2>6. FlattenSeq(r) = FlattenSeq(Parts(macros, a)) \o FlattenSeq(Parts(macros, b))
    <3>1. (\A i \in 1 .. k : r[i] = Parts(macros, a)[i]) /\ (\A i \in 1 .. n : r[k + i] = Parts(macros, b)[i])
      BY <2>4, <2>5
    <3>2. Splits(S, k, n, Parts(macros, a), Parts(macros, b), r)
      BY <2>2, <2>3, <3>1, Zenon DEF Splits
    <3> QED
      BY <3>2, FlattenConcat
  <2>7. Expanded(macros, c) = FlattenSeq(r)
    BY <2>1, PartsAre DEF r
  <2>8. /\ Expanded(macros, a) = FlattenSeq(Parts(macros, a))
        /\ Expanded(macros, b) = FlattenSeq(Parts(macros, b))
    BY PartsAre
  <2> QED
    BY <2>6, <2>7, <2>8, Zenon DEF c
<1> QED
  BY <1>1, <1>2, <1>3

\* The text after each of n expansions.
Deeper(f, n, macros, text) ==
    f = [k \in 0 .. n |-> IF k = 0 THEN text ELSE Expanded(macros, f[k - 1])]

Deep(n, macros, text) == CHOOSE f : Deeper(f, n, macros, text)

LEMMA DeepIs ==
    ASSUME NEW S, NEW macros, TextMacros(macros, S), NEW n \in Nat, NEW text \in Seq(S)
    PROVE  /\ \A k \in 0 .. n : Deep(n, macros, text)[k] \in Seq(S)
           /\ Deep(n, macros, text)[0] = text
           /\ \A k \in 1 .. n : Deep(n, macros, text)[k] = Expanded(macros, Deep(n, macros, text)[k - 1])
<1> DEFINE step == [p \in (1 .. n) \X Seq(S) |-> Expanded(macros, p[2])]
           f == Deep(n, macros, text)
<1>1. step \in [(1 .. n) \X Seq(S) -> Seq(S)]
  BY ExpandedIs
<1>2. \E g : Deeper(g, n, macros, text)
  <2>1. PICK g \in [0 .. n -> Seq(S)] : Iterates(g, n, text, step)
    <3> HIDE DEF step
    <3> QED
      BY <1>1, IteratesExists
  <2>2. ASSUME NEW k \in 0 .. n PROVE g[k] = IF k = 0 THEN text ELSE Expanded(macros, g[k - 1])
    <3>1. g[k] = IF k = 0 THEN text ELSE step[<<k, g[k - 1]>>]
      BY <2>1, Zenon DEF Iterates
    <3>2. k # 0 => k - 1 \in 0 .. n /\ k \in 1 .. n
      OBVIOUS
    <3>3. k # 0 => step[<<k, g[k - 1]>>] = Expanded(macros, g[k - 1])
      BY <3>2
    <3> HIDE DEF step
    <3> QED
      BY <3>1, <3>3
  <2>3. Deeper(g, n, macros, text)
    BY <2>2 DEF Deeper
  <2> QED
    BY <2>3
<1>3. Deeper(f, n, macros, text)
  BY <1>2, Zenon DEF Deep
<1> HIDE DEF f, step
<1>4. ASSUME NEW k \in 0 .. n PROVE f[k] = IF k = 0 THEN text ELSE Expanded(macros, f[k - 1])
  BY <1>3, Zenon DEF Deeper
<1>5. f[0] = text /\ \A k \in 1 .. n : f[k] = Expanded(macros, f[k - 1])
  <2>1. f[0] = text
    BY <1>4
  <2>2. ASSUME NEW k \in 1 .. n PROVE f[k] = Expanded(macros, f[k - 1])
    <3>1. k \in 0 .. n /\ k # 0
      OBVIOUS
    <3> QED
      BY <1>4, <3>1, Zenon
  <2> QED
    BY <2>1, <2>2
<1>6. \A k \in 0 .. n : f[k] \in Seq(S)
  <2>1. f[0] \in Seq(S)
    BY <1>5
  <2>2. ASSUME NEW k \in 1 .. n, f[k - 1] \in Seq(S) PROVE f[k] \in Seq(S)
    <3>1. f[k] = Expanded(macros, f[k - 1])
      BY <1>5
    <3>2. Expanded(macros, f[k - 1]) \in Seq(S)
      BY <2>2, ExpandedIs
    <3> QED
      BY <3>1, <3>2
  <2> QED
    BY <2>1, <2>2, StepsKeep
<1> QED
  BY <1>5, <1>6 DEF f

\* Expansions of a text are those of its pieces.
DeepJoins(n, macros, a, b) ==
    \A k \in 0 .. n : Deep(n, macros, a \o b)[k] = Deep(n, macros, a)[k] \o Deep(n, macros, b)[k]

LEMMA DeepConcat ==
    ASSUME NEW S, NEW macros, TextMacros(macros, S), NEW n \in Nat, NEW a \in Seq(S), NEW b \in Seq(S)
    PROVE  DeepJoins(n, macros, a, b)
<1> DEFINE c == a \o b
           x == Deep(n, macros, a)
           y == Deep(n, macros, b)
           z == Deep(n, macros, c)
           P == {k \in 0 .. n : z[k] = x[k] \o y[k]}
<1>1. c \in Seq(S)
  BY ConcatProperties
<1> HIDE DEF c
<1>2. /\ x[0] = a /\ y[0] = b /\ z[0] = c
      /\ \A k \in 0 .. n : x[k] \in Seq(S) /\ y[k] \in Seq(S)
      /\ \A k \in 1 .. n : /\ x[k] = Expanded(macros, x[k - 1])
                           /\ y[k] = Expanded(macros, y[k - 1])
                           /\ z[k] = Expanded(macros, z[k - 1])
  BY <1>1, DeepIs
<1> HIDE DEF x, y, z
<1>3. 0 \in P
  <2>1. z[0] = x[0] \o y[0]
    BY <1>2, Zenon DEF c
  <2>2. 0 \in 0 .. n
    OBVIOUS
  <2> QED
    BY <2>1, <2>2, Zenon
<1>4. ASSUME NEW k \in 1 .. n, k - 1 \in P PROVE k \in P
  <2>1. z[k - 1] = x[k - 1] \o y[k - 1] /\ x[k - 1] \in Seq(S) /\ y[k - 1] \in Seq(S)
    BY <1>2, <1>4
  <2>2. \A s, t \in Seq(S) : Expanded(macros, s \o t) = Expanded(macros, s) \o Expanded(macros, t)
    BY ExpandedIs
  <2>3. Expanded(macros, z[k - 1]) = Expanded(macros, x[k - 1]) \o Expanded(macros, y[k - 1])
    BY <2>1, <2>2, Zenon
  <2>4. z[k] = x[k] \o y[k]
    BY <1>2, <2>3, Zenon
  <2>5. k \in 0 .. n
    OBVIOUS
  <2> QED
    BY <2>4, <2>5, Zenon
<1>5. \A k \in 0 .. n : k \in P
  <2> HIDE DEF P
  <2>1. 0 .. n \subseteq P
    BY <1>3, <1>4, UpTo
  <2> QED
    BY <2>1
<1> QED
  BY <1>5, Zenon DEF DeepJoins, c, x, y, z

\* A final text stays, and an expansion may as well come first.
LEMMA DeepFinal ==
    ASSUME NEW S, NEW macros, TextMacros(macros, S), NEW n \in Nat, NEW text \in Seq(S),
           Final(macros, text)
    PROVE  \A k \in 0 .. n : Deep(n, macros, text)[k] = text
<1> DEFINE f == Deep(n, macros, text)
           P == {k \in 0 .. n : f[k] = text}
<1>1. f[0] = text /\ \A k \in 1 .. n : f[k] = Expanded(macros, f[k - 1])
  BY DeepIs
<1>2. Expanded(macros, text) = text
  BY ExpandedIs
<1> HIDE DEF f
<1>3. 0 \in P /\ \A k \in 1 .. n : k - 1 \in P => k \in P
  BY <1>1, <1>2
<1>4. \A k \in 0 .. n : k \in P
  <2> HIDE DEF P
  <2>1. 0 .. n \subseteq P
    BY <1>3, UpTo
  <2> QED
    BY <2>1
<1> QED
  BY <1>4 DEF f

LEMMA DeepShift ==
    ASSUME NEW S, NEW macros, TextMacros(macros, S), NEW n \in Nat, NEW text \in Seq(S)
    PROVE  \A k \in 1 .. n : Deep(n, macros, text)[k] = Deep(n, macros, Expanded(macros, text))[k - 1]
<1> DEFINE f == Deep(n, macros, text)
           g == Deep(n, macros, Expanded(macros, text))
           P == {k \in 0 .. n : k = 0 \/ f[k] = g[k - 1]}
<1>1. /\ f[0] = text /\ g[0] = Expanded(macros, text)
      /\ \A k \in 1 .. n : f[k] = Expanded(macros, f[k - 1]) /\ g[k] = Expanded(macros, g[k - 1])
  <2>1. Expanded(macros, text) \in Seq(S)
    BY ExpandedIs
  <2> QED
    BY <2>1, DeepIs
<1> HIDE DEF f, g
<1>2. ASSUME NEW k \in 1 .. n, k - 1 \in P PROVE k \in P
  <2>1. CASE k = 1
    BY <1>1, <2>1
  <2>2. CASE k # 1
    <3>1. k - 1 \in 1 .. n /\ f[k - 1] = g[k - 1 - 1]
      BY <1>2, <2>2
    <3>2. f[k] = Expanded(macros, f[k - 1]) /\ g[k - 1] = Expanded(macros, g[k - 1 - 1])
      BY <1>1, <3>1
    <3>3. f[k] = g[k - 1]
      BY <3>1, <3>2, Zenon
    <3> QED
      BY <3>3
  <2> QED
    BY <2>1, <2>2
<1>3. \A k \in 0 .. n : k \in P
  <2>1. 0 \in P
    OBVIOUS
  <2> HIDE DEF P
  <2>2. 0 .. n \subseteq P
    BY <1>2, <2>1, UpTo
  <2> QED
    BY <2>2
<1> QED
  BY <1>3 DEF f, g

\* Expansions of a flattened list are those of its members.
Deepens(S, macros, n, k, m, parts, deep) ==
    /\ TextMacros(macros, S) /\ n \in Nat /\ k \in 0 .. n /\ m \in Nat
    /\ parts \in [1 .. m -> Seq(S)] /\ deep \in [1 .. m -> Seq(S)]
    /\ \A i \in 1 .. m : deep[i] = Deep(n, macros, parts[i])[k]

LEMMA DeepFlatten ==
    ASSUME NEW S, NEW macros, NEW n, NEW k, NEW m, NEW parts, NEW deep,
           Deepens(S, macros, n, k, m, parts, deep)
    PROVE  Deep(n, macros, FlattenSeq(parts))[k] = FlattenSeq(deep)
<1>0. /\ TextMacros(macros, S) /\ n \in Nat /\ k \in 0 .. n /\ m \in Nat
      /\ parts \in [1 .. m -> Seq(S)] /\ deep \in [1 .. m -> Seq(S)]
      /\ \A i \in 1 .. m : deep[i] = Deep(n, macros, parts[i])[k]
  BY DEF Deepens
<1> USE <1>0
<1>1. PICK f \in [0 .. m -> Seq(S)] : Joins(f, m, parts) /\ FlattenSeq(parts) = f[m]
  BY FlattenJoins
<1> DEFINE g == [i \in 0 .. m |-> Deep(n, macros, f[i])[k]]
<1>2. ASSUME NEW i \in 0 .. m PROVE g[i] = Deep(n, macros, f[i])[k]
  BY Zenon
<1> HIDE DEF g
<1>3. g[0] = << >>
  <2> DEFINE empty == << >>
  <2>1. empty \in Seq(S) /\ Final(macros, empty)
    BY DEF Final, Range
  <2>3. f[0] = empty /\ 0 \in 0 .. m
    BY <1>1 DEF Joins
  <2> HIDE DEF empty
  <2>2. Deep(n, macros, empty)[k] = empty
    BY <2>1, DeepFinal
  <2> QED
    BY <1>2, <2>2, <2>3, Zenon DEF empty
<1>4. ASSUME NEW i \in 1 .. m PROVE g[i] = g[i - 1] \o deep[i]
  <2>1. i \in 0 .. m /\ i - 1 \in 0 .. m
    OBVIOUS
  <2>2. f[i] = f[i - 1] \o parts[i] /\ f[i - 1] \in Seq(S) /\ parts[i] \in Seq(S)
    BY <1>1, <2>1 DEF Joins
  <2>3. Deep(n, macros, f[i - 1] \o parts[i])[k]
            = Deep(n, macros, f[i - 1])[k] \o Deep(n, macros, parts[i])[k]
    <3>1. DeepJoins(n, macros, f[i - 1], parts[i])
      BY <2>2, DeepConcat
    <3> QED
      BY <3>1, Zenon DEF DeepJoins
  <2> QED
    BY <1>2, <2>1, <2>2, <2>3, Zenon
<1>5. Joins(g, m, deep)
  BY <1>3, <1>4 DEF Joins
<1>6. FlattenSeq(deep) = g[m]
  BY <1>5, JoinsFlatten
<1>7. m \in 0 .. m
  OBVIOUS
<1> QED
  BY <1>1, <1>2, <1>6, <1>7, Zenon

\* A text whose macro has been replaced needs one expansion less.
LEMMA ReplaceFirst ==
    ASSUME NEW S, NEW macros, TextMacros(macros, S), NEW n \in Nat, NEW k \in 1 .. n,
           NEW text \in Seq(S), NEW macro \in macros,
           Final(macros, Deep(n, macros, ReplaceMacro(text, macro.name, macro.value))[k - 1])
    PROVE  Deep(n, macros, text)[k] = Deep(n, macros, ReplaceMacro(text, macro.name, macro.value))[k - 1]
<1> DEFINE m == Len(text)
           replaced == [i \in DOMAIN text |-> IF text[i] = Ref(macro.name) THEN macro.value ELSE <<text[i]>>]
           parts == Parts(macros, text)
           deepReplaced == [i \in 1 .. m |-> Deep(n, macros, replaced[i])[k - 1]]
           deepParts == [i \in 1 .. m |-> Deep(n, macros, parts[i])[k - 1]]
<1>1. /\ m \in Nat /\ DOMAIN text = 1 .. m /\ \A i \in 1 .. m : text[i] \in S
      /\ parts \in [1 .. m -> Seq(S)] /\ \A i \in 1 .. m : parts[i] = Part(macros, text[i])
      /\ Expanded(macros, text) = FlattenSeq(parts)
  BY PartsAre
<1>2. ReplaceMacro(text, macro.name, macro.value) = FlattenSeq(replaced)
  BY DEF ReplaceMacro
<1>3. macro.value \in Seq(S) /\ \A t \in S : <<t>> \in Seq(S)
  BY DEF TextMacros
<1>4. \A i \in 1 .. m : replaced[i] = IF text[i] = Ref(macro.name) THEN macro.value ELSE <<text[i]>>
  BY <1>1
<1>5. replaced \in [1 .. m -> Seq(S)]
  BY <1>1, <1>3
<1>6. k - 1 \in 0 .. n /\ k \in 0 .. n
  OBVIOUS
<1> HIDE DEF m, replaced, parts
<1>7. /\ deepReplaced \in [1 .. m -> Seq(S)] /\ deepParts \in [1 .. m -> Seq(S)]
      /\ \A i \in 1 .. m : deepReplaced[i] = Deep(n, macros, replaced[i])[k - 1]
      /\ \A i \in 1 .. m : deepParts[i] = Deep(n, macros, parts[i])[k - 1]
      /\ DOMAIN deepReplaced = 1 .. m /\ DOMAIN deepParts = 1 .. m
  BY <1>1, <1>5, <1>6, DeepIs
<1>8. deepReplaced = [i \in 1 .. m |-> deepReplaced[i]] /\ deepParts = [i \in 1 .. m |-> deepParts[i]]
  OBVIOUS
<1> HIDE DEF deepReplaced, deepParts
<1>9. Deep(n, macros, FlattenSeq(replaced))[k - 1] = FlattenSeq(deepReplaced)
  <2>1. Deepens(S, macros, n, k - 1, m, replaced, deepReplaced)
    BY <1>1, <1>5, <1>6, <1>7, Zenon DEF Deepens
  <2> QED
    BY <2>1, DeepFlatten
<1>10. Deep(n, macros, FlattenSeq(parts))[k - 1] = FlattenSeq(deepParts)
  <2>1. Deepens(S, macros, n, k - 1, m, parts, deepParts)
    BY <1>1, <1>6, <1>7, Zenon DEF Deepens
  <2> QED
    BY <2>1, DeepFlatten
<1>11. ASSUME NEW i \in 1 .. m PROVE deepReplaced[i] = deepParts[i]
  <2>1. CASE text[i] = Ref(macro.name)
    <3>1. parts[i] = macro.value
      <4>1. Part(macros, Ref(macro.name)) = macro.value
        BY PartIs
      <4>2. parts[i] = Part(macros, text[i])
        BY <1>1
      <4> QED
        BY <2>1, <4>1, <4>2, Zenon
    <3>2. replaced[i] = macro.value
      BY <1>4, <2>1
    <3> QED
      BY <1>7, <3>1, <3>2
  <2>2. CASE text[i] # Ref(macro.name)
    <3> DEFINE single == <<text[i]>>
    <3>1. replaced[i] = single /\ single \in Seq(S)
      BY <1>1, <1>3, <1>4, <2>2
    <3>2. Expanded(macros, single) = parts[i]
      <4>1. Len(single) = 1 /\ single[1] = text[i]
        OBVIOUS
      <4> HIDE DEF single
      <4>2. /\ Parts(macros, single) \in [1 .. 1 -> Seq(S)]
            /\ Parts(macros, single)[1] = Part(macros, text[i])
            /\ Expanded(macros, single) = FlattenSeq(Parts(macros, single))
        <5>1. /\ Parts(macros, single) \in [1 .. Len(single) -> Seq(S)]
              /\ \A j \in 1 .. Len(single) : Parts(macros, single)[j] = Part(macros, single[j])
              /\ Expanded(macros, single) = FlattenSeq(Parts(macros, single))
          BY <3>1, PartsAre
        <5>2. 1 \in 1 .. 1
          OBVIOUS
        <5> QED
          BY <4>1, <5>1, <5>2, Zenon
      <4>3. FlattenSeq(Parts(macros, single)) = Parts(macros, single)[1]
        <5> DEFINE p == Parts(macros, single)
        <5>1. PICK f \in [0 .. 1 -> Seq(S)] : Joins(f, 1, p) /\ FlattenSeq(p) = f[1]
          BY <4>2, FlattenJoins
        <5>2. f[0] = << >> /\ f[1] = f[1 - 1] \o p[1] /\ p[1] \in Seq(S)
          BY <4>2, <5>1 DEF Joins
        <5>3. f[1] = << >> \o p[1]
          <6>1. 1 - 1 = 0
            OBVIOUS
          <6> QED
            BY <5>2, <6>1, Zenon
        <5> HIDE DEF p
        <5>4. f[1] = p[1]
          BY <5>2, <5>3, ConcatEmptySeq
        <5> QED
          BY <5>1, <5>4 DEF p
      <4> QED
        BY <1>1, <4>2, <4>3
    <3> HIDE DEF single
    <3>3. Deep(n, macros, single)[k] = Deep(n, macros, parts[i])[k - 1]
      BY <3>1, <3>2, DeepShift
    <3>4. Final(macros, Deep(n, macros, single)[k - 1])
      <4>1. Range(deepReplaced[i]) \subseteq Range(FlattenSeq(deepReplaced))
        BY <1>1, <1>7, FlattenTokens
      <4>2. Final(macros, FlattenSeq(deepReplaced))
        BY <1>2, <1>9
      <4>3. deepReplaced[i] = Deep(n, macros, single)[k - 1]
        BY <1>7, <3>1
      <4> QED
        BY <4>1, <4>2, <4>3 DEF Final
    <3>5. Deep(n, macros, single)[k] = Deep(n, macros, single)[k - 1]
      <4>1. /\ Deep(n, macros, single)[k - 1] \in Seq(S)
            /\ Deep(n, macros, single)[k] = Expanded(macros, Deep(n, macros, single)[k - 1])
        BY <1>6, <3>1, DeepIs
      <4> QED
        BY <3>4, <4>1, ExpandedIs
    <3> QED
      BY <1>7, <3>1, <3>3, <3>5
  <2> QED
    BY <2>1, <2>2
<1>12. deepReplaced = deepParts
  BY <1>8, <1>11
<1>13. Deep(n, macros, text)[k] = Deep(n, macros, FlattenSeq(parts))[k - 1]
  BY <1>1, DeepShift
<1> QED
  BY <1>2, <1>9, <1>10, <1>12, <1>13

\* One pass is as good as all expansions, when it leaves no reference to a macro.
LEMMA OnePassIsFull ==
    ASSUME NEW S, NEW text \in Seq(S), NEW M, NEW macros \in Seq(M), IsInjective(macros),
           \A e \in M : e.value \in Seq(S), TextMacros(Range(macros), S),
           Final(Range(macros), SubstituteMacros(text, macros))
    PROVE  SubstituteMacros(text, macros) = FullExpansion(Range(macros), text)
<1> DEFINE n == Len(macros)
           every == Range(macros)
<1>1. n \in Nat /\ DOMAIN macros = 1 .. n
  BY LenProperties
<1>2. Cardinality(every) = n
  <2>1. macros \in Bijection(1 .. n, every)
    BY <1>1 DEF Bijection, Injection, Surjection, Range, IsInjective
  <2>2. IsFiniteSet(1 .. n) /\ Cardinality(1 .. n) = n
    <3>1. n \in Int /\ 1 \in Int /\ (IF 1 > n THEN 0 ELSE n - 1 + 1) = n
      <4> HIDE DEF n
      <4> QED
        BY <1>1
    <3> HIDE DEF n
    <3>2. /\ IsFiniteSet(1 .. n)
          /\ Cardinality(1 .. n) = IF 1 > n THEN 0 ELSE n - 1 + 1
      BY <3>1, FS_Interval
    <3> QED
      BY <3>1, <3>2
  <2>3. ExistsBijection(1 .. n, every)
    BY <2>1 DEF ExistsBijection
  <2> HIDE DEF n, every
  <2> QED
    BY <2>2, <2>3, FS_Bijection
<1>3. FullExpansion(every, text) = Deep(n, every, text)[n]
  BY <1>2, Zenon DEF FullExpansion, Deep, Deeper
<1>4. PICK f \in [0 .. n -> Seq(S)] : Passes(f, text, macros) /\ SubstituteMacros(text, macros) = f[n]
  BY PassExists
<1> HIDE DEF n, every
<1>5. TextMacros(every, S) /\ Final(every, f[n])
  BY <1>4 DEF every
<1> DEFINE P == {j \in 0 .. n : Deep(n, every, f[n - j])[j] = f[n]}
<1>6. 0 \in P
  <2>1. n - 0 = n /\ f[n] \in Seq(S) /\ 0 \in 0 .. n
    BY <1>1
  <2>2. Deep(n, every, f[n])[0] = f[n]
    BY <1>1, <1>5, <2>1, DeepIs
  <2> QED
    BY <2>1, <2>2
<1>7. ASSUME NEW j \in 1 .. n, j - 1 \in P PROVE j \in P
  <2>1. PICK i \in 1 .. n : /\ i = n - (j - 1) /\ n + 1 - i = j /\ i - 1 = n - j
                            /\ i - 1 \in 0 .. n /\ j \in 0 .. n
    <3>1. n - (j - 1) \in 1 .. n
      BY <1>1
    <3> QED
      BY <1>1, <3>1
  <2> DEFINE macro == macros[j]
  <2>2. f[i] = ReplaceMacro(f[i - 1], macro.name, macro.value)
    <3>1. f[i] = ReplaceMacro(f[i - 1], macros[n + 1 - i].name, macros[n + 1 - i].value)
      BY <1>4, Zenon DEF Passes, n
    <3> QED
      BY <2>1, <3>1, Zenon
  <2>3. macro \in every
    BY <1>1 DEF every, Range
  <2> HIDE DEF macro
  <2>4. Deep(n, every, f[i])[j - 1] = f[n]
    BY <1>7, <2>1
  <2>5. f[i - 1] \in Seq(S)
    BY <2>1
  <2>6. Final(every, Deep(n, every, ReplaceMacro(f[i - 1], macro.name, macro.value))[j - 1])
    BY <1>5, <2>2, <2>4, Zenon
  <2>7. Deep(n, every, f[i - 1])[j] = Deep(n, every, ReplaceMacro(f[i - 1], macro.name, macro.value))[j - 1]
    BY <1>1, <1>5, <2>3, <2>5, <2>6, ReplaceFirst
  <2>8. Deep(n, every, f[n - j])[j] = f[n]
    BY <2>1, <2>2, <2>4, <2>7, Zenon
  <2> QED
    BY <2>1, <2>8
<1>8. n \in P
  <2> HIDE DEF P
  <2>1. 0 .. n \subseteq P
    BY <1>1, <1>6, <1>7, UpTo
  <2> QED
    BY <1>1, <2>1
<1>9. Deep(n, every, text)[n] = f[n]
  <2>1. n - n = 0 /\ f[0] = text
    BY <1>1, <1>4 DEF Passes
  <2>2. Deep(n, every, f[n - n])[n] = f[n]
    BY <1>8
  <2> QED
    BY <2>1, <2>2, Zenon
<1> QED
  BY <1>3, <1>4, <1>9 DEF every

\* No two macros of a list have one name.
NamesDiffer(list) == \A i, j \in DOMAIN list : list[i].name = list[j].name => i = j

LEMMA OverrideMacroIs ==
    ASSUME NEW M, NEW list \in Seq(M), NamesDiffer(list), NEW entry \in M
    PROVE  /\ NamesDiffer(OverrideMacro(list, entry))
           /\ Range(OverrideMacro(list, entry)) = {e \in Range(list) : e.name # entry.name} \cup {entry}
<1> DEFINE same == {i \in DOMAIN list : list[i].name = entry.name}
           n == Len(list)
<1>1. n \in Nat /\ DOMAIN list = 1 .. n
  BY LenProperties
<1>2. CASE same = {}
  <2> DEFINE new == Append(list, entry)
  <2>1. OverrideMacro(list, entry) = new
    BY <1>2 DEF OverrideMacro
  <2>2. /\ new \in Seq(M) /\ Len(new) = n + 1 /\ new[n + 1] = entry
        /\ \A i \in 1 .. n : new[i] = list[i]
    BY AppendProperties
  <2>3. DOMAIN new = 1 .. n + 1
    BY <2>2, LenProperties
  <2>4. \A i \in 1 .. n : list[i].name # entry.name
    BY <1>1, <1>2
  <2>5. \A i \in 1 .. n + 1 : i \in 1 .. n \/ i = n + 1
    BY <1>1
  <2> HIDE DEF new, n
  <2>6. NamesDiffer(new)
    BY <1>1, <2>2, <2>3, <2>4, <2>5 DEF NamesDiffer
  <2>7. Range(new) = {e \in Range(list) : e.name # entry.name} \cup {entry}
    <3>1. n + 1 \in 1 .. n + 1 /\ 1 .. n \subseteq 1 .. n + 1
      BY <1>1
    <3> QED
      BY <1>1, <2>2, <2>3, <2>4, <2>5, <3>1 DEF Range
  <2> QED
    BY <2>1, <2>6, <2>7
<1>3. CASE same # {}
  <2> DEFINE p == Min(same)
             new == [list EXCEPT ![p] = entry]
  <2>1. OverrideMacro(list, entry) = new
    BY <1>3 DEF OverrideMacro
  <2>2. p \in 1 .. n /\ list[p].name = entry.name
    <3>1. same \in SUBSET Nat
      BY <1>1
    <3>2. Min(same) \in same
      BY <1>3, <3>1, MinIsOne
    <3> QED
      BY <1>1, <3>2
  <2> HIDE DEF p
  <2>3. DOMAIN new = 1 .. n /\ \A i \in 1 .. n : new[i] = IF i = p THEN entry ELSE list[i]
    BY <1>1, <2>2
  <2>4. \A i \in 1 .. n : list[i].name = entry.name => i = p
    BY <1>1, <2>2 DEF NamesDiffer
  <2> HIDE DEF new, n
  <2>5. NamesDiffer(new)
    BY <1>1, <2>2, <2>3, <2>4 DEF NamesDiffer
  <2>6. Range(new) = {e \in Range(list) : e.name # entry.name} \cup {entry}
    <3>1. ASSUME NEW e \in Range(new) PROVE e = entry \/ (e \in Range(list) /\ e.name # entry.name)
      BY <1>1, <2>3, <2>4 DEF Range
    <3>2. entry \in Range(new)
      BY <2>2, <2>3 DEF Range
    <3>3. ASSUME NEW e \in Range(list), e.name # entry.name PROVE e \in Range(new)
      <4>1. PICK i \in 1 .. n : e = list[i]
        BY <1>1 DEF Range
      <4>2. new[i] = e
        BY <2>2, <2>3, <3>3, <4>1
      <4> QED
        BY <2>3, <4>2 DEF Range
    <3> QED
      BY <3>1, <3>2, <3>3
  <2> QED
    BY <2>1, <2>5, <2>6
<1> QED
  BY <1>2, <1>3

\* The merged list holds the macros in force, none twice.
LEMMA MergedIsInForce ==
    ASSUME NEW doc, NEW id, MacrosAreSound(doc, id), NEW M,
           doc.macros \in Seq(M), doc.models[id].macros \in Seq(M), ModelID(id) \in M
    PROVE  /\ NamesDiffer(mergedMacros(doc, id))
           /\ Range(mergedMacros(doc, id)) = InForce(doc, id)
<1> DEFINE own == doc.models[id].macros
           n == Len(own)
           global == Range(doc.macros)
           taken(i) == {own[j] : j \in 1 .. i}
           Holds(f, i) == /\ NamesDiffer(f[i])
                          /\ Range(f[i]) = {ModelID(id)} \cup taken(i)
                                              \cup {e \in global : e.name \notin Names(taken(i))}
<1>1. n \in Nat /\ DOMAIN own = 1 .. n /\ \A i \in 1 .. n : own[i] \in M
  BY LenProperties, ElementOfSeq
<1>2. /\ NamesDiffer(doc.macros) /\ NamesDiffer(own)
      /\ \A i \in DOMAIN doc.macros : doc.macros[i].name # "MODEL_ID"
      /\ \A i \in DOMAIN own : own[i].name # "MODEL_ID"
  BY DEF MacrosAreSound, NamesDiffer, validateMacro
<1>3. PICK f \in [0 .. n -> Seq(M)] : Merges(f, doc, id) /\ mergedMacros(doc, id) = f[n]
  BY MergeExists
<1>4. f[0] = <<ModelID(id)>> \o doc.macros /\ \A i \in 1 .. n : f[i] = OverrideMacro(f[i - 1], own[i])
  BY <1>3 DEF Merges
<1>5. ModelID(id).name = "MODEL_ID"
  BY DEF ModelID
<1> DEFINE P == {i \in 0 .. n : Holds(f, i)}
<1>6. 0 \in P
  <2> DEFINE k == Len(doc.macros)
             list == <<ModelID(id)>> \o doc.macros
             head == <<ModelID(id)>>
  <2>1. k \in Nat /\ DOMAIN doc.macros = 1 .. k
    BY LenProperties
  <2>2. head \in Seq(M) /\ Len(head) = 1 /\ head[1] = ModelID(id)
    OBVIOUS
  <2>3. Range(head) = {ModelID(id)}
    BY DEF Range
  <2> HIDE DEF head
  <2>4. /\ list \in Seq(M) /\ Len(list) = 1 + k
        /\ \A i \in 1 .. 1 + k : list[i] = IF i <= 1 THEN head[i] ELSE doc.macros[i - 1]
    BY <2>2, ConcatProperties DEF head
  <2>5. DOMAIN list = 1 .. 1 + k
    BY <2>4, LenProperties
  <2>6. Range(list) = {ModelID(id)} \cup global
    <3>1. Range(head \o doc.macros) = Range(head) \cup Range(doc.macros)
      BY <2>2, RangeConcatenation
    <3> QED
      BY <2>3, <3>1, Zenon DEF head
  <2> HIDE DEF list, k
  <2>7. /\ list[1] = ModelID(id)
        /\ \A i \in 1 .. 1 + k : i # 1 => i - 1 \in 1 .. k /\ list[i] = doc.macros[i - 1]
    BY <2>1, <2>2, <2>4
  <2>8. NamesDiffer(list)
    <3> SUFFICES ASSUME NEW i \in 1 .. 1 + k, NEW j \in 1 .. 1 + k, list[i].name = list[j].name
                 PROVE  i = j
      BY <2>5 DEF NamesDiffer
    <3>1. CASE i = 1 \/ j = 1
      <4>1. \A l \in 1 .. 1 + k : l # 1 => list[l].name # "MODEL_ID"
        BY <1>2, <2>1, <2>7
      <4> QED
        BY <1>5, <2>7, <3>1, <4>1
    <3>2. CASE i # 1 /\ j # 1
      <4>1. i - 1 \in 1 .. k /\ j - 1 \in 1 .. k /\ doc.macros[i - 1].name = doc.macros[j - 1].name
        BY <2>7, <3>2
      <4>2. i - 1 = j - 1
        BY <1>2, <2>1, <4>1 DEF NamesDiffer
      <4> QED
        BY <4>2
    <3> QED
      BY <3>1, <3>2
  <2>9. taken(0) = {} /\ Names({}) = {}
    BY DEF Names
  <2>10. Holds(f, 0)
    <3>1. f[0] = list
      BY <1>4, Zenon DEF list
    <3>2. {e \in global : e.name \notin Names(taken(0))} = global
      BY <2>9
    <3> QED
      BY <2>6, <2>8, <2>9, <3>1, <3>2
  <2>11. 0 \in 0 .. n
    BY <1>1
  <2> HIDE DEF Holds
  <2> QED
    BY <2>10, <2>11
<1>7. ASSUME NEW i \in 1 .. n, i - 1 \in P PROVE i \in P
  <2>1. i - 1 \in 0 .. n /\ i \in 0 .. n /\ f[i - 1] \in Seq(M) /\ own[i] \in M
    <3>1. i - 1 \in 0 .. n /\ i \in 0 .. n /\ own[i] \in M
      BY <1>1
    <3> HIDE DEF n, own, P
    <3> QED
      BY <3>1
  <2>2. Holds(f, i - 1)
    BY <1>7
  <2>3. /\ NamesDiffer(f[i])
        /\ Range(f[i]) = {e \in Range(f[i - 1]) : e.name # own[i].name} \cup {own[i]}
    <3>1. f[i] = OverrideMacro(f[i - 1], own[i])
      BY <1>4
    <3>2. NamesDiffer(f[i - 1])
      BY <2>2
    <3> DEFINE list == f[i - 1]
               entry == own[i]
    <3>3. list \in Seq(M) /\ entry \in M /\ NamesDiffer(list)
      BY <2>1, <3>2
    <3> HIDE DEF list, entry
    <3>4. /\ NamesDiffer(OverrideMacro(list, entry))
          /\ Range(OverrideMacro(list, entry)) = {e \in Range(list) : e.name # entry.name} \cup {entry}
      BY <3>3, OverrideMacroIs
    <3> QED
      BY <3>1, <3>4 DEF list, entry
  <2>4. taken(i) = taken(i - 1) \cup {own[i]}
    <3>1. 1 .. i = (1 .. i - 1) \cup {i}
      OBVIOUS
    <3> QED
      BY <3>1
  <2>5. \A e \in taken(i - 1) : e.name # own[i].name
    <3> SUFFICES ASSUME NEW j \in 1 .. i - 1 PROVE own[j].name # own[i].name
      OBVIOUS
    <3>1. j \in 1 .. n /\ j # i
      OBVIOUS
    <3> QED
      BY <1>1, <1>2, <3>1 DEF NamesDiffer
  <2>6. ModelID(id).name # own[i].name
    BY <1>1, <1>2, <1>5
  <2>7. Names(taken(i)) = Names(taken(i - 1)) \cup {own[i].name}
    <3> HIDE DEF taken, own
    <3> QED
      BY <2>4 DEF Names
  <2>8. Holds(f, i)
    <3> HIDE DEF taken, own, global
    <3> QED
      BY <2>2, <2>3, <2>4, <2>5, <2>6, <2>7
  <2> QED
    BY <2>1, <2>8
<1>8. Holds(f, n)
  <2> HIDE DEF P
  <2>1. 0 .. n \subseteq P
    BY <1>1, <1>6, <1>7, UpTo
  <2>2. n \in P
    BY <1>1, <2>1
  <2> QED
    BY <2>2 DEF P
<1>9. taken(n) = Range(own)
  BY <1>1 DEF Range
<1> QED
  BY <1>3, <1>8, <1>9 DEF InForce

LEMMA RefersTo ==
    ASSUME NEW text, NEW name, Ref(name) \in Range(text) PROVE name \in References(text)
<1>1. PICK i \in DOMAIN text : text[i] = Ref(name)
  BY DEF Range
<1>2. text[i][1] = "ref" /\ text[i][2] = name
  BY <1>1 DEF Ref
<1>3. i \in {j \in DOMAIN text : text[j][1] \in {"ref", "comment"}}
  BY <1>2
<1> QED
  BY <1>2, <1>3, Zenon DEF References

\* The pass leaves no reference to a macro when the macros are defined before they
\* are used: a value that is put in refers to macros whose turn is still to come.
LEMMA InOrderIsFinal ==
    ASSUME NEW S, NEW text \in Seq(S), NEW M, NEW macros \in Seq(M), \A e \in M : e.value \in Seq(S),
           \A i, j \in DOMAIN macros : j >= i => macros[j].name \notin References(macros[i].value)
    PROVE  Final(Range(macros), SubstituteMacros(text, macros))
<1> DEFINE n == Len(macros)
<1>1. n \in Nat /\ DOMAIN macros = 1 .. n /\ \A i \in 1 .. n : macros[i] \in M
  BY LenProperties, ElementOfSeq
<1>2. PICK f \in [0 .. n -> Seq(S)] : Passes(f, text, macros) /\ SubstituteMacros(text, macros) = f[n]
  BY PassExists
<1>3. ASSUME NEW i \in 1 .. n, NEW j \in 1 .. n, j >= i
      PROVE  Ref(macros[j].name) \notin Range(macros[i].value)
  BY <1>1, <1>3, RefersTo
<1>4. ASSUME NEW i \in 1 .. n
      PROVE  f[i] = ReplaceMacro(f[i - 1], macros[n + 1 - i].name, macros[n + 1 - i].value)
  BY <1>2, Zenon DEF Passes
<1> HIDE DEF n
<1> DEFINE P == {i \in 0 .. n : \A p \in 1 .. n : p > n - i => Ref(macros[p].name) \notin Range(f[i])}
<1>5. 0 \in P
  BY <1>1
<1>6. ASSUME NEW i \in 1 .. n, i - 1 \in P PROVE i \in P
  <2>1. PICK q \in 1 .. n : q = n + 1 - i
    BY <1>1
  <2>2. f[i] = ReplaceMacro(f[i - 1], macros[q].name, macros[q].value)
    BY <1>4, <2>1
  <2>3. f[i - 1] \in Seq(S) /\ macros[q].value \in Seq(S)
    BY <1>1
  <2>4. \A t \in Range(f[i]) :
            t \in Range(macros[q].value) \/ (t \in Range(f[i - 1]) /\ t # Ref(macros[q].name))
    BY <2>2, <2>3, ReplaceMacroTokens
  <2>5. ASSUME NEW p \in 1 .. n, p > n - i PROVE Ref(macros[p].name) \notin Range(f[i])
    <3>1. Ref(macros[p].name) \notin Range(macros[q].value)
      BY <1>1, <1>3, <2>1, <2>5
    <3>2. p = q \/ Ref(macros[p].name) \notin Range(f[i - 1])
      BY <1>1, <1>6, <2>1, <2>5
    <3> QED
      BY <2>4, <3>1, <3>2
  <2>6. i \in 0 .. n
    BY <1>1
  <2> QED
    BY <2>5, <2>6
<1>7. n \in P
  <2> HIDE DEF P
  <2>1. 0 .. n \subseteq P
    BY <1>1, <1>5, <1>6, UpTo
  <2> QED
    BY <1>1, <2>1
<1>8. \A p \in 1 .. n : Ref(macros[p].name) \notin Range(f[n])
  BY <1>1, <1>7
<1> QED
  BY <1>1, <1>2, <1>8 DEF Final, Range

\* A document that loads has no reference to a macro left in its fields, but for PID.
LEMMA LoadedIsFinal ==
    ASSUME NEW doc, IsDocument(doc), Loads(doc), NEW id \in DOMAIN doc.models, NEW f \in Fields,
           MacrosAreSound(doc, id), f = "cmdStop" => "PID" \notin Names(InForce(doc, id))
    PROVE  Final(InForce(doc, id), Substituted(doc, id)[f])
<1> SUFFICES ASSUME NEW macro \in InForce(doc, id), Ref(macro.name) \in Range(Substituted(doc, id)[f])
             PROVE  FALSE
  BY DEF Final
<1> DEFINE text == Substituted(doc, id)[f]
           port == PortLit(NextPort(doc, id))
           S == Tokens(doc, id)
           T == S \cup {port}
<1>1. macro.name # "PORT"
  <2>1. /\ \A i \in DOMAIN doc.macros : doc.macros[i].name # "PORT"
        /\ \A i \in DOMAIN doc.models[id].macros : doc.models[id].macros[i].name # "PORT"
    BY DEF MacrosAreSound, validateMacro
  <2>2. ModelID(id).name # "PORT"
    BY DEF ModelID
  <2> QED
    BY <2>1, <2>2 DEF InForce, Range
<1>2. text \in Seq(T) /\ <<port>> \in Seq(T)
  <2>1. text \in Seq(S)
    BY SubstitutedStays
  <2>2. S \subseteq T /\ port \in T
    OBVIOUS
  <2> HIDE DEF text, port, S, T
  <2> QED
    BY <2>1, <2>2, SeqMonotonic
<1>3. Ref(macro.name) \in Range(ReplaceMacro(text, "PORT", <<port>>))
  <2>1. Ref(macro.name) # Ref("PORT")
    BY <1>1 DEF Ref
  <2>2. Ref(macro.name) \in Range(text)
    OBVIOUS
  <2> HIDE DEF text, port, T
  <2> QED
    BY <1>2, <2>1, <2>2, ReplaceMacroTokens
<1>4. Ref(macro.name) \in Range(LoadModel(doc, id)[f])
  BY <1>3 DEF LoadModel
<1>5. macro.name \in References(LoadModel(doc, id)[f])
  BY <1>4, RefersTo
<1>6. References(LoadModel(doc, id)[f]) \subseteq (IF f = "cmdStop" THEN {"PID"} ELSE {})
  BY DEF Loads, modelLoads
<1>7. f = "cmdStop" /\ macro.name = "PID"
  BY <1>5, <1>6
<1>8. "PID" \in Names(InForce(doc, id))
  BY <1>7, Zenon DEF Names
<1> QED
  BY <1>7, <1>8

\* The one pass of LoadConfig from the last macro to the first yields the full
\* expansion with the macros in force, in every document that loads and in every one
\* whose macros are defined before they are used, whatever texts and macros it has.
THEOREM SubstitutedIsFull ==
    ASSUME NEW doc, IsDocument(doc), NEW id \in DOMAIN doc.models, NEW f \in Fields,
           MacrosAreSound(doc, id),
           \/ Loads(doc) /\ (f = "cmdStop" => "PID" \notin Names(InForce(doc, id)))
           \/ ~UsedTooEarly(doc, id)
    PROVE  Substituted(doc, id)[f] = FullExpansion(InForce(doc, id), Uncommented(doc, id, f))
<1> DEFINE S == Tokens(doc, id)
           M == MacrosOf(doc, id)
           merged == mergedMacros(doc, id)
           text == Uncommented(doc, id, f)
<1>1. /\ merged \in Seq(M) /\ text \in Seq(S) /\ \A e \in M : e.value \in Seq(S)
      /\ doc.macros \in Seq(M) /\ doc.models[id].macros \in Seq(M) /\ ModelID(id) \in M
  BY DocumentTexts
<1>2. NamesDiffer(merged) /\ Range(merged) = InForce(doc, id)
  <2> HIDE DEF M
  <2> QED
    BY <1>1, MergedIsInForce
<1>3. Substituted(doc, id)[f] = SubstituteMacros(text, merged)
  BY SubstitutedStays
<1>4. UsedTooEarly(doc, id) <=> \E i, j \in DOMAIN merged : j >= i /\ merged[j].name \in References(merged[i].value)
  BY DEF UsedTooEarly
<1> HIDE DEF S, M, merged, text
<1>5. IsInjective(merged)
  BY <1>2 DEF NamesDiffer, IsInjective
<1>6. TextMacros(Range(merged), S)
  <2>1. Range(merged) \subseteq M
    BY <1>1, LenProperties, ElementOfSeq DEF Range
  <2>2. \A a, b \in Range(merged) : a.name = b.name => a = b
    BY <1>2 DEF NamesDiffer, Range
  <2> QED
    BY <1>1, <2>1, <2>2 DEF TextMacros
<1>7. Final(Range(merged), SubstituteMacros(text, merged))
  <2>1. CASE Loads(doc) /\ (f = "cmdStop" => "PID" \notin Names(InForce(doc, id)))
    BY <1>2, <1>3, <2>1, LoadedIsFinal
  <2>2. CASE ~UsedTooEarly(doc, id)
    BY <1>1, <1>4, <2>2, InOrderIsFinal
  <2> QED
    BY <2>1, <2>2
<1>8. SubstituteMacros(text, merged) = FullExpansion(Range(merged), text)
  BY <1>1, <1>5, <1>6, <1>7, OnePassIsFull
<1> QED
  BY <1>2, <1>3, <1>8 DEF text

-----------------------------------------------------------------------------
(***************************************************************************)
(* The loader in the server.                                               *)
(***************************************************************************)
\* Whatever the server serves, unless two reloads ran side by side, has been loaded
\* from a document, so that its models can be reached.
THEOREM ServedIsReachable == Spec => []ModelsAreReachable
<1>1. TypeOK /\ ServesALoadedConfig => ModelsAreReachable
  <2> SUFFICES ASSUME TypeOK, ServesALoadedConfig, handler # 0, "reloads" \notin overlap
               PROVE  Reachable(config[handler].doc)
    BY DEF ModelsAreReachable
  <2>1. config[handler] \in Docs /\ LoadSucceeds(config[handler])
    BY DEF TypeOK, ServesALoadedConfig
  <2>2. IsDocument(config[handler].doc) /\ Loads(config[handler].doc)
    BY <2>1, ServedAssumption
  <2> QED
    BY <2>2, LoadedIsReachable
<1>2. QED
  BY <1>1, TypeCorrect, NeverServesABrokenConfig, PTL

\* The macros of every document the server starts from mean what the documentation
\* says (LoadConfig's one pass, AppendMacro).
THEOREM ExpansionAlwaysFull == Spec => []ExpansionIsFull
<1>1. TypeOK => ExpansionIsFull
  <2> SUFFICES ASSUME TypeOK, NEW id \in DOMAIN file.doc.models, NEW f \in Fields,
                      MacrosAreSound(file.doc, id),
                      \/ /\ LoadSucceeds(file)
                         /\ f = "cmdStop" => "PID" \notin Names(InForce(file.doc, id))
                      \/ ~UsedTooEarly(file.doc, id)
               PROVE  Substituted(file.doc, id)[f] =
                         FullExpansion(InForce(file.doc, id), Uncommented(file.doc, id, f))
    BY DEF ExpansionIsFull
  <2>1. IsDocument(file.doc) /\ (LoadSucceeds(file) <=> Loads(file.doc))
    BY ServedAssumption DEF TypeOK
  <2> QED
    BY <2>1, SubstitutedIsFull
<1>2. QED
  BY <1>1, TypeCorrect, PTL

-----------------------------------------------------------------------------
(***************************************************************************)
(* The usage meter: types.                                                 *)
(***************************************************************************)
LEMMA MeterConstants ==
    /\ MaxGens \in Nat \ {0} /\ Gens = 1 .. MaxGens /\ 1 \in Gens
    /\ Gens \subseteq Flushers /\ Resets \subseteq Flushers
    /\ \A t \in Flushers : t \in Gens \/ t \in Resets
    /\ Resets \cap Gens = {}
    /\ NoFile \notin Inodes
BY UsageAssumption DEF Gens, Flushers

\* A text is a whole rollup or not one.
LEMMA TextFields ==
    /\ \A rollup \in Rollups : /\ Text(rollup) \in Texts
                               /\ Text(rollup).of = rollup /\ Text(rollup).kind = "whole"
                               /\ Text(rollup) # Empty
    /\ Empty \in Texts /\ Mixed \in Texts
    /\ Empty.of = {} /\ Mixed.of = {} /\ Mixed # Empty
    /\ \A text \in Texts : text.of \in Rollups
<1>1. \A rollup \in Rollups : Text(rollup).kind = "whole" /\ Text(rollup).of = rollup
  BY DEF Text
<1>2. /\ Empty.kind = "empty" /\ Mixed.kind = "mixed" /\ Empty.of = {} /\ Mixed.of = {}
      /\ {} \in Rollups
  BY DEF Empty, Mixed, Rollups
<1> QED
  BY <1>1, <1>2 DEF Texts

\* There is an inode that no name and no open file uses.
LEMMA FreeInode ==
    ASSUME NEW f \in [Flushers -> Inodes \cup {NoFile}], NEW p
    PROVE  \E i \in Inodes : i \notin {p} \cup {f[u] : u \in Flushers}
<1> DEFINE used == {f[u] : u \in Flushers}
           n == Cardinality(Flushers)
<1>1. IsFiniteSet(Flushers) /\ n \in Nat
  <2>1. IsFiniteSet(Gens)
    BY MeterConstants, FS_Interval
  <2> QED
    BY <2>1, UsageAssumption, FS_Union, FS_CardinalityType DEF Flushers
<1>2. f \in Surjection(Flushers, used)
  BY DEF Surjection
<1>3. IsFiniteSet(used) /\ Cardinality(used) <= n
  BY <1>1, <1>2, FS_Surjection
<1>4. IsFiniteSet(used \cup {p}) /\ Cardinality(used \cup {p}) <= n + 1
  <2>1. Cardinality(used) \in Nat
    BY <1>3, FS_CardinalityType
  <2>2. /\ IsFiniteSet(used \cup {p})
        /\ Cardinality(used \cup {p}) = IF p \in used THEN Cardinality(used) ELSE Cardinality(used) + 1
    BY <1>3, FS_AddElement
  <2> HIDE DEF used, n
  <2> QED
    BY <1>1, <1>3, <2>1, <2>2
<1>5. Cardinality(Inodes) = n + 2
  <2>1. n + 2 \in Int /\ 1 \in Int /\ ~(1 > n + 2) /\ n + 2 - 1 + 1 = n + 2
    BY <1>1
  <2> QED
    BY <2>1, FS_Interval DEF Inodes
<1>6. ASSUME Inodes \subseteq used \cup {p} PROVE FALSE
  <2>1. Cardinality(Inodes) <= Cardinality(used \cup {p})
    BY <1>4, <1>6, FS_Subset
  <2>2. Cardinality(used \cup {p}) \in Nat
    BY <1>4, FS_CardinalityType
  <2> HIDE DEF used, n
  <2> QED
    BY <1>1, <1>4, <1>5, <2>1, <2>2
<1> QED
  BY <1>6

(***************************************************************************)
(* What each step does to the flushers.                                    *)
(***************************************************************************)
FlusherSet(t, at, meter, lost, buf, node) ==
    /\ flush' \in [Flushers -> Flushes]
    /\ \A u \in Flushers \ {t} : flush'[u] = flush[u]
    /\ flush'[t].pc = at /\ flush'[t].meter = meter /\ flush'[t].lost = lost
    /\ flush'[t].buf = buf /\ flush'[t].node = node

LEMMA FlusherFields ==
    ASSUME MeterTypeOK, NEW t \in Flushers
    PROVE  /\ flush[t] \in Flushes
           /\ flush[t].pc \in {"idle", "flush", "open", "write", "rename", "done"}
           /\ flush[t].meter \in 0 .. MaxGens
           /\ flush[t].lost \in Rollups /\ flush[t].buf \in Rollups
           /\ flush[t].node \in Inodes \cup {NoFile}
BY DEF MeterTypeOK, Flushes

LEMMA MeterFields ==
    ASSUME MeterTypeOK
    PROVE  /\ created \in Nat /\ serving \in Nat /\ MaxGens \in Nat /\ Gens = 1 .. MaxGens
           /\ created \in Gens /\ serving \in Gens /\ alive \subseteq Gens
           /\ serving <= created /\ \A g \in alive : 1 <= g /\ g <= created
           /\ \A g \in Gens : g \in 0 .. MaxGens /\ mem[g] \in Rollups /\ dirty[g] \in BOOLEAN
BY MeterConstants DEF MeterTypeOK

LEMMA PersistTickFlush ==
    ASSUME MeterTypeOK, NEW t \in Gens, PersistTick(t)
    PROVE  FlusherSet(t, "flush", flush[t].meter, flush[t].lost, flush[t].buf, flush[t].node)
<1>1. t \in Flushers
  BY MeterConstants
<1>2. flush' = [flush EXCEPT ![t].pc = "flush"]
  BY DEF PersistTick
<1> QED
  BY <1>1, <1>2, FlusherFields DEF FlusherSet, MeterTypeOK, Flushes

LEMMA ResetFlush ==
    ASSUME MeterTypeOK, NEW t \in Resets, Reset(t)
    PROVE  FlusherSet(t, "flush", serving, mem[serving], flush[t].buf, flush[t].node)
<1>1. t \in Flushers /\ serving \in 0 .. MaxGens /\ mem[serving] \in Rollups
  BY MeterConstants, MeterFields
<1>2. flush' = [flush EXCEPT ![t] = [@ EXCEPT !.pc = "flush", !.meter = serving, !.lost = mem[serving]]]
  BY DEF Reset
<1> QED
  BY <1>1, <1>2, FlusherFields DEF FlusherSet, MeterTypeOK, Flushes

LEMMA FinishFlush ==
    ASSUME MeterTypeOK, NEW t \in Flushers, Finish(t)
    PROVE  FlusherSet(t, IF t \in Resets THEN "done" ELSE "idle", flush[t].meter, flush[t].lost,
                      {}, NoFile)
BY FlusherFields DEF Finish, FlusherSet, MeterTypeOK, Flushes, Rollups

LEMMA MarshalFlush ==
    ASSUME MeterTypeOK, NEW t \in Flushers, Marshal(t)
    PROVE  FlusherSet(t, "open", flush[t].meter, flush[t].lost, mem[flush[t].meter], flush[t].node)
<1>1. flush' = [flush EXCEPT ![t].pc = "open", ![t].buf = mem[flush[t].meter]]
  BY DEF Marshal
<1>2. mem[flush[t].meter] \in Rollups
  BY MeterFields DEF Marshal, InProgram
<1> QED
  BY <1>1, <1>2, FlusherFields DEF FlusherSet, MeterTypeOK, Flushes

\* Open makes the temporary name one of an empty file that the other name is not.
LEMMA OpenFlush ==
    ASSUME MeterTypeOK, NEW t \in Flushers, Open(t)
    PROVE  /\ tmp' \in Inodes /\ tmp' # path
           /\ data' = [data EXCEPT ![tmp'] = Empty]
           /\ FlusherSet(t, "write", flush[t].meter, flush[t].lost, flush[t].buf, tmp')
<1> DEFINE used == {path} \cup {flush[u].node : u \in Flushers}
           free == CHOOSE i \in Inodes : i \notin used
           f == [u \in Flushers |-> flush[u].node]
<1>1. free \in Inodes /\ free # path
  <2>1. f \in [Flushers -> Inodes \cup {NoFile}]
    BY FlusherFields
  <2>2. \E i \in Inodes : i \notin {path} \cup {f[u] : u \in Flushers}
    BY <2>1, FreeInode
  <2>3. \E i \in Inodes : i \notin used
    BY <2>2
  <2> QED
    BY <2>3
<1>2. tmp' = IF tmp # NoFile THEN tmp ELSE free
  BY DEF Open
<1>3. tmp' \in Inodes /\ tmp' # path
  BY <1>1, <1>2 DEF MeterTypeOK
<1>4. data' = [data EXCEPT ![tmp'] = Empty] /\ flush' = [flush EXCEPT ![t].pc = "write", ![t].node = tmp']
  BY <1>2 DEF Open
<1> QED
  BY <1>3, <1>4, FlusherFields DEF FlusherSet, MeterTypeOK, Flushes

LEMMA WriteFileFlush ==
    ASSUME MeterTypeOK, NEW t \in Flushers, WriteFile(t)
    PROVE  FlusherSet(t, "rename", flush[t].meter, flush[t].lost, flush[t].buf, flush[t].node)
BY FlusherFields DEF WriteFile, FlusherSet, MeterTypeOK, Flushes

\* What the steps do to the texts.
LEMMA WriteFileTexts ==
    ASSUME MeterTypeOK, NEW t \in Flushers, WriteFile(t), flush[t].node \in Inodes
    PROVE  \E result \in {Text(flush[t].buf), Mixed} :
              /\ result = Mixed => data[flush[t].node] \notin {Empty, Text(flush[t].buf)}
              /\ data' = [data EXCEPT ![flush[t].node] = result]
              /\ saved' = IF flush[t].node = path THEN saved \cup result.of ELSE saved
              /\ result \in Texts /\ result.of \subseteq flush[t].buf /\ result.of \in Rollups
<1>1. Text(flush[t].buf) \in Texts /\ Text(flush[t].buf).of = flush[t].buf /\ flush[t].buf \in Rollups
  BY FlusherFields, TextFields
<1>2. Mixed \in Texts /\ Mixed.of = {} /\ {} \in Rollups
  BY TextFields DEF Rollups
<1>3. PICK result \in {Text(flush[t].buf), Mixed} :
         /\ result = Mixed => data[flush[t].node] \notin {Empty, Text(flush[t].buf)}
         /\ data' = [data EXCEPT ![flush[t].node] = result]
         /\ saved' = IF flush[t].node = path THEN saved \cup result.of ELSE saved
  BY DEF WriteFile
<1>4. result \in Texts /\ result.of \subseteq flush[t].buf /\ result.of \in Rollups
  BY <1>1, <1>2
<1> QED
  BY <1>3, <1>4

LEMMA ContentsFields ==
    ASSUME MeterTypeOK
    PROVE  Contents \in Texts /\ Contents.of \in Rollups
<1>1. Text({}) \in Texts
  BY TextFields DEF Rollups
<1>2. Contents \in Texts
  BY <1>1 DEF Contents, MeterTypeOK
<1> QED
  BY <1>2, TextFields

(***************************************************************************)
(* The inductive invariant.                                                *)
(***************************************************************************)
\* A flusher that is under way has a meter; only resets are ever done, and only once.
FlushersInv ==
    /\ \A g \in Gens : flush[g].meter = g /\ flush[g].pc # "done"
    /\ \A t \in Flushers : /\ flush[t].pc # "idle" => flush[t].meter \in 1 .. created
                           /\ flush[t].pc \in {"write", "rename"} => flush[t].node \in Inodes
    /\ \A t \in Resets : /\ flush[t].meter <= serving
                         /\ flush[t].pc = "idle" => flush[t].lost = {}
    /\ serving >= created - 1 /\ created \in alive

\* Only recorded requests are anywhere.
KnownInv ==
    /\ \A g \in Gens : mem[g] \subseteq recorded
    /\ \A t \in Flushers : flush[t].buf \subseteq recorded /\ flush[t].lost \subseteq recorded
    /\ \A i \in Inodes : data[i].of \subseteq recorded

LEMMA MeterTypeInit == MeterInit => MeterTypeOK /\ FlushersInv /\ KnownInv
<1> SUFFICES ASSUME MeterInit PROVE MeterTypeOK /\ FlushersInv /\ KnownInv
  OBVIOUS
<1>1. MaxCrashes \in Nat
  BY UsageAssumption
<1>2. \A t \in Flushers : /\ flush[t].pc = "idle" /\ flush[t].meter = IF t \in Gens THEN t ELSE 0
                          /\ flush[t].lost = {} /\ flush[t].buf = {} /\ flush[t].node = NoFile
  BY DEF MeterInit
<1>3. flush \in [Flushers -> Flushes]
  BY MeterConstants DEF MeterInit, Flushes, Rollups
<1>4. data \in [Inodes -> Texts] /\ \A i \in Inodes : data[i] = Empty
  BY TextFields DEF MeterInit
<1>5. MeterTypeOK
  <2>1. /\ created \in Gens /\ serving \in 1 .. created
        /\ alive \subseteq 1 .. created /\ serving \in alive
    BY MeterConstants DEF MeterInit
  <2>2. mem \in [Gens -> Rollups] /\ dirty \in [Gens -> BOOLEAN]
    BY DEF MeterInit, Rollups
  <2>3. served \in [Requests -> 0 .. created] /\ recorded \subseteq Requests
    BY DEF MeterInit
  <2>4. /\ tmp \in Inodes \cup {NoFile} /\ path \in Inodes \cup {NoFile} /\ tmp = path
        /\ crashes \in 0 .. MaxCrashes /\ saved \subseteq Requests /\ windows = {}
        /\ tmp = NoFile
    BY <1>1 DEF MeterInit
  <2> QED
    BY <1>3, <1>4, <2>1, <2>2, <2>3, <2>4 DEF MeterTypeOK
<1>6. FlushersInv
  <2>1. \A g \in Gens : flush[g].meter = g /\ flush[g].pc = "idle"
    BY <1>2, MeterConstants
  <2>2. \A t \in Resets : flush[t].meter = 0 /\ flush[t].lost = {}
    BY <1>2, MeterConstants
  <2>3. \A t \in Flushers : flush[t].pc = "idle"
    BY <1>2
  <2>4. serving = 1 /\ created = 1 /\ alive = {1}
    BY DEF MeterInit
  <2>5. \A g \in Gens : flush[g].meter = g /\ flush[g].pc # "done"
    BY <2>1
  <2>6. \A t \in Resets : flush[t].meter <= serving /\ (flush[t].pc = "idle" => flush[t].lost = {})
    BY <2>2, <2>4
  <2>7. serving >= created - 1 /\ created \in alive
    BY <2>4
  <2> QED
    BY <2>3, <2>5, <2>6, <2>7 DEF FlushersInv
<1>7. KnownInv
  BY <1>2, <1>4, TextFields DEF MeterInit, KnownInv
<1> QED
  BY <1>5, <1>6, <1>7

LEMMA MeterTypeStep == MeterTypeOK /\ FlushersInv /\ [MeterNext]_meterVars => MeterTypeOK'
<1> SUFFICES ASSUME MeterTypeOK, FlushersInv, [MeterNext]_meterVars PROVE MeterTypeOK'
  OBVIOUS
<1> USE DEF memoryVars, requestVars, diskVars, historyVars
<1>1. ASSUME NEW r \in Requests, Serve(r) PROVE MeterTypeOK'
  BY <1>1, MeterFields DEF Serve, MeterTypeOK
<1>2. ASSUME NEW r \in Requests, Record(r) PROVE MeterTypeOK'
  BY <1>2, MeterFields DEF Record, MeterTypeOK, Rollups
<1>3. ASSUME NEW g \in Gens, PersistTick(g) PROVE MeterTypeOK'
  BY <1>3, PersistTickFlush DEF PersistTick, FlusherSet, MeterTypeOK
<1>4. ASSUME NEW t \in Resets, Reset(t) PROVE MeterTypeOK'
  BY <1>4, ResetFlush, MeterFields DEF Reset, FlusherSet, MeterTypeOK, Rollups
<1>5. ASSUME NEW t \in Flushers, NothingToFlush(t) PROVE MeterTypeOK'
  BY <1>5, FinishFlush DEF NothingToFlush, Hit, FlusherSet, MeterTypeOK
<1>6. ASSUME NEW t \in Flushers, Marshal(t) PROVE MeterTypeOK'
  <2>1. windows' \subseteq {"overlap", "older", "failed", "killed"}
    BY <1>6 DEF Marshal, MeterTypeOK
  <2>2. dirty' \in [Gens -> BOOLEAN]
    BY <1>6 DEF Marshal, MeterTypeOK
  <2>3. UNCHANGED <<serving, created, alive, mem, served, recorded, data, tmp, path, crashes, saved>>
    BY <1>6 DEF Marshal
  <2> QED
    BY <1>6, <2>1, <2>2, <2>3, MarshalFlush DEF FlusherSet, MeterTypeOK
<1>7. ASSUME NEW t \in Flushers, Open(t) PROVE MeterTypeOK'
  <2>1. UNCHANGED <<serving, created, alive, mem, dirty, served, recorded, path, crashes, saved, windows>>
    BY <1>7 DEF Open
  <2>2. /\ tmp' \in Inodes /\ tmp' # path
        /\ data' = [data EXCEPT ![tmp'] = Empty]
        /\ flush' \in [Flushers -> Flushes]
    BY <1>7, OpenFlush DEF FlusherSet
  <2> QED
    BY <2>1, <2>2, TextFields DEF MeterTypeOK
<1>8. ASSUME NEW t \in Flushers, WriteFile(t) PROVE MeterTypeOK'
  <2>1. UNCHANGED <<serving, created, alive, mem, dirty, served, recorded, tmp, path, crashes, windows>>
    BY <1>8 DEF WriteFile
  <2>2. flush[t].node \in Inodes
    BY <1>8 DEF WriteFile, FlushersInv
  <2>3. data' \in [Inodes -> Texts] /\ saved' \subseteq Requests
    BY <1>8, <2>2, WriteFileTexts DEF MeterTypeOK, Rollups
  <2> QED
    BY <1>8, <2>1, <2>3, WriteFileFlush DEF FlusherSet, MeterTypeOK
<1>9. ASSUME NEW t \in Flushers, WriteError(t) PROVE MeterTypeOK'
  BY <1>9, FinishFlush DEF WriteError, Hit, FlusherSet, MeterTypeOK
<1>10. ASSUME NEW t \in Flushers, Rename(t) PROVE MeterTypeOK'
  <2>1. UNCHANGED <<serving, created, alive, mem, dirty, served, recorded, data, crashes, windows>>
    BY <1>10 DEF Rename
  <2>2. tmp' \in Inodes \cup {NoFile} /\ path' \in Inodes \cup {NoFile} /\ (tmp' # NoFile => tmp' # path')
    BY <1>10 DEF Rename, MeterTypeOK
  <2>3. saved' \subseteq Requests
    <3>1. tmp # NoFile => data[tmp].of \in Rollups
      BY TextFields DEF MeterTypeOK
    <3> QED
      BY <1>10, <3>1 DEF Rename, MeterTypeOK, Rollups
  <2>4. flush' \in [Flushers -> Flushes]
    BY <1>10, FinishFlush DEF Rename, FlusherSet
  <2> QED
    BY <2>1, <2>2, <2>3, <2>4 DEF MeterTypeOK
<1>11. ASSUME NewManager
       PROVE  /\ created' \in Gens /\ created' = created + 1 /\ mem' \in [Gens -> Rollups]
              /\ serving \in 1 .. created'
              /\ alive \subseteq 1 .. created' /\ served \in [Requests -> 0 .. created']
  <2>1. created' \in Gens /\ created' = created + 1
    BY <1>11, MeterFields DEF NewManager
  <2>2. mem' \in [Gens -> Rollups]
    BY <1>11, ContentsFields DEF NewManager, Load, MeterTypeOK
  <2>3. created \in Nat /\ 1 .. created \subseteq 1 .. created' /\ 0 .. created \subseteq 0 .. created'
    BY <2>1, MeterFields
  <2> QED
    BY <2>1, <2>2, <2>3 DEF MeterTypeOK
<1>12. CASE Reload
  <2>1. NewManager /\ alive' = alive \cup {created + 1}
        /\ UNCHANGED <<serving, dirty, served, recorded, flush, data, tmp, path, crashes, saved>>
        /\ windows' \subseteq {"overlap", "older", "failed", "killed"}
    BY <1>12 DEF Reload, Hit, MeterTypeOK
  <2>2. created + 1 \in 1 .. created'
    BY <1>11, <2>1, MeterFields
  <2> QED
    BY <1>11, <2>1, <2>2 DEF MeterTypeOK
<1>13. CASE InstallHandler
  BY <1>13, MeterFields DEF InstallHandler, MeterTypeOK, FlushersInv
<1>14. CASE Crash
  <2>1. /\ NewManager /\ alive' = {created + 1} /\ serving' = created + 1
        /\ UNCHANGED <<dirty, served, recorded, flush, data, tmp, path, saved>>
        /\ windows' \subseteq {"overlap", "older", "failed", "killed"}
        /\ crashes' \in 0 .. MaxCrashes
    BY <1>14, UsageAssumption DEF Crash, Hit, MeterTypeOK
  <2>2. created + 1 \in 1 .. created'
    BY <1>11, <2>1, MeterFields
  <2> QED
    BY <1>11, <2>1, <2>2 DEF MeterTypeOK
<1>15. CASE UNCHANGED meterVars
  BY <1>15 DEF meterVars, MeterTypeOK
<1> QED
  BY <1>1, <1>2, <1>3, <1>4, <1>5, <1>6, <1>7, <1>8, <1>9, <1>10, <1>12, <1>13, <1>14, <1>15
     DEF MeterNext, FlushStep

LEMMA FlushersStep == MeterTypeOK /\ FlushersInv /\ [MeterNext]_meterVars => FlushersInv'
<1> SUFFICES ASSUME MeterTypeOK, FlushersInv, [MeterNext]_meterVars PROVE FlushersInv'
  OBVIOUS
<1> USE DEF memoryVars, requestVars, diskVars, historyVars
\* One flusher changes, and neither its number nor that of a manager.
<1>1. ASSUME NEW t \in Flushers, NEW at, NEW meter, NEW lost, NEW buf, NEW node,
             FlusherSet(t, at, meter, lost, buf, node), UNCHANGED <<serving, created, alive>>,
             t \in Gens => meter = t /\ at # "done",
             meter \in 1 .. created, t \in Resets => meter <= serving /\ at # "idle",
             at \in {"write", "rename"} => node \in Inodes
      PROVE  FlushersInv'
  BY <1>1, MeterConstants DEF FlusherSet, FlushersInv
<1>2. ASSUME NEW g \in Gens, PersistTick(g) PROVE FlushersInv'
  <2>1. g \in Flushers /\ flush[g].meter = g /\ g \in 1 .. created
    BY <1>2, MeterConstants, MeterFields DEF PersistTick, FlushersInv
  <2>2. FlusherSet(g, "flush", flush[g].meter, flush[g].lost, flush[g].buf, flush[g].node)
        /\ UNCHANGED <<serving, created, alive>>
    BY <1>2, PersistTickFlush DEF PersistTick
  <2> QED
    BY <1>1, <2>1, <2>2, MeterConstants
<1>3. ASSUME NEW t \in Resets, Reset(t) PROVE FlushersInv'
  <2>1. FlusherSet(t, "flush", serving, mem[serving], flush[t].buf, flush[t].node)
        /\ UNCHANGED <<serving, created, alive>>
    BY <1>3, ResetFlush DEF Reset
  <2>2. t \in Flushers /\ t \notin Gens /\ serving \in 1 .. created /\ serving <= serving
    BY MeterConstants, MeterFields DEF MeterTypeOK
  <2> QED
    BY <1>1, <2>1, <2>2
\* A flusher that is under way keeps its meter.
<1>4. ASSUME NEW t \in Flushers, NEW at, NEW buf, NEW node,
             flush[t].pc # "idle", FlusherSet(t, at, flush[t].meter, flush[t].lost, buf, node),
             UNCHANGED <<serving, created, alive>>,
             t \in Gens => at # "done", t \in Resets => at # "idle",
             at \in {"write", "rename"} => node \in Inodes
      PROVE  FlushersInv'
  <2>1. flush[t].meter \in 1 .. created /\ (t \in Gens => flush[t].meter = t)
        /\ (t \in Resets => flush[t].meter <= serving)
    BY <1>4 DEF FlushersInv
  <2> QED
    BY <1>1, <1>4, <2>1
<1>5. ASSUME NEW t \in Flushers, Finish(t), flush[t].pc # "idle", UNCHANGED <<serving, created, alive>>
      PROVE  FlushersInv'
  <2>1. FlusherSet(t, IF t \in Resets THEN "done" ELSE "idle", flush[t].meter, flush[t].lost, {}, NoFile)
    BY <1>5, FinishFlush
  <2>2. t \in Gens => t \notin Resets
    BY MeterConstants
  <2>3. CASE t \in Resets
    BY <1>4, <1>5, <2>1, <2>2, <2>3
  <2>4. CASE t \notin Resets
    BY <1>4, <1>5, <2>1, <2>2, <2>4
  <2> QED
    BY <2>3, <2>4
<1>6. ASSUME NEW t \in Flushers, NothingToFlush(t) \/ WriteError(t) \/ Rename(t) PROVE FlushersInv'
  BY <1>5, <1>6 DEF NothingToFlush, WriteError, Rename
<1>7. ASSUME NEW t \in Flushers, Marshal(t) PROVE FlushersInv'
  <2>1. FlusherSet(t, "open", flush[t].meter, flush[t].lost, mem[flush[t].meter], flush[t].node)
    BY <1>7, MarshalFlush
  <2>2. flush[t].pc # "idle" /\ UNCHANGED <<serving, created, alive>>
    BY <1>7 DEF Marshal
  <2> QED
    BY <1>4, <2>1, <2>2
<1>8. ASSUME NEW t \in Flushers, Open(t) PROVE FlushersInv'
  <2>1. FlusherSet(t, "write", flush[t].meter, flush[t].lost, flush[t].buf, tmp') /\ tmp' \in Inodes
    BY <1>8, OpenFlush
  <2>2. flush[t].pc # "idle" /\ UNCHANGED <<serving, created, alive>>
    BY <1>8 DEF Open
  <2> QED
    BY <1>4, <2>1, <2>2
<1>9. ASSUME NEW t \in Flushers, WriteFile(t) PROVE FlushersInv'
  <2>1. flush[t].node \in Inodes
    BY <1>9 DEF WriteFile, FlushersInv
  <2> QED
    <3>1. FlusherSet(t, "rename", flush[t].meter, flush[t].lost, flush[t].buf, flush[t].node)
      BY <1>9, WriteFileFlush
    <3>2. flush[t].pc # "idle" /\ UNCHANGED <<serving, created, alive>>
      BY <1>9 DEF WriteFile
    <3> QED
      BY <1>4, <2>1, <3>1, <3>2
\* A manager is added.
<1>10. ASSUME created' = created + 1, serving' \in {created, created + 1}, flush' = flush,
              created + 1 \in alive'
       PROVE  FlushersInv'
  <2>1. serving <= serving' /\ serving' >= created' - 1 /\ created' \in alive'
    BY <1>10, MeterFields
  <2>2. ASSUME NEW t \in Resets PROVE flush[t].meter <= serving'
    <3>1. t \in Flushers /\ flush[t].meter <= serving
      BY MeterConstants DEF FlushersInv
    <3>2. flush[t].meter \in 0 .. MaxGens
      BY <3>1, FlusherFields
    <3>3. created \in Nat /\ serving \in Nat /\ MaxGens \in Nat
      BY MeterFields
    <3>4. serving' \in Nat
      BY <1>10, <3>3
    <3> QED
      BY <2>1, <3>1, <3>2, <3>3, <3>4
  <2>3. \A n \in 1 .. created : n \in 1 .. created'
    BY <1>10, MeterFields
  <2>4. /\ \A g \in Gens : flush'[g].meter = g /\ flush'[g].pc # "done"
        /\ \A t \in Flushers : /\ flush'[t].pc # "idle" => flush'[t].meter \in 1 .. created'
                               /\ flush'[t].pc \in {"write", "rename"} => flush'[t].node \in Inodes
        /\ \A t \in Resets : flush'[t].pc = "idle" => flush'[t].lost = {}
    BY <1>10, <2>3 DEF FlushersInv
  <2> QED
    BY <1>10, <2>1, <2>2, <2>4 DEF FlushersInv
<1>11. CASE Reload
  BY <1>10, <1>11, MeterFields DEF Reload, NewManager
<1>12. CASE Crash
  BY <1>10, <1>12 DEF Crash, NewManager
<1>13. CASE InstallHandler
  <2>1. serving' = created /\ serving <= created /\ created >= created - 1
    BY <1>13, MeterFields DEF InstallHandler
  <2>2. ASSUME NEW t \in Resets PROVE flush[t].meter <= created
    <3>1. flush[t].meter \in 0 .. MaxGens /\ flush[t].meter <= serving
      BY MeterConstants, FlusherFields DEF FlushersInv
    <3> QED
      BY <2>1, <3>1, MeterFields
  <2> QED
    BY <1>13, <2>1, <2>2 DEF InstallHandler, FlushersInv
<1>14. CASE UNCHANGED <<flush, serving, created, alive>>
  BY <1>14 DEF FlushersInv
<1>15. ASSUME NEW r \in Requests, Serve(r) \/ Record(r) PROVE FlushersInv'
  BY <1>14, <1>15 DEF Serve, Record
<1>16. CASE UNCHANGED meterVars
  BY <1>14, <1>16 DEF meterVars
<1> QED
  BY <1>2, <1>3, <1>6, <1>7, <1>8, <1>9, <1>11, <1>12, <1>13, <1>15, <1>16 DEF MeterNext, FlushStep

LEMMA KnownStep == MeterTypeOK /\ FlushersInv /\ KnownInv /\ [MeterNext]_meterVars => KnownInv'
<1> SUFFICES ASSUME MeterTypeOK, FlushersInv, KnownInv, [MeterNext]_meterVars PROVE KnownInv'
  OBVIOUS
<1> USE DEF memoryVars, requestVars, diskVars, historyVars
<1>1. ASSUME NEW t \in Flushers, NEW at, NEW meter, NEW lost, NEW buf, NEW node,
             FlusherSet(t, at, meter, lost, buf, node),
             lost \subseteq recorded, buf \subseteq recorded, recorded' = recorded,
             \A g \in Gens : mem'[g] \subseteq recorded, \A i \in Inodes : data'[i].of \subseteq recorded
      PROVE  KnownInv'
  BY <1>1 DEF FlusherSet, KnownInv
<1>2. ASSUME NEW r \in Requests, Record(r) PROVE KnownInv'
  BY <1>2 DEF Record, KnownInv, MeterTypeOK
<1>3. ASSUME NEW g \in Gens, PersistTick(g) PROVE KnownInv'
  BY <1>1, <1>3, PersistTickFlush, MeterConstants DEF PersistTick, KnownInv
<1>4. ASSUME NEW t \in Resets, Reset(t) PROVE KnownInv'
  <2>1. t \in Flushers /\ mem[serving] \subseteq recorded
    BY MeterConstants, MeterFields DEF KnownInv
  <2>2. \A g \in Gens : mem'[g] \subseteq recorded
    BY <1>4 DEF Reset, KnownInv, MeterTypeOK
  <2> QED
    BY <1>1, <1>4, <2>1, <2>2, ResetFlush DEF Reset, KnownInv
<1>5. ASSUME NEW t \in Flushers, Finish(t), UNCHANGED <<recorded, mem, data>> PROVE KnownInv'
  BY <1>1, <1>5, FinishFlush DEF KnownInv
<1>6. ASSUME NEW t \in Flushers, NothingToFlush(t) \/ WriteError(t) \/ Rename(t) PROVE KnownInv'
  BY <1>5, <1>6 DEF NothingToFlush, WriteError, Rename
<1>7. ASSUME NEW t \in Flushers, Marshal(t) PROVE KnownInv'
  <2>1. mem[flush[t].meter] \subseteq recorded
    BY <1>7, MeterFields DEF Marshal, InProgram, KnownInv
  <2> QED
    <3>1. FlusherSet(t, "open", flush[t].meter, flush[t].lost, mem[flush[t].meter], flush[t].node)
      BY <1>7, MarshalFlush
    <3>2. UNCHANGED <<recorded, mem, data>>
      BY <1>7 DEF Marshal
    <3>3. flush[t].lost \subseteq recorded
      BY DEF KnownInv
    <3> QED
      BY <1>1, <2>1, <3>1, <3>2, <3>3 DEF KnownInv
<1>8. ASSUME NEW t \in Flushers, Open(t) PROVE KnownInv'
  <2>1. tmp' \in Inodes /\ data' = [data EXCEPT ![tmp'] = Empty]
        /\ FlusherSet(t, "write", flush[t].meter, flush[t].lost, flush[t].buf, tmp')
    BY <1>8, OpenFlush
  <2>2. \A i \in Inodes : data'[i].of \subseteq recorded
    BY <2>1, TextFields DEF KnownInv, MeterTypeOK
  <2> QED
    <3>1. UNCHANGED <<recorded, mem>>
      BY <1>8 DEF Open
    <3>2. flush[t].lost \subseteq recorded /\ flush[t].buf \subseteq recorded
      BY DEF KnownInv
    <3> QED
      BY <1>1, <2>1, <2>2, <3>1, <3>2 DEF KnownInv
<1>9. ASSUME NEW t \in Flushers, WriteFile(t) PROVE KnownInv'
  <2>1. flush[t].node \in Inodes
    BY <1>9 DEF WriteFile, FlushersInv
  <2>2. PICK result : result.of \subseteq flush[t].buf /\ data' = [data EXCEPT ![flush[t].node] = result]
    BY <1>9, <2>1, WriteFileTexts
  <2>3. \A i \in Inodes : data'[i].of \subseteq recorded
    BY <2>2 DEF KnownInv, MeterTypeOK
  <2> QED
    BY <1>1, <1>9, <2>3, WriteFileFlush DEF WriteFile, KnownInv
<1>10. Contents.of \subseteq recorded
  <2>1. Text({}).of = {}
    BY TextFields DEF Rollups
  <2> QED
    BY <2>1 DEF Contents, KnownInv, MeterTypeOK
<1>11. ASSUME NewManager, UNCHANGED <<recorded, flush, data>> PROVE KnownInv'
  BY <1>10, <1>11 DEF NewManager, Load, KnownInv, MeterTypeOK
<1>12. CASE Reload \/ Crash
  BY <1>11, <1>12 DEF Reload, Crash
<1>13. CASE UNCHANGED <<mem, recorded, flush, data>>
  BY <1>13 DEF KnownInv
<1>14. ASSUME NEW r \in Requests, Serve(r) PROVE KnownInv'
  BY <1>13, <1>14 DEF Serve
<1>15. CASE InstallHandler \/ UNCHANGED meterVars
  BY <1>13, <1>15 DEF InstallHandler, meterVars
<1> QED
  BY <1>2, <1>3, <1>4, <1>6, <1>7, <1>8, <1>9, <1>12, <1>14, <1>15 DEF MeterNext, FlushStep

(***************************************************************************)
(* Who writes the file, before and after a step.                           *)
(***************************************************************************)
\* A step leaves a flusher as it is.
Kept(u) ==
    /\ flush'[u] = flush[u]
    /\ Writing(u)' <=> Writing(u)
    /\ flush[u].pc # "idle" => (InProgram(u)' <=> InProgram(u))

LEMMA OneFlusher ==
    ASSUME NEW t \in Flushers, NEW at, NEW meter, NEW lost, NEW buf, NEW node,
           FlusherSet(t, at, meter, lost, buf, node), alive' = alive
    PROVE  /\ \A u \in Flushers \ {t} : Kept(u)
           /\ Writing(t)' <=> meter \in alive /\ at \in {"open", "write", "rename"}
           /\ InProgram(t)' <=> meter \in alive
BY DEF FlusherSet, Kept, Writing, InProgram

LEMMA AllKept ==
    ASSUME MeterTypeOK, FlushersInv, flush' = flush,
           alive' = alive \/ alive' = alive \cup {created + 1}
    PROVE  \A u \in Flushers : Kept(u)
<1> TAKE u \in Flushers
<1>1. ASSUME flush[u].pc # "idle" PROVE flush[u].meter \in alive' <=> flush[u].meter \in alive
  <2>1. flush[u].meter \in Nat /\ flush[u].meter <= created /\ created \in Nat
    BY <1>1, MeterFields DEF FlushersInv
  <2>2. flush[u].meter # created + 1
    BY <2>1
  <2> QED
    BY <2>2
<1> QED
  BY <1>1 DEF Kept, Writing, InProgram

\* A killed program writes no more.
LEMMA NoneKept ==
    ASSUME MeterTypeOK, FlushersInv, flush' = flush, alive' = {created + 1}
    PROVE  \A u \in Flushers : ~Writing(u)' /\ (flush[u].pc # "idle" => ~InProgram(u)')
<1> TAKE u \in Flushers
<1>1. ASSUME flush[u].pc # "idle" PROVE flush[u].meter \notin alive'
  <2>1. flush[u].meter \in Nat /\ flush[u].meter <= created /\ created \in Nat
    BY <1>1, MeterFields DEF FlushersInv
  <2> QED
    BY <2>1
<1> QED
  BY <1>1 DEF Writing, InProgram

\* What a flush step does: everyone else is kept.
LEMMA PersistTickKept ==
    ASSUME MeterTypeOK, NEW t \in Gens, PersistTick(t)
    PROVE  /\ \A u \in Flushers \ {t} : Kept(u)
           /\ ~Writing(t) /\ ~Writing(t)' /\ flush'[t].lost = flush[t].lost
<1>1. t \in Flushers /\ alive' = alive /\ flush[t].pc = "idle"
  BY MeterConstants DEF PersistTick, memoryVars
<1>2. FlusherSet(t, "flush", flush[t].meter, flush[t].lost, flush[t].buf, flush[t].node)
  BY PersistTickFlush
<1> QED
  BY <1>1, <1>2, OneFlusher DEF FlusherSet, Writing

LEMMA ResetKept ==
    ASSUME MeterTypeOK, NEW t \in Resets, Reset(t)
    PROVE  /\ \A u \in Flushers \ {t} : Kept(u)
           /\ ~Writing(t) /\ ~Writing(t)'
           /\ flush'[t].pc = "flush" /\ flush'[t].meter = serving /\ flush'[t].lost = mem[serving]
<1>1. t \in Flushers /\ alive' = alive /\ flush[t].pc = "idle"
  BY MeterConstants DEF Reset
<1>2. FlusherSet(t, "flush", serving, mem[serving], flush[t].buf, flush[t].node)
  BY ResetFlush
<1> QED
  BY <1>1, <1>2, OneFlusher DEF FlusherSet, Writing

LEMMA FinishKept ==
    ASSUME MeterTypeOK, NEW t \in Flushers, Finish(t), alive' = alive
    PROVE  /\ \A u \in Flushers \ {t} : Kept(u)
           /\ ~Writing(t)' /\ flush'[t].lost = flush[t].lost
           /\ flush'[t].pc = IF t \in Resets THEN "done" ELSE "idle"
<1>1. FlusherSet(t, IF t \in Resets THEN "done" ELSE "idle", flush[t].meter, flush[t].lost,
                 {}, NoFile)
  BY FinishFlush
<1>2. /\ \A u \in Flushers \ {t} : Kept(u)
      /\ Writing(t)' <=> flush[t].meter \in alive
                         /\ (IF t \in Resets THEN "done" ELSE "idle") \in {"open", "write", "rename"}
  BY <1>1, OneFlusher
<1> QED
  BY <1>1, <1>2 DEF FlusherSet

LEMMA MarshalKept ==
    ASSUME MeterTypeOK, NEW t \in Flushers, Marshal(t)
    PROVE  /\ \A u \in Flushers \ {t} : Kept(u)
           /\ ~Writing(t) /\ Writing(t)'
           /\ flush'[t].pc = "open" /\ flush'[t].meter = flush[t].meter
           /\ flush'[t].lost = flush[t].lost /\ flush'[t].buf = mem[flush[t].meter]
<1>1. alive' = alive /\ flush[t].pc = "flush" /\ flush[t].meter \in alive
  BY DEF Marshal, InProgram
<1>2. FlusherSet(t, "open", flush[t].meter, flush[t].lost, mem[flush[t].meter], flush[t].node)
  BY MarshalFlush
<1> QED
  BY <1>1, <1>2, OneFlusher DEF FlusherSet, Writing

LEMMA OpenKept ==
    ASSUME MeterTypeOK, NEW t \in Flushers, Open(t)
    PROVE  /\ \A u \in Flushers \ {t} : Kept(u)
           /\ Writing(t) /\ Writing(t)'
           /\ flush'[t].pc = "write" /\ flush'[t].meter = flush[t].meter
           /\ flush'[t].lost = flush[t].lost /\ flush'[t].buf = flush[t].buf
           /\ flush'[t].node = tmp'
<1>1. alive' = alive /\ Writing(t) /\ flush[t].meter \in alive
  BY DEF Open, memoryVars, InProgram, Writing
<1>2. FlusherSet(t, "write", flush[t].meter, flush[t].lost, flush[t].buf, tmp')
  BY OpenFlush
<1> QED
  BY <1>1, <1>2, OneFlusher DEF FlusherSet

LEMMA WriteFileKept ==
    ASSUME MeterTypeOK, NEW t \in Flushers, WriteFile(t)
    PROVE  /\ \A u \in Flushers \ {t} : Kept(u)
           /\ Writing(t) /\ Writing(t)' /\ flush[t].pc = "write"
           /\ flush'[t].pc = "rename" /\ flush'[t].meter = flush[t].meter
           /\ flush'[t].lost = flush[t].lost /\ flush'[t].buf = flush[t].buf
           /\ flush'[t].node = flush[t].node
<1>1. alive' = alive /\ Writing(t) /\ flush[t].meter \in alive /\ flush[t].pc = "write"
  BY DEF WriteFile, memoryVars, InProgram, Writing
<1>2. FlusherSet(t, "rename", flush[t].meter, flush[t].lost, flush[t].buf, flush[t].node)
  BY WriteFileFlush
<1> QED
  BY <1>1, <1>2, OneFlusher DEF FlusherSet

\* The windows that were hit stay hit.
LEMMA WindowsGrow == [MeterNext]_meterVars => windows \subseteq windows'
<1> SUFFICES ASSUME [MeterNext]_meterVars PROVE windows \subseteq windows'
  OBVIOUS
<1> USE DEF historyVars
<1>1. ASSUME NEW r \in Requests, Serve(r) \/ Record(r) PROVE windows' = windows
  BY <1>1 DEF Serve, Record
<1>2. ASSUME NEW g \in Gens, PersistTick(g) PROVE windows' = windows
  BY <1>2 DEF PersistTick
<1>3. ASSUME NEW t \in Resets, Reset(t) PROVE windows' = windows
  BY <1>3 DEF Reset
<1>4. ASSUME NEW t \in Flushers, FlushStep(t) PROVE windows \subseteq windows'
  BY <1>4 DEF FlushStep, NothingToFlush, Marshal, Open, WriteFile, WriteError, Rename, Hit
<1>5. CASE Reload \/ InstallHandler \/ Crash \/ UNCHANGED meterVars
  BY <1>5 DEF Reload, InstallHandler, Crash, Hit, meterVars
<1> QED
  BY <1>1, <1>2, <1>3, <1>4, <1>5 DEF MeterNext

(***************************************************************************)
(* The file: as long as no two flushes overlapped, one flush writes the    *)
(* temporary file and renames what it wrote.                               *)
(***************************************************************************)
FileInv ==
    "overlap" \notin windows =>
        /\ \A t, u \in Flushers : Writing(t) /\ Writing(u) => t = u
        /\ Contents.kind = "whole"
        /\ \A t \in Flushers : Writing(t) /\ flush[t].pc # "open" =>
              /\ flush[t].node = tmp /\ tmp # NoFile
              /\ data[tmp] = IF flush[t].pc = "write" THEN Empty ELSE Text(flush[t].buf)

LEMMA FileInit == MeterInit => FileInv
<1> SUFFICES ASSUME MeterInit PROVE FileInv
  OBVIOUS
<1>1. \A t \in Flushers : ~Writing(t)
  BY DEF MeterInit, Writing
<1>2. Contents.kind = "whole"
  BY TextFields DEF MeterInit, Contents, Rollups
<1> QED
  BY <1>1, <1>2 DEF FileInv

\* The steps that leave the files alone and begin no flush.
LEMMA FileFrame ==
    ASSUME FileInv, windows \subseteq windows', UNCHANGED <<data, tmp, path>>,
           \A u \in Flushers : Writing(u)' => Writing(u) /\ flush'[u] = flush[u]
    PROVE  FileInv'
<1>1. Contents' = Contents
  BY DEF Contents
<1> QED
  BY <1>1 DEF FileInv

\* A flush whose file is open changes what the temporary name names, and
\* nothing that could be read.
LEMMA OpenDisk ==
    ASSUME MeterTypeOK, NEW t \in Flushers, Open(t)
    PROVE  /\ Contents' = Contents
           /\ tmp' # NoFile /\ data'[tmp'] = Empty
<1>1. /\ tmp' \in Inodes /\ tmp' # path /\ path' = path
      /\ data' = [data EXCEPT ![tmp'] = Empty]
  BY OpenFlush DEF Open
<1>2. tmp' # NoFile /\ data'[tmp'] = Empty
  BY <1>1, MeterConstants DEF MeterTypeOK
<1>3. path # NoFile => data'[path] = data[path]
  BY <1>1 DEF MeterTypeOK
<1> QED
  BY <1>1, <1>2, <1>3 DEF Contents

LEMMA WriteFileDisk ==
    ASSUME MeterTypeOK, FlushersInv, FileInv, "overlap" \notin windows,
           NEW t \in Flushers, WriteFile(t)
    PROVE  /\ Contents' = Contents /\ saved' = saved
           /\ tmp' = tmp /\ tmp # NoFile /\ flush[t].node = tmp
           /\ data'[tmp] = Text(flush[t].buf)
<1>1. Writing(t) /\ flush[t].pc = "write" /\ tmp' = tmp /\ path' = path
  BY WriteFileKept DEF WriteFile
<1>2. flush[t].node = tmp /\ tmp # NoFile /\ data[tmp] = Empty
  BY <1>1 DEF FileInv
<1>3. tmp # path /\ tmp \in Inodes
  BY <1>2 DEF MeterTypeOK
<1>4. PICK result \in {Text(flush[t].buf), Mixed} :
         /\ result = Mixed => data[tmp] \notin {Empty, Text(flush[t].buf)}
         /\ data' = [data EXCEPT ![tmp] = result]
         /\ saved' = IF tmp = path THEN saved \cup result.of ELSE saved
  BY <1>2 DEF WriteFile
<1>5. result = Text(flush[t].buf)
  BY <1>2, <1>4
<1>6. data'[tmp] = Text(flush[t].buf) /\ (path # NoFile => data'[path] = data[path])
  BY <1>3, <1>4, <1>5 DEF MeterTypeOK
<1> QED
  BY <1>1, <1>2, <1>3, <1>4, <1>6 DEF Contents

LEMMA RenameDisk ==
    ASSUME MeterTypeOK, FileInv, "overlap" \notin windows,
           NEW t \in Flushers, Rename(t)
    PROVE  /\ Writing(t) /\ \A u \in Flushers : ~Writing(u)'
           /\ Contents' = Text(flush[t].buf)
           /\ saved' = saved \cup flush[t].buf
<1>1. Writing(t) /\ flush[t].pc = "rename" /\ Finish(t) /\ alive' = alive /\ data' = data
  BY DEF Rename, Writing, memoryVars
<1>2. tmp # NoFile /\ data[tmp] = Text(flush[t].buf)
  BY <1>1 DEF FileInv
<1>3. path' = tmp /\ saved' = saved \cup data[tmp].of
  BY <1>2 DEF Rename
<1>4. Text(flush[t].buf).of = flush[t].buf
  BY FlusherFields, TextFields
<1>5. ASSUME NEW u \in Flushers PROVE ~Writing(u)'
  <2>1. u # t => (Writing(u)' <=> Writing(u))
    BY <1>1, FinishKept DEF Kept
  <2>2. u # t => ~Writing(u)
    BY <1>1 DEF FileInv
  <2>3. ~Writing(t)'
    BY <1>1, FinishKept
  <2> QED
    BY <2>1, <2>2, <2>3
<1>6. Contents' = Text(flush[t].buf)
  BY <1>1, <1>2, <1>3 DEF Contents
<1> QED
  BY <1>1, <1>2, <1>3, <1>4, <1>5, <1>6

\* A flush begins: it hits the window, or nobody is writing.
LEMMA MarshalAlone ==
    ASSUME NEW t \in Flushers, Marshal(t), "overlap" \notin windows'
    PROVE  \A u \in Flushers : ~Writing(u)
BY DEF Marshal

LEMMA FileStep ==
    MeterTypeOK /\ FlushersInv /\ FileInv /\ [MeterNext]_meterVars => FileInv'
<1> SUFFICES ASSUME MeterTypeOK, FlushersInv, FileInv, [MeterNext]_meterVars PROVE FileInv'
  OBVIOUS
<1> USE DEF memoryVars, requestVars, diskVars, historyVars
<1>0. windows \subseteq windows'
  BY WindowsGrow
<1>1. ASSUME \A u \in Flushers : Kept(u), UNCHANGED <<data, tmp, path>> PROVE FileInv'
  BY <1>0, <1>1, FileFrame DEF Kept
<1>2. ASSUME NEW t \in Flushers, \A u \in Flushers \ {t} : Kept(u), ~Writing(t)',
             UNCHANGED <<data, tmp, path>>
      PROVE  FileInv'
  BY <1>0, <1>2, FileFrame DEF Kept
<1>3. ASSUME NEW r \in Requests, Serve(r) \/ Record(r) PROVE FileInv'
  <2>1. flush' = flush /\ alive' = alive /\ UNCHANGED <<data, tmp, path>>
    BY <1>3 DEF Serve, Record
  <2> QED
    BY <1>1, <2>1, AllKept
<1>4. ASSUME NEW g \in Gens, PersistTick(g) PROVE FileInv'
  <2>1. g \in Flushers /\ UNCHANGED <<data, tmp, path>>
    BY <1>4, MeterConstants DEF PersistTick
  <2> QED
    BY <1>2, <1>4, <2>1, PersistTickKept
<1>5. ASSUME NEW t \in Resets, Reset(t) PROVE FileInv'
  <2>1. t \in Flushers /\ UNCHANGED <<data, tmp, path>>
    BY <1>5, MeterConstants DEF Reset
  <2> QED
    BY <1>2, <1>5, <2>1, ResetKept
<1>6. ASSUME NEW t \in Flushers, NothingToFlush(t) \/ WriteError(t) PROVE FileInv'
  <2>1. Finish(t) /\ alive' = alive /\ UNCHANGED <<data, tmp, path>>
    BY <1>6 DEF NothingToFlush, WriteError
  <2> QED
    BY <1>2, <2>1, FinishKept
<1>7. ASSUME NEW t \in Flushers, Marshal(t) PROVE FileInv'
  <2> SUFFICES ASSUME "overlap" \notin windows' PROVE FileInv'
    BY DEF FileInv
  <2>1. \A u \in Flushers : ~Writing(u)
    BY <1>7, MarshalAlone
  <2>2. \A u \in Flushers : Writing(u)' => u = t
    BY <1>7, <2>1, MarshalKept DEF Kept
  <2>3. flush'[t].pc = "open"
    BY <1>7, MarshalKept
  <2>4. Contents' = Contents /\ "overlap" \notin windows
    BY <1>0, <1>7 DEF Marshal, Contents
  <2> QED
    BY <2>2, <2>3, <2>4 DEF FileInv
\* The one that writes goes on.
<1>8. ASSUME NEW t \in Flushers, Open(t) \/ WriteFile(t), "overlap" \notin windows'
      PROVE  /\ \A u \in Flushers : Writing(u)' => u = t
             /\ "overlap" \notin windows
  <2>1. Writing(t) /\ \A u \in Flushers \ {t} : Kept(u)
    BY <1>8, OpenKept, WriteFileKept
  <2>2. \A u \in Flushers : Writing(u) => u = t
    BY <1>0, <1>8, <2>1 DEF FileInv
  <2> QED
    BY <1>0, <1>8, <2>1, <2>2 DEF Kept
<1>9. ASSUME NEW t \in Flushers, Open(t) PROVE FileInv'
  <2> SUFFICES ASSUME "overlap" \notin windows' PROVE FileInv'
    BY DEF FileInv
  <2>1. (\A u \in Flushers : Writing(u)' => u = t) /\ "overlap" \notin windows
    BY <1>8, <1>9
  <2>2. flush'[t].pc = "write" /\ flush'[t].node = tmp'
    BY <1>9, OpenKept
  <2>3. Contents' = Contents /\ tmp' # NoFile /\ data'[tmp'] = Empty
    BY <1>9, OpenDisk
  <2> QED
    BY <2>1, <2>2, <2>3 DEF FileInv
<1>10. ASSUME NEW t \in Flushers, WriteFile(t) PROVE FileInv'
  <2> SUFFICES ASSUME "overlap" \notin windows' PROVE FileInv'
    BY DEF FileInv
  <2>1. (\A u \in Flushers : Writing(u)' => u = t) /\ "overlap" \notin windows
    BY <1>8, <1>10
  <2>2. flush'[t].pc = "rename" /\ flush'[t].node = flush[t].node /\ flush'[t].buf = flush[t].buf
    BY <1>10, WriteFileKept
  <2>3. /\ Contents' = Contents /\ tmp' = tmp /\ tmp # NoFile /\ flush[t].node = tmp
        /\ data'[tmp] = Text(flush[t].buf)
    BY <1>10, <2>1, WriteFileDisk
  <2>4. Text(flush[t].buf)' = Text(flush[t].buf)
    BY <2>2 DEF Text
  <2> QED
    BY <2>1, <2>2, <2>3, <2>4 DEF FileInv, Text
<1>11. ASSUME NEW t \in Flushers, Rename(t) PROVE FileInv'
  <2> SUFFICES ASSUME "overlap" \notin windows PROVE FileInv'
    BY <1>0 DEF FileInv
  <2>1. (\A u \in Flushers : ~Writing(u)') /\ Contents' = Text(flush[t].buf)
    BY <1>11, RenameDisk
  <2>2. Text(flush[t].buf).kind = "whole"
    BY FlusherFields, TextFields
  <2> QED
    BY <2>1, <2>2 DEF FileInv
<1>12. CASE Reload
  <2>1. flush' = flush /\ alive' = alive \cup {created + 1} /\ UNCHANGED <<data, tmp, path>>
    BY <1>12 DEF Reload
  <2> QED
    BY <1>1, <2>1, AllKept
<1>13. CASE InstallHandler \/ UNCHANGED meterVars
  <2>1. flush' = flush /\ alive' = alive /\ UNCHANGED <<data, tmp, path>>
    BY <1>13 DEF InstallHandler, meterVars
  <2> QED
    BY <1>1, <2>1, AllKept
<1>14. CASE Crash
  <2>1. flush' = flush /\ alive' = {created + 1} /\ UNCHANGED <<data, tmp, path>>
    BY <1>14 DEF Crash
  <2>2. \A u \in Flushers : ~Writing(u)'
    BY <2>1, NoneKept
  <2> QED
    BY <1>0, <2>1, <2>2, FileFrame
<1> QED
  BY <1>3, <1>4, <1>5, <1>6, <1>7, <1>9, <1>10, <1>11, <1>12, <1>13, <1>14 DEF MeterNext, FlushStep

(***************************************************************************)
(* What was saved: until a reset it stays in the file, in the newest meter *)
(* and in what is being written.                                           *)
(***************************************************************************)
SavedInv ==
    windows \cap {"overlap", "older"} = {} =>
        /\ saved \ Removed \subseteq Contents.of
        /\ saved \ Removed \subseteq mem[created]
        /\ \A t \in Flushers : Writing(t) =>
              /\ flush[t].meter = created
              /\ saved \ Removed \subseteq flush[t].buf
              /\ flush[t].buf \subseteq mem[created] \cup Removed

LEMMA SavedInit == MeterInit => SavedInv
<1> SUFFICES ASSUME MeterInit PROVE SavedInv
  OBVIOUS
<1>1. (\A t \in Flushers : ~Writing(t)) /\ saved = {}
  BY DEF MeterInit, Writing
<1> QED
  BY <1>1 DEF SavedInv

LEMMA RemovedSame ==
    ASSUME \A t \in Resets : flush'[t].lost = flush[t].lost
    PROVE  Removed' = Removed
BY DEF Removed

\* A flusher that is kept, or a flush step, leaves what was removed as it is.
LEMMA RemovedKept ==
    ASSUME NEW t, \A u \in Flushers \ {t} : Kept(u), flush'[t].lost = flush[t].lost
    PROVE  Removed' = Removed
BY RemovedSame, MeterConstants DEF Kept

\* A reset removes what its meter holds.
LEMMA RemovedGrows ==
    ASSUME MeterTypeOK, FlushersInv, NEW t \in Resets, Reset(t)
    PROVE  Removed' = Removed \cup mem[serving]
<1>1. flush[t].lost = {} /\ flush'[t].lost = mem[serving]
  BY ResetKept DEF Reset, FlushersInv
<1>2. \A u \in Resets \ {t} : flush'[u].lost = flush[u].lost
  BY ResetKept, MeterConstants DEF Kept
<1>3. ASSUME NEW r PROVE r \in Removed' <=> r \in Removed \/ r \in mem[serving]
  BY <1>1, <1>2 DEF Removed
<1> QED
  BY <1>3

\* The steps that change neither what can be read nor the newest meter, or only
\* add to it, and begin no flush.
LEMMA SavedFrame ==
    ASSUME SavedInv, windows \subseteq windows',
           saved' = saved, created' = created, Removed' = Removed, Contents' = Contents,
           mem[created] \subseteq mem'[created],
           \A u \in Flushers : Writing(u)' => /\ Writing(u)
                                              /\ flush'[u].meter = flush[u].meter
                                              /\ flush'[u].buf = flush[u].buf
    PROVE  SavedInv'
BY DEF SavedInv

LEMMA SavedStep ==
    /\ MeterTypeOK /\ FlushersInv /\ FileInv /\ SavedInv
    /\ [MeterNext]_meterVars
    => SavedInv'
<1> SUFFICES ASSUME MeterTypeOK, FlushersInv, FileInv, SavedInv, [MeterNext]_meterVars
             PROVE  SavedInv'
  OBVIOUS
<1> USE DEF memoryVars, requestVars, diskVars, historyVars
<1>0. windows \subseteq windows'
  BY WindowsGrow
<1>1. ASSUME \A u \in Flushers : Kept(u), UNCHANGED <<saved, created, data, path>>,
             mem[created] \subseteq mem'[created]
      PROVE  SavedInv'
  <2>1. Removed' = Removed
    BY <1>1, RemovedSame, MeterConstants DEF Kept
  <2>2. Contents' = Contents
    BY <1>1 DEF Contents
  <2> QED
    BY <1>0, <1>1, <2>1, <2>2, SavedFrame DEF Kept
<1>2. ASSUME NEW t \in Flushers, \A u \in Flushers \ {t} : Kept(u),
             flush'[t].lost = flush[t].lost, UNCHANGED <<saved, created, mem>>, Contents' = Contents,
             Writing(t)' => Writing(t) /\ flush'[t].meter = flush[t].meter
                                       /\ flush'[t].buf = flush[t].buf
      PROVE  SavedInv'
  <2>1. Removed' = Removed
    BY <1>2, RemovedKept
  <2> QED
    BY <1>0, <1>2, <2>1, SavedFrame DEF Kept
<1>3. ASSUME NEW r \in Requests, Serve(r) \/ Record(r) PROVE SavedInv'
  <2>1. /\ flush' = flush /\ alive' = alive /\ UNCHANGED <<saved, created, data, path>>
        /\ mem[created] \subseteq mem'[created]
    BY <1>3, MeterFields DEF Serve, Record, MeterTypeOK
  <2> QED
    BY <1>1, <2>1, AllKept
<1>4. ASSUME NEW g \in Gens, PersistTick(g) PROVE SavedInv'
  <2>1. g \in Flushers /\ UNCHANGED <<saved, created, mem>> /\ Contents' = Contents
    BY <1>4, MeterConstants DEF PersistTick, Contents
  <2> QED
    BY <1>2, <1>4, <2>1, PersistTickKept
<1>5. ASSUME NEW t \in Resets, Reset(t) PROVE SavedInv'
  <2> SUFFICES ASSUME windows \cap {"overlap", "older"} = {} PROVE SavedInv'
    BY <1>0 DEF SavedInv
  <2>1. t \in Flushers /\ UNCHANGED <<saved, created>> /\ Contents' = Contents
    BY <1>5, MeterConstants DEF Reset, Contents
  <2>2. Removed' = Removed \cup mem[serving]
    BY <1>5, RemovedGrows
  <2>3. mem[created] \subseteq mem'[created] \cup mem[serving]
    BY <1>5, MeterFields DEF Reset, MeterTypeOK
  <2>4. \A u \in Flushers : Writing(u)' => Writing(u) /\ flush'[u] = flush[u]
    BY <1>5, ResetKept DEF Kept
  <2> QED
    BY <2>1, <2>2, <2>3, <2>4 DEF SavedInv
<1>6. ASSUME NEW t \in Flushers, NothingToFlush(t) \/ WriteError(t) PROVE SavedInv'
  <2>1. Finish(t) /\ alive' = alive /\ UNCHANGED <<saved, created, mem>> /\ Contents' = Contents
    BY <1>6 DEF NothingToFlush, WriteError, Contents
  <2> QED
    BY <1>2, <2>1, FinishKept
\* The newest meter is written: it holds what was saved.
<1>7. ASSUME NEW t \in Flushers, Marshal(t) PROVE SavedInv'
  <2> SUFFICES ASSUME windows' \cap {"overlap", "older"} = {} PROVE SavedInv'
    BY DEF SavedInv
  <2>1. \A u \in Flushers : ~Writing(u)
    BY <1>7, MarshalAlone
  <2>2. flush[t].meter = created
    <3>1. ~(flush[t].meter < created)
      BY <1>7 DEF Marshal
    <3>2. flush[t].meter \in alive
      BY <1>7 DEF Marshal, InProgram
    <3>3. flush[t].meter \in Nat /\ flush[t].meter <= created /\ created \in Nat
      BY <3>2, MeterFields
    <3> QED
      BY <3>1, <3>3
  <2>3. \A u \in Flushers : Writing(u)' => u = t
    BY <1>7, <2>1, MarshalKept DEF Kept
  <2>4. flush'[t].meter = created /\ flush'[t].buf = mem[created]
    BY <1>7, <2>2, MarshalKept
  <2>5. Removed' = Removed
    BY <1>7, MarshalKept, RemovedKept
  <2>6. UNCHANGED <<saved, created, mem>> /\ Contents' = Contents
    BY <1>7 DEF Marshal, Contents
  <2>7. windows \cap {"overlap", "older"} = {}
    BY <1>0
  <2> QED
    BY <2>3, <2>4, <2>5, <2>6, <2>7 DEF SavedInv
<1>8. ASSUME NEW t \in Flushers, Open(t) PROVE SavedInv'
  <2>1. UNCHANGED <<saved, created, mem>>
    BY <1>8 DEF Open
  <2> QED
    BY <1>2, <1>8, <2>1, OpenKept, OpenDisk
<1>9. ASSUME NEW t \in Flushers, WriteFile(t) PROVE SavedInv'
  <2> SUFFICES ASSUME windows' \cap {"overlap", "older"} = {} PROVE SavedInv'
    BY DEF SavedInv
  <2>1. "overlap" \notin windows
    BY <1>0
  <2>2. Contents' = Contents /\ saved' = saved
    BY <1>9, <2>1, WriteFileDisk
  <2>3. UNCHANGED <<created, mem>>
    BY <1>9 DEF WriteFile
  <2> QED
    BY <1>2, <1>9, <2>2, <2>3, WriteFileKept
\* What was written becomes the file; nobody else writes.
<1>10. ASSUME NEW t \in Flushers, Rename(t) PROVE SavedInv'
  <2> SUFFICES ASSUME windows' \cap {"overlap", "older"} = {} PROVE SavedInv'
    BY DEF SavedInv
  <2>1. windows \cap {"overlap", "older"} = {} /\ "overlap" \notin windows
    BY <1>0
  <2>2. /\ Writing(t) /\ \A u \in Flushers : ~Writing(u)'
        /\ Contents' = Text(flush[t].buf) /\ saved' = saved \cup flush[t].buf
    BY <1>10, <2>1, RenameDisk
  <2>3. Text(flush[t].buf).of = flush[t].buf
    BY FlusherFields, TextFields
  <2>4. UNCHANGED <<created, mem>> /\ Finish(t) /\ alive' = alive
    BY <1>10 DEF Rename
  <2>5. Removed' = Removed
    BY <2>4, FinishKept, RemovedKept
  <2>6. /\ saved \ Removed \subseteq flush[t].buf /\ saved \ Removed \subseteq mem[created]
        /\ flush[t].buf \subseteq mem[created] \cup Removed
    BY <2>1, <2>2 DEF SavedInv
  <2>7. saved' \ Removed' \subseteq Contents'.of /\ saved' \ Removed' \subseteq mem'[created']
    BY <2>2, <2>3, <2>4, <2>5, <2>6
  <2> QED
    BY <2>2, <2>7 DEF SavedInv
\* A manager that is created loads the file; nobody writes.
<1>11. ASSUME NewManager, flush' = flush, UNCHANGED <<saved, data, path>>,
              windows' \cap {"overlap", "older"} = {} => \A u \in Flushers : ~Writing(u)'
       PROVE  SavedInv'
  <2> SUFFICES ASSUME windows' \cap {"overlap", "older"} = {} PROVE SavedInv'
    BY DEF SavedInv
  <2>1. Removed' = Removed
    BY <1>11, RemovedSame
  <2>2. Contents' = Contents
    BY <1>11 DEF Contents
  <2>3. mem'[created'] = Contents.of
    BY <1>11, MeterFields DEF NewManager, Load, MeterTypeOK
  <2>4. saved \ Removed \subseteq Contents.of
    BY <1>0 DEF SavedInv
  <2> QED
    BY <1>11, <2>1, <2>2, <2>3, <2>4 DEF SavedInv
<1>12. CASE Reload
  <2>1. /\ NewManager /\ flush' = flush /\ alive' = alive \cup {created + 1}
        /\ UNCHANGED <<saved, data, path>>
    BY <1>12 DEF Reload
  <2>2. "older" \notin windows' => \A u \in Flushers : ~Writing(u)
    BY <1>12 DEF Reload, Hit
  <2>3. \A u \in Flushers : Writing(u)' => Writing(u)
    BY <2>1, AllKept DEF Kept
  <2> QED
    BY <1>11, <2>1, <2>2, <2>3
<1>13. CASE Crash
  <2>1. /\ NewManager /\ flush' = flush /\ alive' = {created + 1}
        /\ UNCHANGED <<saved, data, path>>
    BY <1>13 DEF Crash
  <2> QED
    BY <1>11, <2>1, NoneKept
<1>14. CASE InstallHandler \/ UNCHANGED meterVars
  <2>1. /\ flush' = flush /\ alive' = alive /\ UNCHANGED <<saved, created, data, path>>
        /\ mem[created] \subseteq mem'[created]
    BY <1>14 DEF InstallHandler, meterVars
  <2> QED
    BY <1>1, <2>1, AllKept
<1> QED
  BY <1>3, <1>4, <1>5, <1>6, <1>7, <1>8, <1>9, <1>10, <1>12, <1>13, <1>14 DEF MeterNext, FlushStep

(***************************************************************************)
(* What was reset: once the emptied rollup was marshalled, nothing that is *)
(* written or read again holds it.                                         *)
(***************************************************************************)
\* Neither the meters nor the flush under way hold what t removed; nor does the
\* file, unless that flush is about to replace it.
Forgotten(t) ==
    /\ flush[t].lost \cap (mem[serving] \cup mem[created]) = {}
    /\ \A u \in Flushers : Writing(u) => flush[t].lost \cap flush[u].buf = {}
    /\ (\A u \in Flushers : ~Writing(u)) => flush[t].lost \cap Contents.of = {}

\* How far reset t is.
ResetKeeps(t) ==
    /\ flush[t].pc = "done" => Forgotten(t) /\ flush[t].lost \cap Contents.of = {}
    /\ flush[t].pc = "flush" /\ InProgram(t) =>
          /\ flush[t].lost \cap mem[flush[t].meter] = {}
          /\ dirty[flush[t].meter] \/ Forgotten(t)
    /\ Writing(t) => Forgotten(t)

ResetInv ==
    windows \cap {"overlap", "older", "failed"} = {} => \A t \in Resets : ResetKeeps(t)

LEMMA ResetInit == MeterInit => ResetInv
<1> SUFFICES ASSUME MeterInit PROVE ResetInv
  OBVIOUS
<1>1. \A t \in Resets : flush[t].pc = "idle"
  BY MeterConstants DEF MeterInit
<1> QED
  BY <1>1 DEF ResetInv, ResetKeeps, Writing

\* The same flushes write the same bytes.
SameBytes ==
    \A u \in Flushers : (Writing(u)' <=> Writing(u)) /\ (Writing(u) => flush'[u].buf = flush[u].buf)

LEMMA ForgottenFrame ==
    ASSUME NEW t, Forgotten(t), flush'[t].lost = flush[t].lost, Contents' = Contents, SameBytes,
           flush[t].lost \cap (mem'[serving'] \cup mem'[created']) = {}
    PROVE  Forgotten(t)'
BY DEF Forgotten, SameBytes

\* A reset that is not the one that steps.
LEMMA ResetFrame ==
    ASSUME NEW t \in Resets, ResetKeeps(t), Kept(t), Contents' = Contents,
           Forgotten(t) => Forgotten(t)',
           flush[t].pc = "flush" /\ InProgram(t) =>
              /\ flush[t].lost \cap mem'[flush[t].meter] = {}
              /\ dirty[flush[t].meter] => dirty'[flush[t].meter] \/ Forgotten(t)'
    PROVE  ResetKeeps(t)'
BY DEF ResetKeeps, Kept

\* The meters stay or lose requests, and stay dirty.
LEMMA ResetQuiet ==
    ASSUME NEW t \in Resets, ResetKeeps(t), Kept(t), Contents' = Contents, SameBytes,
           FlushersInv, MeterTypeOK,
           \A g \in Gens : mem'[g] \cap flush[t].lost \subseteq mem[g] /\ (dirty[g] => dirty'[g]),
           created' = created, serving' \in {serving, created}
    PROVE  ResetKeeps(t)'
<1>1. flush'[t].lost = flush[t].lost /\ serving' \in Gens /\ serving \in Gens /\ created \in Gens
  BY MeterFields DEF Kept
<1>2. Forgotten(t) => Forgotten(t)'
  <2> SUFFICES ASSUME Forgotten(t) PROVE Forgotten(t)'
    OBVIOUS
  <2>1. flush[t].lost \cap (mem[serving] \cup mem[created]) = {}
    BY DEF Forgotten
  <2>2. mem'[serving'] \cap flush[t].lost \subseteq mem[serving']
        /\ mem'[created] \cap flush[t].lost \subseteq mem[created]
    BY <1>1
  <2>3. flush[t].lost \cap (mem'[serving'] \cup mem'[created']) = {}
    BY <2>1, <2>2
  <2> QED
    BY <1>1, <2>3, ForgottenFrame
<1>3. ASSUME flush[t].pc = "flush", InProgram(t)
      PROVE  /\ flush[t].lost \cap mem'[flush[t].meter] = {}
             /\ dirty[flush[t].meter] => dirty'[flush[t].meter]
  <2>1. flush[t].meter \in Gens
    BY <1>3, MeterFields DEF InProgram
  <2>2. flush[t].lost \cap mem[flush[t].meter] = {}
    BY <1>3 DEF ResetKeeps
  <2>3. /\ mem'[flush[t].meter] \cap flush[t].lost \subseteq mem[flush[t].meter]
        /\ dirty[flush[t].meter] => dirty'[flush[t].meter]
    BY <2>1
  <2> QED
    BY <2>2, <2>3
<1> QED
  BY <1>2, <1>3, ResetFrame

LEMMA SameBytesKept == ASSUME \A u \in Flushers : Kept(u) PROVE SameBytes
BY DEF SameBytes, Kept

LEMMA SameBytesStep ==
    ASSUME NEW t \in Flushers, \A u \in Flushers \ {t} : Kept(u),
           Writing(t)' <=> Writing(t), Writing(t) => flush'[t].buf = flush[t].buf
    PROVE  SameBytes
BY DEF SameBytes, Kept

\* A reset that removes what its meter holds leaves nothing of it there.
LEMMA ResetResets ==
    ASSUME MeterTypeOK, FlushersInv, \A u \in Resets : ResetKeeps(u), NEW t \in Resets, Reset(t)
    PROVE  \A u \in Resets : ResetKeeps(u)'
<1>1. /\ t \in Flushers /\ serving \in Gens
      /\ mem' = [mem EXCEPT ![serving] = {}] /\ dirty' = [dirty EXCEPT ![serving] = TRUE]
      /\ created' = created /\ serving' = serving /\ Contents' = Contents
  BY MeterConstants, MeterFields DEF Reset, Contents, diskVars
<1>2. /\ \A u \in Flushers \ {t} : Kept(u)
      /\ ~Writing(t) /\ ~Writing(t)'
      /\ flush'[t].pc = "flush" /\ flush'[t].meter = serving /\ flush'[t].lost = mem[serving]
  BY ResetKept
<1>3. SameBytes
  BY <1>1, <1>2, SameBytesStep
<1>4. \A g \in Gens : mem'[g] \subseteq mem[g] /\ (dirty[g] => dirty'[g])
  BY <1>1 DEF MeterTypeOK
<1>5. mem'[serving] = {} /\ dirty'[serving]
  BY <1>1 DEF MeterTypeOK
<1>6. ResetKeeps(t)'
  <2>1. flush'[t].lost \cap mem'[flush'[t].meter] = {} /\ dirty'[flush'[t].meter]
    BY <1>2, <1>5
  <2> QED
    BY <1>2, <2>1 DEF ResetKeeps
<1>7. ASSUME NEW u \in Resets, u # t PROVE ResetKeeps(u)'
  <2>1. Kept(u) /\ ResetKeeps(u)
    BY <1>2, <1>7, MeterConstants
  <2>2. \A g \in Gens : mem'[g] \cap flush[u].lost \subseteq mem[g] /\ (dirty[g] => dirty'[g])
    BY <1>4
  <2> QED
    BY <1>1, <1>3, <2>1, <2>2, ResetQuiet
<1> QED
  BY <1>6, <1>7

\* A reset that finds its meter written already answers: what it removed was gone
\* when the other flush marshalled, and that flush is over.
LEMMA NothingToFlushResets ==
    ASSUME MeterTypeOK, FlushersInv, \A u \in Resets : ResetKeeps(u),
           NEW t \in Flushers, NothingToFlush(t), "overlap" \notin windows'
    PROVE  \A u \in Resets : ResetKeeps(u)'
<1>1. /\ flush[t].pc = "flush" /\ InProgram(t) /\ ~dirty[flush[t].meter] /\ Finish(t)
      /\ alive' = alive /\ created' = created /\ serving' = serving /\ mem' = mem /\ dirty' = dirty
      /\ Contents' = Contents
      /\ t \in Resets => \A u \in Flushers : ~Writing(u)
  BY DEF NothingToFlush, Hit, Contents, memoryVars, diskVars
<1>2. /\ \A u \in Flushers \ {t} : Kept(u)
      /\ ~Writing(t)' /\ flush'[t].lost = flush[t].lost
      /\ flush'[t].pc = IF t \in Resets THEN "done" ELSE "idle"
  BY <1>1, FinishKept
<1>3. ~Writing(t)
  BY <1>1 DEF Writing
<1>4. SameBytes
  BY <1>2, <1>3, SameBytesStep
<1>5. ASSUME t \in Resets PROVE ResetKeeps(t)'
  <2>1. Forgotten(t)
    BY <1>1, <1>5 DEF ResetKeeps
  <2>2. flush[t].lost \cap Contents.of = {} /\ flush[t].lost \cap (mem[serving] \cup mem[created]) = {}
    BY <1>1, <1>5, <2>1 DEF Forgotten
  <2>3. Forgotten(t)'
    BY <1>1, <1>2, <1>4, <2>1, <2>2, ForgottenFrame
  <2>4. flush'[t].lost \cap Contents'.of = {} /\ flush'[t].pc = "done"
    BY <1>1, <1>2, <1>5, <2>2
  <2> QED
    BY <1>2, <2>3, <2>4 DEF ResetKeeps
<1>6. ASSUME NEW u \in Resets, u # t PROVE ResetKeeps(u)'
  <2>1. Kept(u) /\ ResetKeeps(u)
    BY <1>2, <1>6, MeterConstants
  <2>2. \A g \in Gens : mem'[g] \cap flush[u].lost \subseteq mem[g] /\ (dirty[g] => dirty'[g])
    BY <1>1
  <2> QED
    BY <1>1, <1>4, <2>1, <2>2, ResetQuiet
<1> QED
  BY <1>5, <1>6

\* The newest meter is marshalled, which holds nothing that a reset of it removed.
LEMMA MarshalResets ==
    ASSUME MeterTypeOK, FlushersInv, \A u \in Resets : ResetKeeps(u),
           NEW t \in Flushers, Marshal(t), windows' \cap {"overlap", "older"} = {}
    PROVE  \A u \in Resets : ResetKeeps(u)'
<1>1. /\ \A u \in Flushers \ {t} : Kept(u)
      /\ Writing(t)' /\ flush'[t].pc = "open"
      /\ flush'[t].lost = flush[t].lost /\ flush'[t].buf = mem[flush[t].meter]
  BY MarshalKept
<1>2. \A u \in Flushers : ~Writing(u)
  BY MarshalAlone
<1>3. flush[t].pc = "flush" /\ InProgram(t)
      /\ created' = created /\ serving' = serving /\ mem' = mem
      /\ dirty' = [dirty EXCEPT ![flush[t].meter] = FALSE] /\ Contents' = Contents
  BY DEF Marshal, Contents, diskVars
<1>4. flush[t].meter = created
  <2>1. ~(flush[t].meter < created)
    BY DEF Marshal
  <2>2. flush[t].meter \in Nat /\ flush[t].meter <= created /\ created \in Nat
    BY <1>3, MeterFields DEF InProgram
  <2> QED
    BY <2>1, <2>2
<1>5. \A u \in Flushers : Writing(u)' => u = t
  BY <1>1, <1>2 DEF Kept
<1>6. ASSUME NEW u \in Resets, flush[u].lost \cap (mem[serving] \cup mem[created]) = {}
      PROVE  Forgotten(u)'
  <2>1. flush'[u].lost = flush[u].lost
    BY <1>1, MeterConstants DEF Kept
  <2>2. \A v \in Flushers : Writing(v)' => flush'[u].lost \cap flush'[v].buf = {}
    BY <1>1, <1>4, <1>5, <1>6, <2>1
  <2> QED
    BY <1>1, <1>3, <1>6, <2>1, <2>2 DEF Forgotten
\* A reset whose meter is the newest is one of the meter that serves.
<1>7. ASSUME NEW u \in Resets, flush[u].pc = "flush", InProgram(u), flush[u].meter = created
      PROVE  Forgotten(u)'
  <2>1. flush[u].lost \cap mem[created] = {}
    BY <1>7 DEF ResetKeeps
  <2>2. serving = created
    BY <1>7, MeterFields DEF FlushersInv
  <2> QED
    BY <1>6, <2>1, <2>2
<1>8. ASSUME t \in Resets PROVE ResetKeeps(t)'
  <2>1. Forgotten(t)'
    BY <1>3, <1>4, <1>7, <1>8
  <2> QED
    BY <1>1, <2>1 DEF ResetKeeps
<1>9. ASSUME NEW u \in Resets, u # t PROVE ResetKeeps(u)'
  <2>1. Kept(u) /\ ResetKeeps(u)
    BY <1>1, <1>9, MeterConstants
  <2>2. Forgotten(u) => Forgotten(u)'
    BY <1>6 DEF Forgotten
  <2>3. ASSUME flush[u].pc = "flush", InProgram(u)
        PROVE  /\ flush[u].lost \cap mem'[flush[u].meter] = {}
               /\ dirty[flush[u].meter] => dirty'[flush[u].meter] \/ Forgotten(u)'
    <3>1. flush[u].lost \cap mem'[flush[u].meter] = {}
      BY <1>3, <2>1, <2>3 DEF ResetKeeps
    <3>2. CASE flush[u].meter = created
      BY <1>7, <2>3, <3>1, <3>2
    <3>3. CASE flush[u].meter # created
      BY <1>3, <1>4, <2>3, <3>1, <3>3, MeterFields DEF InProgram, MeterTypeOK
    <3> QED
      BY <3>2, <3>3
  <2> QED
    BY <1>3, <2>1, <2>2, <2>3, ResetFrame
<1> QED
  BY <1>8, <1>9

\* What was written becomes the file, and nothing else is being written.
LEMMA RenameResets ==
    ASSUME MeterTypeOK, FlushersInv, FileInv, \A u \in Resets : ResetKeeps(u),
           NEW t \in Flushers, Rename(t), "overlap" \notin windows
    PROVE  \A u \in Resets : ResetKeeps(u)'
<1>1. /\ Writing(t) /\ \A u \in Flushers : ~Writing(u)'
      /\ Contents' = Text(flush[t].buf)
  BY RenameDisk
<1>2. Text(flush[t].buf).of = flush[t].buf
  BY FlusherFields, TextFields
<1>3. Finish(t) /\ alive' = alive /\ created' = created /\ serving' = serving
      /\ mem' = mem /\ dirty' = dirty
  BY DEF Rename, memoryVars
<1>4. /\ \A u \in Flushers \ {t} : Kept(u)
      /\ flush'[t].lost = flush[t].lost
      /\ flush'[t].pc = IF t \in Resets THEN "done" ELSE "idle"
  BY <1>3, FinishKept
<1>5. ASSUME NEW u \in Resets, Forgotten(u)
      PROVE  Forgotten(u)' /\ flush'[u].lost \cap Contents'.of = {}
  <2>1. flush'[u].lost = flush[u].lost
    BY <1>4, MeterConstants DEF Kept
  <2>2. flush[u].lost \cap flush[t].buf = {}
    BY <1>1, <1>5 DEF Forgotten
  <2>3. flush'[u].lost \cap Contents'.of = {}
    BY <1>1, <1>2, <2>1, <2>2
  <2>4. flush'[u].lost \cap (mem'[serving'] \cup mem'[created']) = {}
    BY <1>3, <1>5, <2>1 DEF Forgotten
  <2> QED
    BY <1>1, <2>3, <2>4 DEF Forgotten
<1>6. ASSUME t \in Resets PROVE ResetKeeps(t)'
  <2>1. Forgotten(t)
    BY <1>1, <1>6 DEF ResetKeeps
  <2>2. flush'[t].pc = "done"
    BY <1>4, <1>6
  <2> QED
    BY <1>1, <1>5, <1>6, <2>1, <2>2 DEF ResetKeeps
<1>7. ASSUME NEW u \in Resets, u # t PROVE ResetKeeps(u)'
  <2>1. Kept(u) /\ ResetKeeps(u)
    BY <1>4, <1>7, MeterConstants
  <2>2. Forgotten(u) => Forgotten(u)' /\ flush'[u].lost \cap Contents'.of = {}
    BY <1>5
  <2> QED
    BY <1>1, <1>3, <2>1, <2>2 DEF ResetKeeps, Kept
<1> QED
  BY <1>6, <1>7

\* A manager loads the file.
LEMMA ReloadResets ==
    ASSUME MeterTypeOK, FlushersInv, \A u \in Resets : ResetKeeps(u),
           Reload, "older" \notin windows'
    PROVE  \A u \in Resets : ResetKeeps(u)'
<1>1. /\ NewManager /\ flush' = flush /\ alive' = alive \cup {created + 1}
      /\ serving' = serving /\ dirty' = dirty /\ Contents' = Contents
      /\ \A u \in Flushers : ~Writing(u)
  BY DEF Reload, Hit, Contents, diskVars
<1>2. \A u \in Flushers : Kept(u)
  BY <1>1, AllKept
<1>3. mem'[created'] = Contents.of /\ \A g \in 1 .. created : mem'[g] = mem[g]
  BY <1>1, MeterFields DEF NewManager, Load, MeterTypeOK
<1>4. serving \in 1 .. created /\ \A g \in alive : g \in 1 .. created
  BY DEF MeterTypeOK
<1> TAKE u \in Resets
<1>5. Kept(u) /\ ResetKeeps(u) /\ SameBytes /\ flush'[u].lost = flush[u].lost
  BY <1>2, SameBytesKept, MeterConstants DEF Kept
<1>6. Forgotten(u) => Forgotten(u)'
  <2> SUFFICES ASSUME Forgotten(u) PROVE Forgotten(u)'
    OBVIOUS
  <2>1. flush[u].lost \cap Contents.of = {} /\ flush[u].lost \cap mem[serving] = {}
    BY <1>1 DEF Forgotten
  <2>2. flush[u].lost \cap (mem'[serving'] \cup mem'[created']) = {}
    BY <1>1, <1>3, <1>4, <2>1
  <2> QED
    BY <1>1, <1>5, <2>2, ForgottenFrame
<1>7. flush[u].pc = "flush" /\ InProgram(u) => mem'[flush[u].meter] = mem[flush[u].meter]
  BY <1>3, <1>4 DEF InProgram
<1>8. flush[u].pc = "flush" /\ InProgram(u) => flush[u].lost \cap mem'[flush[u].meter] = {}
  BY <1>5, <1>7 DEF ResetKeeps
<1> QED
  BY <1>1, <1>5, <1>6, <1>8, ResetFrame

LEMMA CrashResets ==
    ASSUME MeterTypeOK, FlushersInv, \A u \in Resets : ResetKeeps(u), Crash
    PROVE  \A u \in Resets : ResetKeeps(u)'
<1>1. /\ NewManager /\ flush' = flush /\ alive' = {created + 1} /\ serving' = created + 1
      /\ created' = created + 1 /\ Contents' = Contents
  BY DEF Crash, NewManager, Contents, diskVars
<1>2. mem'[created'] = Contents.of
  BY <1>1, MeterFields DEF NewManager, Load, MeterTypeOK
<1>3. \A u \in Flushers : ~Writing(u)' /\ (flush[u].pc # "idle" => ~InProgram(u)')
  BY <1>1, NoneKept
<1> TAKE u \in Resets
<1>4. u \in Flushers /\ ~Writing(u)' /\ (flush[u].pc = "flush" => ~InProgram(u)')
  BY <1>3, MeterConstants
<1>5. ASSUME flush[u].pc = "done" PROVE Forgotten(u)' /\ flush[u].lost \cap Contents.of = {}
  <2>1. flush[u].lost \cap Contents.of = {}
    BY <1>5 DEF ResetKeeps
  <2>2. flush'[u].lost \cap (mem'[serving'] \cup mem'[created']) = {} /\ flush'[u].lost \cap Contents'.of = {}
    BY <1>1, <1>2, <2>1
  <2> QED
    BY <1>3, <2>1, <2>2 DEF Forgotten
<1> QED
  BY <1>1, <1>4, <1>5 DEF ResetKeeps

LEMMA ResetStep ==
    /\ MeterTypeOK /\ FlushersInv /\ KnownInv /\ FileInv /\ ResetInv
    /\ [MeterNext]_meterVars
    => ResetInv'
<1> SUFFICES ASSUME MeterTypeOK, FlushersInv, KnownInv, FileInv, ResetInv, [MeterNext]_meterVars,
                    windows' \cap {"overlap", "older", "failed"} = {}
             PROVE  \A u \in Resets : ResetKeeps(u)'
  BY DEF ResetInv
<1> USE DEF memoryVars, requestVars, diskVars, historyVars
<1>0. windows \cap {"overlap", "older", "failed"} = {} /\ \A u \in Resets : ResetKeeps(u)
  BY WindowsGrow DEF ResetInv
<1>1. ASSUME \A u \in Flushers : Kept(u), Contents' = Contents, created' = created,
             serving' \in {serving, created},
             \A u \in Resets : \A g \in Gens : mem'[g] \cap flush[u].lost \subseteq mem[g],
             \A g \in Gens : dirty[g] => dirty'[g]
      PROVE  \A u \in Resets : ResetKeeps(u)'
  BY <1>0, <1>1, SameBytesKept, ResetQuiet, MeterConstants
<1>2. ASSUME NEW r \in Requests, Serve(r) PROVE \A u \in Resets : ResetKeeps(u)'
  <2>1. /\ flush' = flush /\ alive' = alive /\ Contents' = Contents
        /\ created' = created /\ serving' = serving /\ mem' = mem /\ dirty' = dirty
    BY <1>2 DEF Serve, Contents
  <2> QED
    BY <1>1, <2>1, AllKept
\* A request that was reset was recorded before, and is not recorded again.
<1>3. ASSUME NEW r \in Requests, Record(r) PROVE \A u \in Resets : ResetKeeps(u)'
  <2>1. /\ flush' = flush /\ alive' = alive /\ Contents' = Contents
        /\ created' = created /\ serving' = serving /\ r \notin recorded
        /\ mem' = [mem EXCEPT ![served[r]] = @ \cup {r}]
        /\ dirty' = [dirty EXCEPT ![served[r]] = TRUE]
    BY <1>3 DEF Record, Contents
  <2>2. \A u \in Resets : r \notin flush[u].lost
    BY <2>1, MeterConstants DEF KnownInv
  <2>3. \A g \in Gens : mem'[g] \subseteq mem[g] \cup {r} /\ (dirty[g] => dirty'[g])
    BY <2>1 DEF MeterTypeOK
  <2>4. \A u \in Resets : \A g \in Gens : mem'[g] \cap flush[u].lost \subseteq mem[g]
    BY <2>2, <2>3
  <2> QED
    BY <1>1, <2>1, <2>3, <2>4, AllKept
\* The steps of one flusher that change no meter and keep what it writes.
<1>4. ASSUME NEW t \in Flushers, \A u \in Flushers \ {t} : Kept(u),
             Writing(t)' <=> Writing(t), Writing(t) => flush'[t].buf = flush[t].buf,
             flush'[t].lost = flush[t].lost, Contents' = Contents,
             UNCHANGED <<created, serving, mem, dirty>>,
             t \in Resets => Writing(t)'
      PROVE  \A u \in Resets : ResetKeeps(u)'
  <2>1. SameBytes
    BY <1>4, SameBytesStep
  <2>2. ASSUME NEW u \in Resets, u # t PROVE ResetKeeps(u)'
    <3>1. Kept(u) /\ ResetKeeps(u)
      BY <1>0, <1>4, <2>2, MeterConstants
    <3>2. \A g \in Gens : mem'[g] \cap flush[u].lost \subseteq mem[g] /\ (dirty[g] => dirty'[g])
      BY <1>4
    <3> QED
      BY <1>4, <2>1, <3>1, <3>2, ResetQuiet
  <2>3. ASSUME t \in Resets PROVE ResetKeeps(t)'
    <3>1. Writing(t) /\ Writing(t)' /\ ResetKeeps(t)
      BY <1>0, <1>4, <2>3
    <3>2. Forgotten(t)
      BY <3>1 DEF ResetKeeps
    <3>3. flush[t].lost \cap (mem'[serving'] \cup mem'[created']) = {}
      BY <1>4, <3>2 DEF Forgotten
    <3>4. Forgotten(t)'
      BY <1>4, <2>1, <3>2, <3>3, ForgottenFrame
    <3> QED
      BY <3>1, <3>4 DEF ResetKeeps, Writing
  <2> QED
    BY <2>2, <2>3
<1>5. ASSUME NEW g \in Gens, PersistTick(g) PROVE \A u \in Resets : ResetKeeps(u)'
  <2>1. g \in Flushers /\ g \notin Resets /\ Contents' = Contents
        /\ UNCHANGED <<created, serving, mem, dirty>>
    BY <1>5, MeterConstants DEF PersistTick, Contents
  <2> QED
    BY <1>4, <1>5, <2>1, PersistTickKept
<1>6. ASSUME NEW t \in Resets, Reset(t) PROVE \A u \in Resets : ResetKeeps(u)'
  BY <1>0, <1>6, ResetResets
<1>7. ASSUME NEW t \in Flushers, NothingToFlush(t) PROVE \A u \in Resets : ResetKeeps(u)'
  BY <1>0, <1>7, NothingToFlushResets
<1>8. ASSUME NEW t \in Flushers, Marshal(t) PROVE \A u \in Resets : ResetKeeps(u)'
  BY <1>0, <1>8, MarshalResets
<1>9. ASSUME NEW t \in Flushers, Open(t) PROVE \A u \in Resets : ResetKeeps(u)'
  <2>1. UNCHANGED <<created, serving, mem, dirty>>
    BY <1>9 DEF Open
  <2> QED
    BY <1>4, <1>9, <2>1, OpenKept, OpenDisk
<1>10. ASSUME NEW t \in Flushers, WriteFile(t) PROVE \A u \in Resets : ResetKeeps(u)'
  <2>1. UNCHANGED <<created, serving, mem, dirty>>
    BY <1>10 DEF WriteFile
  <2>2. Contents' = Contents
    BY <1>0, <1>10, WriteFileDisk
  <2> QED
    BY <1>4, <1>10, <2>1, <2>2, WriteFileKept
<1>11. ASSUME NEW t \in Flushers, WriteError(t) PROVE FALSE
  BY <1>11 DEF WriteError, Hit
<1>12. ASSUME NEW t \in Flushers, Rename(t) PROVE \A u \in Resets : ResetKeeps(u)'
  BY <1>0, <1>12, RenameResets
<1>13. CASE Reload
  BY <1>0, <1>13, ReloadResets
<1>14. CASE InstallHandler \/ UNCHANGED meterVars
  <2>1. /\ flush' = flush /\ alive' = alive /\ Contents' = Contents
        /\ created' = created /\ serving' \in {serving, created} /\ mem' = mem /\ dirty' = dirty
    BY <1>14 DEF InstallHandler, Contents, meterVars
  <2> QED
    BY <1>1, <2>1, AllKept
<1>15. CASE Crash
  BY <1>0, <1>15, CrashResets
<1> QED
  BY <1>2, <1>3, <1>5, <1>6, <1>7, <1>8, <1>9, <1>10, <1>11, <1>12, <1>13, <1>14, <1>15
     DEF MeterNext, FlushStep

(***************************************************************************)
(* Theorems.                                                               *)
(***************************************************************************)
MeterInv == MeterTypeOK /\ FlushersInv /\ KnownInv /\ FileInv /\ SavedInv /\ ResetInv

LEMMA MeterInvariance == MeterSpec => []MeterInv
<1>1. MeterInit => MeterInv
  BY MeterTypeInit, FileInit, SavedInit, ResetInit DEF MeterInv
<1>2. MeterInv /\ [MeterNext]_meterVars => MeterInv'
  BY MeterTypeStep, FlushersStep, KnownStep, FileStep, SavedStep, ResetStep DEF MeterInv
<1> QED
  BY <1>1, <1>2, PTL DEF MeterSpec

\* Type correctness of the usage meter (usage_meter.go), for any number of requests,
\* resets, reloads and kills; what a flush opens is never the inode the file names.
THEOREM MeterTypeCorrect == MeterSpec => []MeterTypeOK
<1>1. MeterInv => MeterTypeOK
  BY DEF MeterInv
<1> QED
  BY <1>1, MeterInvariance, PTL

\* "flush atomically writes the current rollup to disk" (usage_meter.go:383): the
\* truncate, write and rename of one flush never show a restart a torn file, as long
\* as no second flush of any meter shares the temporary file.
THEOREM FileAlwaysWhole == MeterSpec => []FileIsWhole
<1>1. MeterInv => FileIsWhole
  BY DEF MeterInv, FileInv, FileIsWhole
<1> QED
  BY <1>1, MeterInvariance, PTL

\* "persisted to disk so it survives pool restarts" (usage_meter.go:124): what was in
\* the file once, and was not reset, is in what every later flush, reload and restart
\* reads or writes.
THEOREM SavedAlwaysStays == MeterSpec => []SavedStays
<1>1. MeterInv => SavedStays
  BY DEF MeterInv, SavedInv, SavedStays
<1> QED
  BY <1>1, MeterInvariance, PTL

\* "flushes the now-empty state to disk so the reset survives a restart"
\* (usage_meter.go:364): once Reset answered, neither the file nor the meter that
\* serves holds what it removed, although the flush of the other goroutine may have
\* taken the dirty mark the reset set.
THEOREM ResetAlwaysSurvives == MeterSpec => []ResetSurvives
<1>1. MeterInv => ResetSurvives
  <2> SUFFICES ASSUME MeterInv, windows \cap {"overlap", "older", "failed"} = {}
               PROVE  (Contents.of \cup mem[serving]) \cap Cleared = {}
    BY DEF ResetSurvives
  <2>1. \A t \in Resets : flush[t].pc = "done" =>
           flush[t].lost \cap mem[serving] = {} /\ flush[t].lost \cap Contents.of = {}
    BY DEF MeterInv, ResetInv, ResetKeeps, Forgotten
  <2> QED
    BY <2>1 DEF Cleared
<1> QED
  BY <1>1, MeterInvariance, PTL
=============================================================================
