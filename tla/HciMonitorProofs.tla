-------------------------- MODULE HciMonitorProofs --------------------------
(***************************************************************************)
(* Proofs about HciMonitor for every value of its constants.               *)
(***************************************************************************)
EXTENDS HciMonitor, TLAPS

\* The statements a thread may be at: its own labels.
LabelsOf(th) ==
    IF th = Cli THEN CliLabels \cup KillLabels
    ELSE IF th = Rx THEN RxLabels \cup KillLabels
    ELSE TimerLabels

\* The part of TypeOK about the program counters.
PcOK(q) ==
    /\ DOMAIN q = Threads
    /\ q[Cli] \in CliLabels \cup KillLabels
    /\ q[Rx] \in RxLabels \cup KillLabels
    /\ \A t \in Timers : q[t] \in TimerLabels

\* Distinctness of the model values and the shape of the thread set.
LEMMA ThreadFacts ==
    /\ Cli # Rx
    /\ Cli \notin Timers /\ Rx \notin Timers
    /\ Cli \in Threads /\ Rx \in Threads /\ Timers \subseteq Threads
    /\ None \notin Timers /\ None \notin Viewers
    /\ MaxCallbacks \in Nat \ {0}
    /\ ExitKinds \subseteq {"exit0", "exitErr"}
  BY ConstAssumption DEF Threads

\* Moving one thread to one of its own labels keeps the program counters typed.
LEMMA PcStep ==
    ASSUME PcOK(pc), NEW th \in Threads, NEW l \in LabelsOf(th)
    PROVE  PcOK([pc EXCEPT ![th] = l])
  BY ThreadFacts DEF PcOK, LabelsOf

\* Finish moves a thread to its return label and keeps pending in range.
LEMMA FinishType ==
    ASSUME PcOK(pc), pending \in 0..MaxCallbacks, NEW th \in Threads, Finish(th)
    PROVE  PcOK(pc') /\ pending' \in 0..MaxCallbacks
  <1>1. (IF th \in Timers THEN "free" ELSE IF th = Rx /\ pending > 1 THEN "cb"
         ELSE "idle") \in LabelsOf(th)
    BY ThreadFacts DEF LabelsOf, CliLabels, RxLabels, TimerLabels, Threads
  <1>2. PcOK(pc')
    BY <1>1, PcStep DEF Finish
  <1>3. pending' \in 0..MaxCallbacks
    BY ThreadFacts DEF Finish
  <1>4. QED
    BY <1>2, <1>3

\* TypeOK, with the program-counter part named.
LEMMA TypeSplit ==
    TypeOK <=> /\ running \in BOOLEAN
               /\ wireshark_process \in Viewers \cup {None}
               /\ poll_timer \in Timers \cup {None}
               /\ hciCallbacks \in 0..MaxCallbacks
               /\ viewer \in [Viewers -> {"free", "alive", "exit0", "exitErr"}]
               /\ stream \in [Viewers -> {"empty", "header", "corrupt"}]
               /\ PcOK(pc)
               /\ pending \in 0..MaxCallbacks
               /\ escaped \subseteq {Cli, Rx}
  BY DEF TypeOK, PcOK

\* An uncaught exception only adds the CLI or the receive thread to escaped.
LEMMA EscapeType ==
    ASSUME TypeOK, NEW th \in Threads, Escape(th)
    PROVE  TypeOK'
  BY FinishType, ThreadFacts DEF Escape, TypeOK, PcOK, Threads

\* The three steps of stopHciMonitor keep the types, whichever thread runs them.
LEMMA StopType ==
    ASSUME TypeOK, NEW th \in Threads, NEW at,
           NEW next \in LabelsOf(th), NEW out \in LabelsOf(th) \cup {"ret"},
           \/ StopCheck(th, at, next, out) /\ out # "ret"
           \/ StopUnregister(th, at, next)
           \/ StopClear(th, at, out)
    PROVE  TypeOK'
  <1>1. CASE StopCheck(th, at, next, out) /\ out # "ret"
    <2>1. PcOK(pc')
      BY <1>1, PcStep DEF StopCheck, Goto, TypeOK, PcOK
    <2>2. QED
      BY <1>1, <2>1 DEF StopCheck, Goto, TypeOK, PcOK
  <1>2. CASE StopUnregister(th, at, next)
    <2>1. PcOK(pc')
      BY <1>2, PcStep DEF StopUnregister, Goto, TypeOK, PcOK
    <2>2. QED
      BY <1>2, <2>1, ThreadFacts DEF StopUnregister, Goto, TypeOK, PcOK
  <1>3. CASE StopClear(th, at, out) /\ out = "ret"
    BY <1>3, FinishType DEF StopClear, TypeOK, PcOK
  <1>4. CASE StopClear(th, at, out) /\ out # "ret"
    <2>1. PcOK(pc')
      BY <1>4, PcStep DEF StopClear, Goto, TypeOK, PcOK
    <2>2. QED
      BY <1>4, <2>1 DEF StopClear, Goto, TypeOK, PcOK
  <1>5. QED
    BY <1>1, <1>2, <1>3, <1>4

\* killMonitor keeps the types, run by the CLI or by the receive thread.
LEMMA KillType ==
    ASSUME TypeOK, NEW th \in {Cli, Rx}, Kill(th)
    PROVE  TypeOK'
  <1> USE DEF TypeOK, PcOK
  <1>0. /\ th \in Threads
        /\ KillLabels \subseteq LabelsOf(th)
    BY ThreadFacts DEF LabelsOf, Threads
  <1>1. CASE KillCheckRunning(th)
    <2>1. PcOK(pc')
      BY <1>0, <1>1, PcStep DEF KillCheckRunning, Goto, KillLabels
    <2>2. QED
      BY <1>1, <2>1 DEF KillCheckRunning, Goto
  <1>2. CASE StopUnregister(th, "k3", "k4") \/ StopClear(th, "k4", "k5")
    BY <1>0, <1>2, StopType DEF KillLabels
  <1>3. CASE KillCancelTimer(th)
    <2>1. PcOK(pc')
      BY <1>0, <1>3, ThreadFacts DEF KillCancelTimer, KillLabels, LabelsOf,
         TimerLabels
    <2>2. QED
      BY <1>3, <2>1 DEF KillCancelTimer
  <1>4. CASE KillCheckProcess(th) /\ wireshark_process # None
    <2>1. PcOK(pc')
      <3>1. pc' = [pc EXCEPT ![th] = "k8"]
        BY <1>4 DEF KillCheckProcess, Goto
      <3>2. "k8" \in LabelsOf(th)
        BY <1>0 DEF KillLabels
      <3>3. QED
        BY <1>0, <3>1, <3>2, PcStep
    <2>2. QED
      BY <1>4, <2>1 DEF KillCheckProcess, Goto
  <1>5. CASE KillCheckProcess(th) /\ wireshark_process = None
    BY <1>0, <1>5, FinishType DEF KillCheckProcess
  <1>6. CASE KillTerminate(th) /\ wireshark_process # None
    <2>1. PcOK(pc')
      <3>1. pc' = [pc EXCEPT ![th] = "k9"]
        BY <1>6 DEF KillTerminate, Goto
      <3>2. "k9" \in LabelsOf(th)
        BY <1>0 DEF KillLabels
      <3>3. QED
        BY <1>0, <3>1, <3>2, PcStep
    <2>2. QED
      BY <1>6, <2>1 DEF KillTerminate, Goto
  <1>7. CASE KillTerminate(th) /\ wireshark_process = None
    BY <1>0, <1>7, EscapeType DEF KillTerminate
  <1>8. CASE KillForgetProcess(th)
    BY <1>0, <1>8, FinishType DEF KillForgetProcess
  <1>9. QED
    BY <1>1, <1>2, <1>3, <1>4, <1>5, <1>6, <1>7, <1>8 DEF Kill

\* A poll-timer thread's steps keep the types.
LEMMA TimerType ==
    ASSUME TypeOK, NEW t \in Timers, TimerThread(t)
    PROVE  TypeOK'
  <1> USE DEF TypeOK, PcOK
  <1>0. t \in Threads /\ LabelsOf(t) = TimerLabels
    BY ThreadFacts DEF LabelsOf, Threads
  <1>1. CASE TimerFire(t)
    BY <1>0, <1>1, PcStep DEF TimerFire, Goto, TimerLabels
  <1>2. CASE PollCheck(t) /\ running /\ wireshark_process # None
    <2>1. PcOK(pc')
      <3>1. pc' = [pc EXCEPT ![t] = "p2"]
        BY <1>2 DEF PollCheck, Goto
      <3>2. "p2" \in LabelsOf(t)
        BY <1>0 DEF TimerLabels
      <3>3. QED
        BY <1>0, <3>1, <3>2, PcStep
    <2>2. QED
      BY <1>2, <2>1 DEF PollCheck, Goto
  <1>3. CASE PollCheck(t) /\ ~(running /\ wireshark_process # None)
    BY <1>0, <1>3, FinishType DEF PollCheck
  <1>4. CASE Poll(t) /\ wireshark_process = None
    BY <1>0, <1>4, EscapeType DEF Poll
  <1>5. CASE Poll(t) /\ wireshark_process # None
    <2>2. CASE viewer[wireshark_process] = "exit0"
      <3>1. PcOK(pc')
        BY <1>5, <2>2, ThreadFacts DEF Poll, Goto, PcOK, TimerLabels, TypeOK
      <3>2. QED
        BY <1>5, <2>2, <3>1 DEF Poll, Goto, TypeOK, PcOK
    <2>3. CASE viewer[wireshark_process] # "exit0"
      <3>1. PcOK(pc')
        BY <1>5, <2>3, ThreadFacts DEF Poll, Goto, PcOK, TimerLabels, TypeOK
      <3>2. QED
        BY <1>5, <2>3, <3>1 DEF Poll, Goto, TypeOK, PcOK
    <2>4. QED
      BY <2>2, <2>3
  <1>6. CASE \/ StopCheck(t, "ps1", "ps2", "p4")
             \/ StopUnregister(t, "ps2", "ps3")
             \/ StopClear(t, "ps3", "p4")
    BY <1>0, <1>6, StopType DEF TimerLabels
  <1>7. CASE PollForgetProcess(t)
    BY <1>0, <1>7, FinishType DEF PollForgetProcess
  <1>8. QED
    BY <1>1, <1>2, <1>3, <1>4, <1>5, <1>6, <1>7 DEF TimerThread

\* The CLI thread's steps of startHciMonitor and stopHciMonitor keep the types.
LEMMA CliType ==
    ASSUME TypeOK, CliThread \/ CmdStart \/ CmdStop \/ CmdKill
    PROVE  TypeOK'
  <1> USE DEF TypeOK, PcOK
  <1>0. Cli \in Threads /\ LabelsOf(Cli) = CliLabels \cup KillLabels
    BY ThreadFacts DEF LabelsOf
  <1>1. CASE CmdStart
    <2>1. PcOK(pc')
      BY <1>1, ThreadFacts DEF CmdStart, Goto, PcOK, CliLabels, TypeOK
    <2>2. QED
      BY <1>1, <2>1 DEF CmdStart, Goto, TypeOK, PcOK
  <1>10. CASE CmdStop \/ CmdKill
    <2>1. PcOK(pc')
      BY <1>10, ThreadFacts DEF CmdStop, CmdKill, Goto, PcOK, CliLabels,
         KillLabels, TypeOK
    <2>2. QED
      BY <1>10, <2>1 DEF CmdStop, CmdKill, Goto, TypeOK, PcOK
  <1>9. CASE StartCheckProcess
    <2>1. \E l \in LabelsOf(Cli) : pc' = [pc EXCEPT ![Cli] = l]
      BY <1>0, <1>9 DEF StartCheckProcess, Goto, CliLabels
    <2>2. PcOK(pc')
      BY <1>0, <2>1, PcStep
    <2>3. QED
      BY <1>9, <2>2 DEF StartCheckProcess, Goto
  <1>2. CASE SpawnPopen
    <2>1. CASE \E v \in FreeViewers : wireshark_process' = v
                 /\ viewer' = [viewer EXCEPT ![v] = "alive"]
                 /\ stream' = [stream EXCEPT ![v] = "empty"]
                 /\ Goto(Cli, "st_header")
                 /\ UNCHANGED <<running, poll_timer, hciCallbacks, escaped>>
      BY <1>0, <2>1, PcStep DEF Goto, CliLabels, FreeViewers
    <2>2. CASE Escape(Cli)
      BY <1>0, <2>2, EscapeType
    <2>3. QED
      BY <1>2, <2>1, <2>2 DEF SpawnPopen
  <1>3. CASE SpawnWriteHeader
    <2>1. CASE wireshark_process # None /\ viewer[wireshark_process] = "alive"
      BY <1>0, <1>3, <2>1, PcStep DEF SpawnWriteHeader, Goto, CliLabels
    <2>2. CASE ~(wireshark_process # None /\ viewer[wireshark_process] = "alive")
      BY <1>0, <1>3, <2>2, EscapeType DEF SpawnWriteHeader
    <2>3. QED
      BY <2>1, <2>2
  <1>4. CASE SpawnStartTimer
    BY <1>4, ThreadFacts DEF SpawnStartTimer, FreeTimers, CliLabels, TimerLabels
  <1>5. CASE StartRegister
    BY <1>0, <1>5, FinishType, ThreadFacts DEF StartRegister
  <1>6. CASE StopUnregister(Cli, "stop2", "stop3") \/ StopClear(Cli, "stop3", "ret")
    BY <1>0, <1>6, StopType DEF CliLabels
  <1>7. CASE Kill(Cli)
    BY <1>7, KillType
  <1>8. QED
    BY <1>1, <1>2, <1>3, <1>4, <1>5, <1>6, <1>7, <1>9, <1>10 DEF CliThread

\* The receive thread's steps and the viewer ending keep the types.
LEMMA RxType ==
    ASSUME TypeOK, RxRecord \/ RxThread \/ ViewerExit
    PROVE  TypeOK'
  <1> USE DEF TypeOK, PcOK
  <1>0. Rx \in Threads /\ LabelsOf(Rx) = RxLabels \cup KillLabels
    BY ThreadFacts DEF LabelsOf
  <1>1. CASE RxRecord
    BY <1>0, <1>1, PcStep DEF RxRecord, RxLabels
  <1>2. CASE HciCallback /\ wireshark_process = None
    BY <1>0, <1>2, EscapeType DEF HciCallback
  <1>3. CASE HciCallback /\ wireshark_process # None
             /\ viewer[wireshark_process] = "alive"
    BY <1>0, <1>3, FinishType DEF HciCallback
  <1>4. CASE HciCallback /\ wireshark_process # None
             /\ viewer[wireshark_process] # "alive"
    BY <1>0, <1>4, PcStep DEF HciCallback, Goto, KillLabels
  <1>5. CASE Kill(Rx)
    BY <1>5, KillType
  <1>6. CASE ViewerExit
    BY <1>6, ThreadFacts DEF ViewerExit
  <1>7. QED
    BY <1>1, <1>2, <1>3, <1>4, <1>5, <1>6 DEF RxThread

\* Type correctness: every state of the monitor's threads has the types of
\* TypeOK, whatever the number of timer chains, viewers and callbacks.
THEOREM TypeCorrect == Spec => []TypeOK
  <1>1. Init => TypeOK
    <2> SUFFICES ASSUME Init PROVE TypeOK
      OBVIOUS
    <2>1. pc[Cli] = "idle" /\ pc[Rx] = "idle" /\ \A t \in Timers : pc[t] = "free"
      BY ThreadFacts DEF Init
    <2>2. PcOK(pc)
      BY <2>1 DEF Init, PcOK, CliLabels, RxLabels, TimerLabels
    <2>6. running \in BOOLEAN
      BY DEF Init
    <2>3. /\ wireshark_process \in Viewers \cup {None}
          /\ poll_timer \in Timers \cup {None}
          /\ hciCallbacks \in 0..MaxCallbacks
          /\ pending \in 0..MaxCallbacks
          /\ escaped \subseteq {Cli, Rx}
      BY ThreadFacts DEF Init
    <2>4. /\ viewer \in [Viewers -> {"free", "alive", "exit0", "exitErr"}]
          /\ stream \in [Viewers -> {"empty", "header", "corrupt"}]
      BY DEF Init
    <2>5. QED
      BY <2>2, <2>3, <2>4, <2>6 DEF TypeOK, PcOK
  <1>2. TypeOK /\ [Next]_vars => TypeOK'
    <2> SUFFICES ASSUME TypeOK, [Next]_vars PROVE TypeOK'
      OBVIOUS
    <2>1. CASE CmdStart \/ CmdStop \/ CmdKill \/ CliThread
      BY <2>1, CliType
    <2>2. CASE RxRecord \/ RxThread \/ ViewerExit
      BY <2>2, RxType
    <2>3. CASE \E t \in Timers : TimerThread(t)
      BY <2>3, TimerType
    <2>4. CASE UNCHANGED vars
      BY <2>4 DEF vars, TypeOK
    <2>5. QED
      BY <2>1, <2>2, <2>3, <2>4 DEF Next
  <1>3. QED
    BY <1>1, <1>2, PTL DEF Spec
=============================================================================
