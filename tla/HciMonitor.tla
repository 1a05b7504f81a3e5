----------------------------- MODULE HciMonitor -----------------------------
(***************************************************************************)
(* The HCI monitor controller of cmds.py (CmdMonitor.MonitorController,    *)
(* lines 233-430) and the threads that run its methods concurrently:       *)
(*                                                                         *)
(*  - the CLI thread, which runs the "monitor hci start|stop|kill"         *)
(*    commands (CmdMonitor.work);                                          *)
(*  - the poll-timer threads: threading.Timer(3, _pollTimer) objects, each *)
(*    a thread of its own that re-arms a fresh Timer while the viewer is   *)
(*    alive;                                                               *)
(*  - the receive thread of the core, which calls every registered HCI     *)
(*    callback for each captured record (hciCallback).                     *)
(*                                                                         *)
(* The wireshark viewer processes are modelled by their status only; the  *)
(* pcap stream written to a viewer by whether the global header came      *)
(* first.  Every Python statement that reads or writes controller state   *)
(* is a step of its own, since the GIL may switch threads between any two *)
(* of them (and does at every log call, pipe write, poll and wait).       *)
(***************************************************************************)
EXTENDS Naturals, FiniteSets

CONSTANTS
    Cli,          \* the CLI thread (model value)
    Rx,           \* the core's receive thread (model value)
    None,         \* Python's None (model value)
    Timers,       \* poll-timer chains: a Timer and the Timers it re-arms (recycled)
    Viewers,      \* identities of wireshark processes (recycled)
    ExitKinds,    \* how a viewer may end on its own: "exit0" and/or "exitErr"
    MaxCallbacks  \* bound on the length of the core's HCI callback list

ASSUME ConstAssumption ==
    /\ Cli # Rx
    /\ None \notin Timers \cup Viewers \cup {Cli, Rx}
    /\ Cli \notin Timers /\ Rx \notin Timers
    /\ IsFiniteSet(Timers) /\ Cardinality(Timers) >= 2
    /\ IsFiniteSet(Viewers) /\ Viewers # {}
    /\ ExitKinds \subseteq {"exit0", "exitErr"} /\ ExitKinds # {}
    /\ MaxCallbacks \in Nat \ {0}

Threads == {Cli, Rx} \cup Timers

VARIABLES
    running,            \* self.running
    wireshark_process,  \* self.wireshark_process: a viewer or None
    poll_timer,         \* self.poll_timer: a timer or None
    hciCallbacks,       \* copies of self._callback in the core's callback list
    viewer,             \* viewer[v]: "free", "alive", "exit0" (poll() = 0),
                        \*   "exitErr" (non-zero return code, e.g. -15 after terminate)
    stream,             \* stream[v]: "empty", "header", or "corrupt" when a record
                        \*   reached the viewer before the pcap global header
    pc,                 \* the statement each thread is about to execute
    pending,            \* callback invocations left for the record being delivered
    escaped             \* the CLI and receive threads out of which an uncaught
                        \*   exception escaped (a Timer thread just ends with it)

vars == <<running, wireshark_process, poll_timer, hciCallbacks, viewer, stream,
          pc, pending, escaped>>

CliLabels == {"idle", "st_proc", "st_spawn", "st_header", "st_timer", "st_register",
              "stop2", "stop3"}
KillLabels == {"k1", "k3", "k4", "k5", "k7", "k8", "k9"}
RxLabels == {"idle", "cb"}
TimerLabels == {"free", "sched", "p1", "p2", "ps1", "ps2", "ps3", "p4"}

\* The type of every variable, and each thread at one of its own statements.
TypeOK ==
    /\ running \in BOOLEAN
    /\ wireshark_process \in Viewers \cup {None}
    /\ poll_timer \in Timers \cup {None}
    /\ hciCallbacks \in 0..MaxCallbacks
    /\ viewer \in [Viewers -> {"free", "alive", "exit0", "exitErr"}]
    /\ stream \in [Viewers -> {"empty", "header", "corrupt"}]
    /\ pc[Cli] \in CliLabels \cup KillLabels
    /\ pc[Rx] \in RxLabels \cup KillLabels
    /\ \A t \in Timers : pc[t] \in TimerLabels
    /\ DOMAIN pc = Threads
    /\ pending \in 0..MaxCallbacks
    /\ escaped \subseteq {Cli, Rx}

Init ==
    /\ running = FALSE
    /\ wireshark_process = None
    /\ poll_timer = None
    /\ hciCallbacks = 0
    /\ viewer = [v \in Viewers |-> "free"]
    /\ stream = [v \in Viewers |-> "empty"]
    /\ pc = [th \in Threads |-> IF th \in Timers THEN "free" ELSE "idle"]
    /\ pending = 0
    /\ escaped = {}

-----------------------------------------------------------------------------
(* Helpers                                                                 *)

\* A timer chain with no Timer waiting or running: the next one started by
\* _spawnWireshark begins a new chain.
FreeTimers == {t \in Timers : pc[t] = "free"}

\* A process slot whose process has ended and that the controller no
\* longer references; an alive viewer is never reused, even if orphaned.
FreeViewers == {v \in Viewers : viewer[v] # "alive" /\ v # wireshark_process}

Goto(th, l) == pc' = [pc EXCEPT ![th] = l] /\ UNCHANGED pending

\* The thread returns from the method it runs: the CLI to its prompt, a
\* timer thread ends, the receive thread calls the next callback copy.
Finish(th) ==
    /\ pc' = [pc EXCEPT ![th] = IF th \in Timers THEN "free"
                                ELSE IF th = Rx /\ pending > 1 THEN "cb"
                                ELSE "idle"]
    /\ pending' = IF th = Rx THEN (IF pending > 1 THEN pending - 1 ELSE 0)
                  ELSE pending

\* An exception that the method does not catch leaves it.
Escape(th) ==
    /\ escaped' = IF th \in Timers THEN escaped ELSE escaped \cup {th}
    /\ Finish(th)
    /\ UNCHANGED <<running, wireshark_process, poll_timer, hciCallbacks, viewer, stream>>

-----------------------------------------------------------------------------
(* stopHciMonitor (lines 321-328), run by the CLI, by a timer thread from   *)
(* _pollTimer and by killMonitor.  Each caller has its own labels; "out"   *)
(* is where the caller continues when stopMonitor returns.                 *)

\* if not self.running: return False
StopCheck(th, at, next, out) ==
    /\ pc[th] = at
    /\ Goto(th, IF running THEN next ELSE out)
    /\ UNCHANGED <<running, wireshark_process, poll_timer, hciCallbacks, viewer,
                   stream, escaped>>

\* Mutant: the core's unregister removes a copy whether or not one is left.
StopUnregisterNoGuard(th, at, next) ==
    /\ pc[th] = at
    /\ hciCallbacks' = hciCallbacks - 1
    /\ Goto(th, next)
    /\ UNCHANGED <<running, wireshark_process, poll_timer, viewer, stream, escaped>>

\* self.internalblue.unregisterHciCallback(self._callback): the core removes
\* one copy of the callback from its list, if there is one.
StopUnregister(th, at, next) ==
    /\ pc[th] = at
    /\ hciCallbacks' = IF hciCallbacks > 0 THEN hciCallbacks - 1 ELSE 0
    /\ Goto(th, next)
    /\ UNCHANGED <<running, wireshark_process, poll_timer, viewer, stream, escaped>>

\* self.running = False; the caller then continues at "out".
StopClear(th, at, out) ==
    /\ pc[th] = at
    /\ running' = FALSE
    /\ IF out = "ret" THEN Finish(th) ELSE Goto(th, out)
    /\ UNCHANGED <<wireshark_process, poll_timer, hciCallbacks, viewer, stream, escaped>>

-----------------------------------------------------------------------------
(* The CLI thread: CmdMonitor.work dispatching "start", "stop", "kill".    *)
(* "status" only reads self.running; "start" while running and "stop"     *)
(* while stopped only log a warning, so they are stuttering steps.         *)

\* startHciMonitor: if self.running: return False; self.running = True
CmdStart ==
    /\ pc[Cli] = "idle"
    /\ ~running
    /\ running' = TRUE
    /\ Goto(Cli, "st_proc")
    /\ UNCHANGED <<wireshark_process, poll_timer, hciCallbacks, viewer, stream, escaped>>

\* if self.wireshark_process == None: self._spawnWireshark()
StartCheckProcess ==
    /\ pc[Cli] = "st_proc"
    /\ Goto(Cli, IF wireshark_process = None THEN "st_spawn" ELSE "st_register")
    /\ UNCHANGED <<running, wireshark_process, poll_timer, hciCallbacks, viewer,
                   stream, escaped>>

\* self.wireshark_process = subprocess.Popen(["wireshark", ...]); Popen
\* raises OSError when wireshark cannot be executed, and nothing catches it.
SpawnPopen ==
    /\ pc[Cli] = "st_spawn"
    /\ \/ \E v \in FreeViewers :
            /\ wireshark_process' = v
            /\ viewer' = [viewer EXCEPT ![v] = "alive"]
            /\ stream' = [stream EXCEPT ![v] = "empty"]
            /\ Goto(Cli, "st_header")
            /\ UNCHANGED <<running, poll_timer, hciCallbacks, escaped>>
       \/ Escape(Cli)

\* self.wireshark_process.stdin.write(pcap_header): the attribute is read
\* again, and a closed pipe raises IOError, which nothing catches here.
SpawnWriteHeader ==
    /\ pc[Cli] = "st_header"
    /\ IF wireshark_process # None /\ viewer[wireshark_process] = "alive"
       THEN /\ stream' = [stream EXCEPT ![wireshark_process] =
                            IF @ = "empty" THEN "header" ELSE @]
            /\ Goto(Cli, "st_timer")
            /\ UNCHANGED <<running, wireshark_process, poll_timer, hciCallbacks,
                           viewer, escaped>>
       ELSE Escape(Cli)

\* self.poll_timer = Timer(3, self._pollTimer, ()); self.poll_timer.start()
SpawnStartTimer ==
    /\ pc[Cli] = "st_timer"
    /\ \E t \in FreeTimers :
         /\ poll_timer' = t
         /\ pc' = [pc EXCEPT ![Cli] = "st_register", ![t] = "sched"]
    /\ UNCHANGED <<running, wireshark_process, hciCallbacks, viewer, stream,
                   pending, escaped>>

\* self.internalblue.registerHciCallback(self._callback); return True
StartRegister ==
    /\ pc[Cli] = "st_register"
    /\ hciCallbacks < MaxCallbacks
    /\ hciCallbacks' = hciCallbacks + 1
    /\ Finish(Cli)
    /\ UNCHANGED <<running, wireshark_process, poll_timer, viewer, stream, escaped>>

\* "monitor hci stop" while running
CmdStop ==
    /\ pc[Cli] = "idle"
    /\ running
    /\ Goto(Cli, "stop2")
    /\ UNCHANGED <<running, wireshark_process, poll_timer, hciCallbacks, viewer,
                   stream, escaped>>

\* "monitor hci kill"
CmdKill ==
    /\ pc[Cli] = "idle"
    /\ Goto(Cli, "k1")
    /\ UNCHANGED <<running, wireshark_process, poll_timer, hciCallbacks, viewer,
                   stream, escaped>>

-----------------------------------------------------------------------------
(* killMonitor (lines 352-365), run by the CLI thread or, after a broken   *)
(* pipe, by the receive thread inside hciCallback.                          *)

\* if self.running: self.stopMonitor(), whose own "if not self.running"
\* reads the flag again; either read may see the other threads' writes,
\* which the interleaving of this one step with theirs already covers.
KillCheckRunning(th) ==
    /\ pc[th] = "k1"
    /\ Goto(th, IF running THEN "k3" ELSE "k5")
    /\ UNCHANGED <<running, wireshark_process, poll_timer, hciCallbacks, viewer,
                   stream, escaped>>

\* if self.poll_timer != None: self.poll_timer.cancel(); self.poll_timer = None.
\* Cancel only stops a Timer that is still waiting; one that already runs
\* _pollTimer goes on.
KillCancelTimer(th) ==
    /\ pc[th] = "k5"
    /\ IF poll_timer # None
       THEN pc' = [pc EXCEPT ![th] = "k7",
                            ![poll_timer] = IF @ = "sched" THEN "free" ELSE @]
       ELSE pc' = [pc EXCEPT ![th] = "k7"]
    /\ poll_timer' = None
    /\ UNCHANGED <<running, wireshark_process, hciCallbacks, viewer, stream,
                   pending, escaped>>

\* if self.wireshark_process != None:
KillCheckProcess(th) ==
    /\ pc[th] = "k7"
    /\ IF wireshark_process # None
       THEN /\ Goto(th, "k8")
            /\ UNCHANGED <<running, wireshark_process, poll_timer, hciCallbacks,
                           viewer, stream, escaped>>
       ELSE /\ Finish(th)
            /\ UNCHANGED <<running, wireshark_process, poll_timer, hciCallbacks,
                           viewer, stream, escaped>>

\* self.wireshark_process.terminate(); self.wireshark_process.wait().  An
\* OSError (the process is gone) is caught; the AttributeError of a
\* wireshark_process that another thread set to None is not.
KillTerminate(th) ==
    /\ pc[th] = "k8"
    /\ IF wireshark_process # None
       THEN /\ viewer' = [viewer EXCEPT ![wireshark_process] =
                            IF @ = "alive" THEN "exitErr" ELSE @]
            /\ Goto(th, "k9")
            /\ UNCHANGED <<running, wireshark_process, poll_timer, hciCallbacks,
                           stream, escaped>>
       ELSE Escape(th)

\* self.wireshark_process = None
KillForgetProcess(th) ==
    /\ pc[th] = "k9"
    /\ wireshark_process' = None
    /\ Finish(th)
    /\ UNCHANGED <<running, poll_timer, hciCallbacks, viewer, stream, escaped>>

Kill(th) ==
    \/ KillCheckRunning(th)
    \/ StopUnregister(th, "k3", "k4")
    \/ StopClear(th, "k4", "k5")
    \/ KillCancelTimer(th)
    \/ KillCheckProcess(th)
    \/ KillTerminate(th)
    \/ KillForgetProcess(th)

-----------------------------------------------------------------------------
(* A poll-timer thread: threading.Timer(3, self._pollTimer).               *)

\* The three seconds elapse and the thread calls _pollTimer.
TimerFire(t) ==
    /\ pc[t] = "sched"
    /\ Goto(t, "p1")
    /\ UNCHANGED <<running, wireshark_process, poll_timer, hciCallbacks, viewer,
                   stream, escaped>>

\* Mutant: _pollTimer without the "self.running and" test.
PollCheckIgnoresRunning(t) ==
    /\ pc[t] = "p1"
    /\ IF wireshark_process # None THEN Goto(t, "p2") ELSE Finish(t)
    /\ UNCHANGED <<running, wireshark_process, poll_timer, hciCallbacks, viewer,
                   stream, escaped>>

\* if self.running and self.wireshark_process != None:
PollCheck(t) ==
    /\ pc[t] = "p1"
    /\ IF running /\ wireshark_process # None THEN Goto(t, "p2") ELSE Finish(t)
    /\ UNCHANGED <<running, wireshark_process, poll_timer, hciCallbacks, viewer,
                   stream, escaped>>

\* if self.wireshark_process.poll() == 0: stop ... else: re-arm a new Timer
\* in self.poll_timer.  Only a zero return code counts as "has ended".
Poll(t) ==
    /\ pc[t] = "p2"
    /\ IF wireshark_process = None
       THEN Escape(t)
       ELSE IF viewer[wireshark_process] = "exit0"
       THEN /\ Goto(t, "ps1")
            /\ UNCHANGED <<running, wireshark_process, poll_timer, hciCallbacks,
                           viewer, stream, escaped>>
       ELSE /\ poll_timer' = t
            /\ Goto(t, "sched")
            /\ UNCHANGED <<running, wireshark_process, hciCallbacks, viewer, stream,
                           escaped>>

\* self.wireshark_process = None, after self.stopMonitor()
PollForgetProcess(t) ==
    /\ pc[t] = "p4"
    /\ wireshark_process' = None
    /\ Finish(t)
    /\ UNCHANGED <<running, poll_timer, hciCallbacks, viewer, stream, escaped>>

TimerThread(t) ==
    \/ TimerFire(t)
    \/ PollCheck(t)
    \/ Poll(t)
    \/ StopCheck(t, "ps1", "ps2", "p4")
    \/ StopUnregister(t, "ps2", "ps3")
    \/ StopClear(t, "ps3", "p4")
    \/ PollForgetProcess(t)

-----------------------------------------------------------------------------
(* The receive thread of the core and hciCallback (lines 371-387).         *)

\* A captured HCI record arrives; the core calls each registered copy of
\* the callback in turn.
RxRecord ==
    /\ pc[Rx] = "idle"
    /\ hciCallbacks > 0
    /\ pc' = [pc EXCEPT ![Rx] = "cb"]
    /\ pending' = hciCallbacks
    /\ UNCHANGED <<running, wireshark_process, poll_timer, hciCallbacks, viewer,
                   stream, escaped>>

\* self.wireshark_process.stdin.write(pcap_packet); flush.  IOError (the
\* pipe is closed) leads to killMonitor; the AttributeError of a
\* wireshark_process set to None is not caught.
HciCallback ==
    /\ pc[Rx] = "cb"
    /\ IF wireshark_process = None
       THEN Escape(Rx)
       ELSE IF viewer[wireshark_process] = "alive"
       THEN /\ stream' = [stream EXCEPT ![wireshark_process] =
                            IF @ = "empty" THEN "corrupt" ELSE @]
            /\ Finish(Rx)
            /\ UNCHANGED <<running, wireshark_process, poll_timer, hciCallbacks,
                           viewer, escaped>>
       ELSE /\ Goto(Rx, "k1")
            /\ UNCHANGED <<running, wireshark_process, poll_timer, hciCallbacks,
                           viewer, stream, escaped>>

-----------------------------------------------------------------------------
(* The user closes wireshark (return code 0) or it fails (non-zero).      *)
ViewerExit ==
    \E v \in Viewers, k \in ExitKinds :
        /\ viewer[v] = "alive"
        /\ viewer' = [viewer EXCEPT ![v] = k]
        /\ UNCHANGED <<running, wireshark_process, poll_timer, hciCallbacks, stream,
                       pc, pending, escaped>>

-----------------------------------------------------------------------------
CliThread ==
    \/ StartCheckProcess \/ SpawnPopen \/ SpawnWriteHeader \/ SpawnStartTimer
    \/ StartRegister
    \/ StopUnregister(Cli, "stop2", "stop3")
    \/ StopClear(Cli, "stop3", "ret")
    \/ Kill(Cli)

RxThread == HciCallback \/ Kill(Rx)

Next ==
    \/ CmdStart \/ CmdStop \/ CmdKill
    \/ CliThread
    \/ RxRecord \/ RxThread
    \/ \E t \in Timers : TimerThread(t)
    \/ ViewerExit

(* A method once entered runs on: the CLI thread finishes the command it   *)
(* started, the receive thread the callback it entered, and a Timer thread *)
(* wakes up after its three seconds.  The user issuing commands, records   *)
(* arriving and the viewer ending are not forced.                          *)
Fairness ==
    /\ WF_vars(CliThread)
    /\ WF_vars(RxThread)
    /\ \A t \in Timers : WF_vars(TimerThread(t))

Spec == Init /\ [][Next]_vars /\ Fairness

-----------------------------------------------------------------------------
(* Properties                                                              *)

\* Every record hciCallback writes to a viewer follows the pcap global
\* header that _spawnWireshark wrote to it first (lines 291 and 382): a
\* capture stream without its header cannot be read by the viewer.
StreamWellFormed == \A v \in Viewers : stream[v] # "corrupt"

\* A failure in the capture path never escapes from hciCallback into the
\* core's receive thread, which also delivers every command response
\* (spec section 7: capture errors are confined to the pipeline).
RxNeverCrashes == Rx \notin escaped

\* stopHciMonitor unregisters the callback before it clears self.running,
\* and startHciMonitor registers it after setting self.running: the core
\* never calls the callback of a monitor that says it is stopped.
RegisteredOnlyWhileRunning == hciCallbacks > 0 => running

\* Every alive wireshark process is the controller's own
\* self.wireshark_process, so that killMonitor can still terminate it.
NoOrphanViewer == \A v \in Viewers : viewer[v] = "alive" => v = wireshark_process

\* No Timer of _pollTimer's chain is waiting or running.
NoLiveTimer == \A t \in Timers : pc[t] = "free"

\* Once the monitor stays stopped, every poll-timer chain ends: _pollTimer
\* re-arms a Timer only while self.running, even the chains that
\* killMonitor's cancel() missed because they were already running.
TimersDieOut == <>[]~running => <>[]NoLiveTimer

\* The monitor's viewer has ended (poll() would return its return code).
ViewerGone == wireshark_process # None /\ viewer[wireshark_process] # "alive"

\* When the viewer of a running monitor exits, the monitor eventually
\* stops by itself (spec 4.6: the periodic liveness check triggers stop).
ViewerExitStopsMonitor == (running /\ ViewerGone) ~> ~running

=============================================================================
