# TLA+ verification of the InternalBlue command layer (`cmds.py`)

This directory holds TLA+ models of the code under
`src/knob-master/knob-master/poc-internalblue/internalblue/`: the command
layer `internalblue/cmds.py` and the hook installer `examples/bla.py`. It also
holds TLC configurations that check the models on small instances, and TLAPS
proofs of the properties that hold for every instance. `PROJECT.json` is the
machine-readable inventory: components, runs, mutants, the map from each
definition to the source lines it models, findings, hazards and theorems.

## 1. The system

`spec.md` describes a core (CommandChannel, FirmwareMap, MemoryAccessEngine,
PatchTable, ConnectionRegistry, HookInstaller, MonitorPipeline). Only the
command layer is in this source tree. `core.py` is not, and neither are the
firmware maps or the transport. The core's behaviour is used only where a
command depends on it, and those definitions are marked `spec_modelled` in
the map.

| Part | Code | State | Concurrency |
|---|---|---|---|
| MonitorPipeline, HCI | `CmdMonitor.MonitorController`, cmds.py 233-430 | `running`, `wireshark_process`, `poll_timer`, the core's callback list | CLI thread, `threading.Timer` poll threads, the core's receive thread |
| MonitorPipeline, LMP | same class, `startLmpMonitor`/`stopLmpMonitor`/`lmpCallback` | same | same |
| MemoryAccessEngine wrappers | `isAddressInSections`, memory image cache (101-155), `CmdTelescope` (606-654), `CmdWriteMem`/`CmdWriteAsm`/`CmdExec` (683-881) | cached image, template file, controller RAM | sequential |
| PatchTable | `CmdPatch` (935-989) | the controller's patch slots | sequential |
| ConnectionRegistry | `CmdSendLmp.work` (1011-1061), `CmdInfo.infoConnections` and `CmdInfo.work` (1073-1094, 1120-1135) | the controller's connection array | the controller connects and drops links between the CLI's reads |
| HookInstaller | `examples/bla.py` | RAM contents, patch slots | a script process beside the user's CLI session on the same controller |

Most of this code is sequential. The real concurrency is in the monitor:
- `startHciMonitor`, `stopHciMonitor` and `killMonitor` run on the CLI thread.
- `_pollTimer` runs on a fresh `threading.Timer` thread every three seconds.
  It calls `stopMonitor` itself and re-arms the next Timer.
- `hciCallback` runs on the core's receive thread for every captured record.
  After a broken pipe it calls `killMonitor` there.
- None of these hold a lock. The GIL may switch threads between any two
  statements, and it does so at every pipe write, `poll()`, `wait()` and log
  call.

## 2. Modules

### HciMonitor (cmds.py 233-430)

Every statement that reads or writes controller state is one action, and
each thread has a program counter `pc`. The labels follow the code:
- CLI thread, start: `st_*` labels.
- CLI thread, stop: `stop*` labels.
- killMonitor: `k*` labels.
- Poll timers: `sched`, then `p1`, `p2`, the `ps*` labels of its own
  `stopMonitor` call, and `p4`.

| Code | Action |
|---|---|
| `__init__` 260-265 | `Init` |
| `startHciMonitor` 308-319 | `CmdStart`, `StartCheckProcess`, `StartRegister` |
| `_spawnWireshark` 267-294 | `SpawnPopen` (the OSError of Popen is `Escape`), `SpawnWriteHeader` (an IOError on a dead viewer is `Escape`), `SpawnStartTimer` |
| `stopHciMonitor` 321-328 | `StopCheck`, `StopUnregister`, `StopClear`, shared by the CLI, the kill path and the timers |
| `killMonitor` 352-365 | `KillCheckRunning`, `KillCancelTimer` (cancel stops only a waiting Timer), `KillCheckProcess`, `KillTerminate` (OSError caught; the AttributeError of a None process escapes), `KillForgetProcess` |
| `_pollTimer` 296-306 | `TimerFire`, `PollCheck`, `Poll` (re-arm or stop on `poll() == 0`), `PollForgetProcess` |
| `hciCallback` 371-387 | `HciCallback`: write or corrupt the stream, IOError → kill on the receive thread, AttributeError escapes |
| core dispatch (spec) | `RxRecord`: the receive thread calls each registered copy of the callback |
| the user / wireshark | `ViewerExit`: an alive viewer ends with code 0 or non-zero |

Data is abstracted to what the properties tell apart:
- A viewer is one of `free`, `alive`, `exit0` or `exitErr`.
- Its input stream is `empty`, `header` or `corrupt`, where `corrupt` means
  a record came before the header.
- The callback list is a count of copies, because `registerHciCallback` is a
  list append.
- A Timer chain keeps its identity when `_pollTimer` re-arms a new Timer.
  `cancel()` and `poll_timer` observe only the newest Timer of a chain, so
  this loses nothing.
- Identities of finished timers and exited viewers are recycled.

`Escape(th)` records an uncaught exception:
- On the CLI thread it ends the command.
- On the receive thread it is a crash of the core's delivery loop.
- A Timer thread simply dies.

### MCHciMonitor

This module gives the model values for the constants:
- two timer chains and two viewers (one viewer in most runs);
- `MaxCallbacks = 1`, the bound on the callback list.

It also defines the symmetry sets. Symmetry is used only in runs that check
invariants, never for liveness.

### HciMonitorProofs

TLAPS proofs for HciMonitor, for every value of the constants (section 5).
The other proof modules are `MemoryImageProofs`, `PatchCommandProofs`,
`HookSessionProofs`, `HookSessionRefinement`, `ConnectionRegistryProofs`
and `TelescopeProofs`; `AddressCheck` holds its own theorems.

### AddressCheck (cmds.py 101-111)

`isAddressInSections` is a pure function. Each step of the module is one
call on arguments drawn from the bounds (`Args`). The loop "return at the
first section whose range holds the address" becomes an existential over the
smallest index of `Stops`, the sections of the kind with
`start_addr <= address <= end_addr`. `Contained` is what spec.md 4.2 and 8
ask for. `MCAddressCheck` scales the spec's firmware layout down to a ROM
section [0,4) and two RAM sections [4,6) and [8,10). The ROM and the first
RAM section touch, as ROM and RAM do in the real maps.

The module's only run (`addr_complete`) is one that finds a violation, so
the condition on the constants is the definition `SectionsAssumption`, a
hypothesis of the theorem, rather than an ASSUME.

### MemoryImage (cmds.py 77-78, 113-114, 119-155)

The image cache `Cmd.memory_image`, its template file and the calls of
`getMemoryImage` from `dumpmem` and `searchmem`. State:
- `image`: None, or a content per section with an `aligned` flag;
- `template`: Absent, or a content with a `torn` flag;
- `dumped`: the dict of the first build;
- `pc` and `sec`: where the CLI thread is in the two for loops.

Content is abstracted to the chip a section was read from and the version
of the RAM it was read at. Actions, in code order:
- `GetMemoryImage`;
- `InitReadSection`, `InitFit`, `TemplateOpen`, `TemplateWrite` (the build
  without a template);
- `InitLoad` (the template branch);
- `RefreshSection`;
- `Return`.

The environment has three actions:
- `RamChanges`: the controller changes its RAM.
- `ReadFails`: readMem fails (IOErrorPartial).
- `Restart`: the process ends and a new one starts, possibly connected to
  another chip. The class attribute is lost and the file stays.

Two constants say what the environment may do:
- `Crashes`: whether a process may end in the middle of a command.
- `DiskFull`: whether `f.write` may fail.

### PatchCommand (cmds.py 935-989)

`CmdPatch.work`, install and delete, over the controller's patch table.
State:
- `table`: slot index -> `{active, address, value}`;
- `passed`: the slot index the last command handed to the core.

Each command is one action, early returns included:
- `PatchInstall`: refused on a bad slot, a missing address or data, a failed
  conversion, or a "no". Otherwise `Fit4` truncates or pads the data to 4
  bytes and `PatchRom` installs it.
- `PatchDelete`: refused on a bad slot or when neither slot nor address is
  given. Otherwise `DisableRomPatch` runs.

The core's `patchRom` and `disableRomPatch` are not in this tree, so they
follow spec.md 4.3 (`spec_modelled`). `patchRom` uses the slot given, else
the slot already patching the address, else the first free one. The
firmware may start with its own patches at aligned ROM addresses.
`MCPatchCommand` has ROM [0,8) and RAM [8,12). Address 6 is ROM whose
4 bytes run into RAM.

PatchCommand has no passing run of its own: its actions run inside
HookSession, through the instance `PC`, in `hook_order`. The condition on
its constants is therefore the definition `PatchAssumption`, which
HookSession's ASSUME includes for the instance it uses.

### Telescope (cmds.py 606-654)

`CmdTelescope.telescope` is the recursive function `Telescoped`, indexed by
the depth and then by the address the data starts at, over a word-granular
memory; `Telescope(a, depth)` applies it. Like the code, it returns the
values of the chain and where the printable string is read from (None for a
chain ending in a zero word). It is compared with `LoopChain`, the explicit
bounded loop that spec.md 9 asks for: `Hop[i][a]` is the address of the
i-th word of the chain from `a`, `Stops(a, i)` the loop's three termination
conditions, and `Last(a)` the first step at which one holds.

Each step is either a new call (`Call`: address, length, the answer to the
warning) or a store by the controller (`Store`). Every memory content
reachable by stores is therefore checked. `MCTelescope` has ROM [0,2), an
unmapped word 2, RAM [3,5) and an unmapped word 5. The window is one word,
so pointers 1, 3 and 4 are followed and 2 is not (the off-by-one of line
106 stops at ROM).

### HookSession (bla.py 43-146, cmds.py 705-881, 945-954)

The composition of three components on one controller. State:
- `table` and `passed`, through `PC == INSTANCE PatchCommand`;
- `ram`: word -> `junk`, `hook`, `data` or `code`;
- the script's `pc`, `site` and `reported`;
- `launched`: the last address exec jumped to.

The script (bla.py) is a process:
- `Connect` (105-107);
- `AsmHooks` (line 110; the "TODO" of line 61 makes the assembler raise
  when `AsmHooksOk` is FALSE);
- `WriteHooks` (112-114): a failed writeMem exits;
- `InstallHook` (119-146), one hook per step. The EK_REQ step raises when
  `EkReqKnown` is FALSE, and any `patchRom` failure exits with the message
  of its step.

The user's CLI session runs beside it:
- `CmdWriteMem`, `CmdWriteAsm` and `CmdExec`, through `GatedWrite`: the RAM
  warning, then writeMem;
- exec raises at its warning (line 864), so it writes only inside RAM;
- `CliPatch` is `PatchCommand`'s `patch --delete`.

`WriteMem` follows spec.md 4.2: it is refused outside one RAM section, and a
failing chunk ends the call after the chunks before it. `MCHookSession` has
ROM [0,8) and RAM [8,11). The hook sites are 0, 4, 2 (unaligned, like
0x48eba) and 6, and the blob takes words 8 and 9.

### HookInstaller (spec.md 4.4)

This is the abstract installer that spec.md 4.4 describes, and it models
no code. Its state:
- `stage`: prepare, patching, done or aborted;
- `blob`: whether the blob is whole in the scratch region;
- `next`: the call site patched next;
- `branched`: the call sites whose branch is active.

Its actions:
- `WriteBlobs`: steps 1-2;
- `PatchSite`: step 3, one call site at a time, in order, and only while
  the blob is whole;
- `Abort`: a failure ends the install and undoes nothing;
- `Remove`: another client of the table removes a patch.

`HookSession` maps onto it as follows:
- `Stage` comes from the script's `pc`;
- `BlobInRam` is true when every word of the blob holds `hook`;
- `next` is the script's `site`;
- `Branched` is the set of addresses of active slots holding `Branch`.

`ImplementsHookInstaller == HI!Spec` states that the script and the CLI
together implement the abstract installer.

### ConnectionRegistry (cmds.py 1011-1061, 1073-1094, 1120-1135)

State:
- `conn`: the controller's connection array, slot -> remote address or
  `NoConn` (the all-zero address, for which the core returns None);
- the command the CLI runs (`cmd`, `pc`) and the locals of
  `CmdSendLmp.work`: `arg` (`args.conn_number`), the loop index `i`,
  `found` (`connection`), `multiple` (`found_multiple_active`), `number`
  (`connection_number`) and `announced` (`remote_addr`);
- `seen`: the active records the command read and logged;
- `sent`: the packet `sendLmpPacket` sent, with the device that held the
  connection number at that moment;
- `result` and `changed`: how the command ended, and whether a link changed
  since it began (history for the properties).

| Code | Action |
|---|---|
| `CmdSendLmp.work` 1011-1020, 1041-1042; `CmdInfo.work` 1120-1131 | `Invoke` |
| the loop 1022-1029 | `ScanStep`, one `readConnectionInformation(i+1)` per step |
| 1031-1039 | `ScanEnd`: none, multiple, or the record to send to |
| 1043-1049 | `Check`: `-n` without `--nocheck` (IndexError outside `[1, SIZE]`, spec.md 4.5) |
| 1051-1061 | `Send`: the hex decoding may fail; the packet goes to whoever holds the number now |
| `infoConnections` 1073-1093 | `InfoStep` |
| 1094, 1135 | `InfoEnd` |
| the controller (spec.md 3) | `Connect`, `Disconnect` |

Each `readConnectionInformation` is a separate HCI read, so the controller
may act between two reads of one command. A record is its slot number and
remote address. `connection["connection_number"]` (line 1038) is taken to be
the slot the record was read from. The printed fields of `infoConnections`
are abstracted to the record. `info device` and `info patchram` only print.

## 3. Runs

| Run | cfg | Expect | Shows |
|---|---|---|---|
| hci_timers_die | HciMonitorTimers.cfg | pass | `TimersDieOut`: once stopped for good, every timer chain ends |
| hci_rx_crash | HciMonitorRxCrash.cfg | violation | a callback in flight across kill raises AttributeError on the receive thread |
| hci_orphan | HciMonitorOrphan.cfg | violation | `_pollTimer` forgets a viewer spawned by a concurrent restart |
| hci_stream_header | HciMonitorStream.cfg | violation | a record reaches the new viewer before its pcap header |
| hci_exit_unnoticed | HciMonitorExitUnnoticed.cfg | violation | a viewer exit is not always noticed (header IOError, non-zero exit, stop/start) |
| addr_complete | AddressCheckComplete.cfg | violation | a range at the start of a section that touches the previous one is refused (`address <= end_addr`, line 105, then `return False`, line 109) |
| image_fresh | MemoryImageFresh.cfg | pass | a call that builds or refreshes the image returns RAM read during the call; within a process the image never goes back to older RAM (`ImageNeverOlder`) (crashes, failed reads and writes, two chips) |
| image_torn_template | MemoryImageTorn.cfg | violation | a crash between `open` and `close` leaves a short template that is reused forever |
| telescope_chain | TelescopeChain.cfg | pass | `telescope()` follows the same chain as the bounded loop of spec.md 9 (281 k states) |
| hook_order | HookSessionOrder.cfg | pass | no branch into the hook blob is active before the whole blob is written, and bla.py with the CLI implements spec.md 4.4's installer `HookInstaller` (141 k states) |
| conn_quiet | ConnectionQuiet.cfg | pass | with no link change during a command, sendlmp's choice and info's listing are exactly the array's active connections |
| conn_stale | ConnectionStale.cfg | violation | a link drops between sendlmp's check and its send, and the packet goes to no device or another one than the log line names (`SentToAnnounced`) |

Each violation is explained under `findings` in PROJECT.json.

Further properties that the code violates have cfgs kept beside these runs.
PROJECT.json's hazards point at them:

| Run | cfg | Expect | Shows |
|---|---|---|---|
| hci_stale_callback | HciMonitorStaleCallback.cfg | violation | the timer's stop racing start leaves the callback registered while stopped |
| image_other_chip | MemoryImageOtherChip.cfg | violation | the template of one chip is returned as another chip's ROM |
| patch_aligned | PatchCommandAligned.cfg | violation | CmdPatch installs a patch at an unaligned address |
| patch_slot | PatchCommandSlot.cfg | violation | `--slot 128` passes the check of line 941 |
| telescope_reads | TelescopeReads.cfg | violation | `work()` reads one word past the range it checked (line 645, after the check of line 640) |
| hook_report | HookSessionReport.cfg | violation | a failed EK_REQ patch is reported as PK_send (bla.py 145) |
| hook_overwrite | HookSessionOverwrite.cfg | violation | a CLI write over the blob leaves the branches into it active (`HooksWrittenBeforeBranch`) |

`HciMonitorTypes.cfg` checks `TypeOK` over 2 timers × 2 viewers
(6.5 M states, with symmetry). `HciMonitorProofs.TypeCorrect` proves it for
every instance.

Why these bounds are enough:
- Two timer chains suffice for the stale-timer races, since each race needs
  one chain that `cancel()` missed and one that a restart created.
- Two viewers suffice for the orphan race, since it needs an old viewer and
  a new one.
- One callback copy suffices: a second copy only exists after the
  stale-registration bug, which `hci_stale_callback` already shows.

For AddressCheck, addresses 0..11 and lengths 0..3 reach every case:
- inside a section, and past its end;
- in the gap between sections;
- at the shared boundary of the ROM and the RAM section.

For MemoryImage, one ROM and two RAM sections let a refresh fail between two
RAM splices. Three RAM versions let the RAM change before and during a call
and after the template is written. Two chips are enough for the template to
be reused by the wrong one.

For PatchCommand, two slots and a slot bound of 2 reach the full table, the
replace path, and the slot one past the table. Addresses 0, 2, 4, 6 and 8
are aligned ROM, unaligned ROM, ROM running into RAM, and RAM.

For Telescope, words 0..5 hold the values 0..4. This reaches chains of
several distinct pointers, cycles (mem[3] = 3) that only the depth bound
ends, targets in the unmapped gap, and the window test at a section end.

For HookSession, four slots give each hook a slot, and the firmware's own
patches can still fill the table. A two-chunk blob lets writeMem fail half
way. The user's writes start at word 10 in `hook_order`: the last RAM word,
where a two-word write leaves RAM and meets the warning. They start at word
9, inside the blob, in `HookSessionOverwrite.cfg`.

For ConnectionRegistry, three slots and two devices let two connections be
active at once with a free slot left, so a device can drop and reconnect in
another slot during a scan. The `-n` values 0..4 include both numbers just
outside `[1, 3]`. With symmetry on the devices, `conn_quiet` has 12 k states.
Symmetry on the devices is sound for its action property too: no
property names a device, and a permutation of devices maps each step to a
step.

Fairness is weak fairness on the CLI thread, the receive thread and each
Timer thread:
- A method that has started runs to its end.
- A Timer that is waiting fires.

The user typing commands, records arriving and the viewer exiting are not
forced. ConnectionRegistry is checked for safety only, with no fairness.

## 4. Mutants

Each property of a passing run is shown sensitive to a plausible bug:
- `TimersDieOut`: a `_pollTimer` without the `self.running` test
  (`PollCheckIgnoresRunning`) re-arms forever after stop.
- `FreshWhenAsked`: the template branch without its `refreshMemoryImage()`
  call (`InitLoadNoRefresh`) returns the template's old RAM.
- `ImageNeverOlder`: a `getMemoryImage` without its
  `Cmd.memory_image == None` test (`GetMemoryImageAlwaysInit`) reloads the
  template over a newer image; a refresh cut short by a failing read then
  leaves a section older than it was.
- `TelescopeIsBoundedLoop`: the depth test written `depth >= 0`
  (`TelescopeDeep`) follows five pointers instead of four.
- `HooksWrittenBeforeBranch`: bla.py without the check of writeMem's result
  (`WriteHooksUnchecked`) patches after a partial write.
- `ImplementsHookInstaller`: bla.py without the checks of patchRom's result
  (`InstallHookUnchecked`) goes on to the next hook when the table is full.
  The abstract installer never moves past a call site it did not patch.
- `QuietSendExact`: sendlmp without the `found_multiple_active` test
  (`ScanEndNoMultiple`) sends while two connections are active.
- `QuietInfoExact`: the info loop reading slot `i` instead of `i+1`
  (`InfoStepOffByOne`) raises IndexError at slot 0 and lists nothing.

## 5. Proofs

`HciMonitorProofs.TypeCorrect` proves `Spec => []TypeOK` for any finite sets
of timers and viewers and any callback bound. The proof is inductive, with
one lemma per thread:
- `CliType`, `RxType`, `TimerType`;
- `KillType`, for killMonitor run by either the CLI thread or the receive
  thread;
- `StopType`, for the stop steps shared by three callers;
- `FinishType` and `EscapeType`, for the return and the exception paths.

`TypeOK` is inductive as it stands. Its program-counter part is named
`PcOK`, and the lemma `PcStep` shows that moving one thread to one of its
own labels preserves it.

`AddressCheck.ExactWhenSeparated` proves, for every section list that
satisfies `SectionsAssumption` and in which no two sections touch or
overlap (`Separated`), that the check accepts exactly the non-empty
contained ranges. It rests on the lemma `Sound`: an accepted range lies in
the section that stopped the loop. The off-by-one of lines 105-109 therefore
matters only for touching sections, as the spec's layout has, and that is
the case `addr_complete` shows.
  The first section reached is written as a minimal element of `Stops`, not
  as a CHOOSE, so the proof needs no induction.

`MemoryImageProofs.FreshWhenAskedHolds` proves `Spec => []FreshWhenAsked`
for every layout, set of chips and RAM-version bound. The inductive
invariant `IInv` is needed because the property speaks only of the return.
It strengthens the property to every step of a fresh call:
- the RAM sections already read (`ReadSoFar`: those before `sec` in a loop,
  and all of them after the loop) were read at a version >= `callEpoch`;
- `callEpoch <= ramEpoch`;
- the image exists wherever the code dereferences it;
- the template exists wherever it is read.

There is one lemma per action. `LoopOnFacts` describes a step of the for
loops. The assumption `SentinelAssumption` says None and Absent are not
images, section contents or files.

`MemoryImageProofs.ImageNeverOlderHolds` proves the action property
`ImageNeverOlder`: no step with an image before and after makes a RAM
section of it older. A step alone does not show this. The refresh splices
in RAM at the current version, and that is no older only if no content held
is newer than the RAM. Reloading the template would go back in time, so
the template must be read only while there is no image. The second inductive
invariant, `AgeInv`, states exactly these two facts, for `dumped`, `image`
and the template file, which carries contents from one process to the next:
- while the CLI thread is at `init_read`, `fit` or `init_load` there is no
  image;
- every epoch held is `<= ramEpoch`.

`StepNeverOlder` then checks each action against `IInv /\ AgeInv`.

`HookSessionProofs.HooksWrittenBeforeBranchHolds` proves
`Spec => []HooksWrittenBeforeBranch` for every layout, capacity, blob
length and hook sites. It has one hypothesis, `ClearOfHooks`: the user's
writes miss the blob. `HookSessionOverwrite.cfg` shows what happens
without it.
The invariant adds `pc = "patch" => AllHooks`, which is what the script
knows once writeMem succeeded. There is one lemma per action.
`WriteMemOutside` and `WriteClear` say which words a write leaves alone.

`HookSessionRefinement.ImplementsHookInstallerHolds` proves
`Spec => ImplementsHookInstaller` under the same hypothesis, `ClearOfHooks`.
This is the refinement of the abstract installer, shown in the standard way:
- `InitRefines`: the initial states map to `HookInstaller`'s initial state;
- one lemma per action shows that each step maps to an abstract step or to
  a stutter.

The invariant `RInv` adds one fact to `IInv`: `NoHookBeforeWrite`, which
says no word holds `hook` before the script writes. Without it, a partial
write could not be shown to leave the blob incomplete, and so to map to
`Abort`.

Two lemmas carry the table reasoning:
- `PatchRomBranched`: patchRom with room adds exactly the call site. The
  slot it picks is free, or already patches that address. The "first free
  slot" exists by `WFMin` and `NatLessThanWellFounded`.
- `CliPatchRefines`: a delete takes away at most one call site.

`ConnectionRegistryProofs` proves `QuietSendExactHolds` and
`QuietInfoExactHolds`: `Spec => []QuietSendExact` and
`Spec => []QuietInfoExact` for every array size, set of devices and set of
`-n` values. Neither property is inductive, since each speaks only of the
end of a command. `IInv` adds the loop invariants:
- `ScanInv`: while sendlmp scans with no link changed, `found` is the
  last active record among the slots read, `found` is None exactly when
  there is none, and `multiple` says whether there is another one;
- `SendInv`: after the scan, still quiet, the record to send to is the only
  active one;
- `InfoInv`: `seen` is exactly the active records of the slots read;
- `PcOK`: which labels each command reaches.

Every controller step sets `changed`, so it ends every quiet period. That is
why `ControllerIInv` is short and `ScanStepIInv` carries the proof. The
assumption that None is not a record lets `found # None` mean "a record was
found".

`TelescopeProofs.TelescopeIsBoundedLoopHolds` proves
`Spec => []TelescopeIsBoundedLoop` for every section layout, memory size,
window size and set of stored values. In fact every address gives the same
chain both ways (`TelescopeIsLoop`), in every state where memory holds
natural numbers (`TypeOK`, which is inductive). The argument:
- `Hop` and `Telescoped` are recursive functions, defined by CHOOSE. Their
  defining equations (`HopEq`, `TelescopedEq`) are obtained from witnesses:
  `HopW` writes out the four iterations of `Word`, and `G` is the loop's
  chain cut at every depth d (`ChainD`, stopping at `StopsD`, with `LastD`
  the first stopping step).
- `LastDIsLast` and `IsLastUnique` show that the first stopping step exists
  and is unique. `HopShift` shows that a chain starting one word later is
  the same chain one hop later.
- `ChainStop` and `ChainFollow` show that one level of `telescope()`
  applied to the loop's chains gives the loop's chain (`GFix`).
- `TelescopedIsG`: the equation has only one solution, since depth d
  depends on depth d - 1 alone. It is unfolded over the five depths 0..4.
The depth is the constant 4 that `work()` passes, so no induction over
memory contents is needed. Cycles are handled because the proof never
follows the memory, only the depth.
`ChainBounded` follows from it: every chain has between 1 and 5 values,
so the recursion over untrusted memory is at most four calls deep.

`PatchCommandProofs` proves three lemmas about `Fit4`, for every set of
byte values that contains 0 (the padding byte). `Fit4Type`: the result is a
4-byte value. `Fit4Python`
shows that `Fit4` is the code's conversion (lines 976-981): `SubSeq(d, 1, 4)`
for data of 4 bytes or more, and `d` followed by zeros for shorter data.
`Fit4Idempotent` shows that a 4-byte value passes through unchanged.

Out of the prover's reach, and checked only by TLC:
- the liveness properties (`TimersDieOut`, `ViewerExitStopsMonitor`);
- the violated safety properties.

## 6. Not modelled

- `core.py` (CommandChannel, the readMem/writeMem protocol): not in this
  source tree.
- Record formatting in the callbacks (`struct.pack` of the pcap headers):
  the stream is abstracted to header-before-record.
- Console output, argument parsing and the assembler: external
  collaborators, excluded by the spec.
- The LMP monitor: not yet modelled.
- `sendLmpPacket` and `readConnectionInformation` live in the core. They are
  modelled from spec.md 4.5, and a failing read is left out because the spec
  does not say what it returns.
- `dumpmem`, `searchmem`, `hexdump` and `disasm` only read and print. Their
  use of the image cache is in MemoryImage.
- A controller reset in the middle of bla.py: what the core does with a
  reset during a session is not in this tree.
