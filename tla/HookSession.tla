---------------------------- MODULE HookSession -----------------------------
(***************************************************************************)
(* The hook installer of examples/bla.py (lines 104-146) and the user's   *)
(* CLI session on the same controller: the RAM writes of writemem,        *)
(* writeasm and exec (cmds.py lines 705-881) and the patch command        *)
(* (PatchCommand).  The script writes the hook blob to HOOKS_LOCATION,    *)
(* then installs one ROM patch per call site, each a branch into the      *)
(* blob; it exits on the first failure, with no rollback.                  *)
(*                                                                         *)
(* RAM is a function from words to what was last written there: "junk"   *)
(* (whatever the controller had), "hook" (the script's blob), or "data"   *)
(* or "code" (a CLI writemem, or writeasm and exec).  The core's writeMem *)
(* and patchRom are not in this source tree: writeMem follows spec.md 4.2 *)
(* (refused outside one RAM section, chunked, a failing chunk ends the    *)
(* call after the chunks before it), patchRom is PatchCommand's.  A CLI   *)
(* command is one step; the script is a process of its own, so the two    *)
(* interleave.                                                             *)
(***************************************************************************)
EXTENDS Integers, Sequences

CONSTANTS
    Sections, N, SlotLimit, Addrs, Bytes, None,   \* as in PatchCommand
    RamCells,       \* the RAM words modelled
    HooksLocation,  \* HOOKS_LOCATION
    HooksLen,       \* the length of the assembled blob, in chunks
    Sites,          \* PK_RECV, PK_SEND, GEN_PRIV_KEY, EK_REQ hook addresses
    Branch,         \* the 4 bytes of "bl HOOKS_LOCATION+k"
    WriteAddrs,     \* the addresses the user passes to writemem/writeasm/exec
    MaxChunks,      \* the longest CLI write, in chunks
    AsmHooksOk,     \* ASM_HOOKS assembles (FALSE as shipped: line 61 is "TODO")
    EkReqKnown      \* EK_REQ_HOOK_ADDRESS is set (FALSE as shipped: line 48)

VARIABLES
    table, passed,  \* the patch table and CmdPatch's last slot (PatchCommand)
    ram,            \* RamCells -> {"junk", "hook", "data", "code"}
    pc,             \* where the script is
    site,           \* the hook the script installs next, 1..Len(Sites)
    reported,       \* the hook the script's last log.critical names, or None
    launched        \* the address exec last had the controller jump to, or None

PC == INSTANCE PatchCommand

ASSUME HookAssumption ==
    /\ PC!PatchAssumption
    /\ HooksLen \in Nat \ {0} /\ MaxChunks \in Nat \ {0}
    /\ RamCells \subseteq Nat /\ WriteAddrs \subseteq Nat /\ HooksLocation \in Nat
    /\ HooksLocation..HooksLocation + HooksLen - 1 \subseteq RamCells
    /\ Sites \in Seq(Addrs) /\ Len(Sites) = 4
    /\ Branch \in PC!Value /\ Branch # [i \in 1..4 |-> 0]
    /\ AsmHooksOk \in BOOLEAN /\ EkReqKnown \in BOOLEAN

vars == <<table, passed, ram, pc, site, reported, launched>>

HookCells == HooksLocation..HooksLocation + HooksLen - 1

\* The name each log.critical of lines 121-145 gives its hook, and the name
\* of the hook that step installs.
Message  == <<"PK_recv", "PK_send", "GEN_PRIV_KEY", "PK_send">>
SiteName == <<"PK_recv", "PK_send", "GEN_PRIV_KEY", "EK_REQ">>

\* spec.md 4.2 writeMem(address, data): nothing is written unless
\* [address, address + len) lies in one RAM section; otherwise the first
\* "done" chunks are written, all of them when the call succeeds.
WriteMem(address, len, content, done) ==
    /\ PC!AC!Contained(address, len, "RAM")
    /\ ram' = [c \in RamCells |->
                 IF c \in address..address + done - 1 THEN content ELSE ram[c]]

\* The zero-filled 4-byte value.
Zero == [i \in 1..4 |-> 0]

\* patchRom without a slot finds one: the slot already patching the
\* address, or a free one (spec.md 4.3); otherwise NoFreeSlot.
HasRoom(address) ==
    \E s \in PC!Slots : ~table[s].active \/ table[s].address = address

\* A fresh controller: RAM holds junk; the table is empty but for the
\* firmware's own patches at aligned ROM addresses.
Init ==
    /\ table \in [PC!Slots -> {PC!Unused} \cup
                    {[active |-> TRUE, address |-> a, value |-> Zero] :
                        a \in {b \in Addrs : PC!InRom(b) /\ b % 4 = 0}}]
    /\ passed = None
    /\ ram = [c \in RamCells |-> "junk"]
    /\ pc = "connect" /\ site = 1 /\ reported = None
    /\ launched = None

-----------------------------------------------------------------------------
(* The script.                                                             *)

\* Lines 105-107: no connection ends the script.
Connect ==
    /\ pc = "connect"
    /\ \/ pc' = "asm" /\ UNCHANGED reported
       \/ pc' = "exit" /\ reported' = "connect"
    /\ UNCHANGED <<table, passed, ram, site, launched>>

\* Line 110: the assembler raises on the "TODO" of line 61, uncaught.
AsmHooks ==
    /\ pc = "asm"
    /\ pc' = IF AsmHooksOk THEN "write" ELSE "crash"
    /\ UNCHANGED <<table, passed, ram, site, reported, launched>>

\* Mutant: the result of writeMem at line 112 not checked.
WriteHooksUnchecked ==
    /\ pc = "write"
    /\ \E done \in 0..HooksLen :
          /\ WriteMem(HooksLocation, HooksLen, "hook", done)
          /\ pc' = "patch" /\ UNCHANGED reported
    /\ UNCHANGED <<table, passed, site, launched>>

\* Lines 112-114: write the blob; a failed write ends the script.
WriteHooks ==
    /\ pc = "write"
    /\ \E done \in 0..HooksLen :
          /\ WriteMem(HooksLocation, HooksLen, "hook", done)
          /\ IF done = HooksLen THEN pc' = "patch" /\ UNCHANGED reported
                                ELSE pc' = "exit" /\ reported' = "write"
    /\ UNCHANGED <<table, passed, site, launched>>

\* Mutant: the result of patchRom not checked; the script goes on with the
\* next hook whether or not the patch went in.
InstallHookUnchecked ==
    /\ pc = "patch"
    /\ IF site = 4 /\ ~EkReqKnown
       THEN pc' = "crash" /\ UNCHANGED <<table, reported, site>>
       ELSE /\ PC!PatchRom(Sites[site], Branch, None)
            /\ pc' = IF site = 4 THEN "done" ELSE "patch"
            /\ site' = IF site = 4 THEN site ELSE site + 1
            /\ UNCHANGED reported
    /\ UNCHANGED <<passed, ram, launched>>

\* Lines 119-146, one hook per step: assemble the branch (for EK_REQ with
\* vma='TODO' this raises), then patchRom; a failure is logged under the
\* name of line 121, 127, 138 or 145 and ends the script.
InstallHook ==
    /\ pc = "patch"
    /\ IF site = 4 /\ ~EkReqKnown
       THEN pc' = "crash" /\ UNCHANGED <<table, reported, site>>
       ELSE \/ /\ PC!PatchRom(Sites[site], Branch, None)
               /\ HasRoom(Sites[site])
               /\ pc' = IF site = 4 THEN "done" ELSE "patch"
               /\ site' = IF site = 4 THEN site ELSE site + 1
               /\ UNCHANGED reported
            \/ /\ pc' = "exit" /\ reported' = Message[site]
               /\ UNCHANGED <<table, site>>
    /\ UNCHANGED <<passed, ram, launched>>

Script == Connect \/ AsmHooks \/ WriteHooks \/ InstallHook

-----------------------------------------------------------------------------
(* The user's CLI session.                                                 *)

\* The warning of lines 729-732 (writeasm 797-800): outside RAM the write
\* goes ahead only on a "yes"; then writeMem, which may fail part way.
GatedWrite(address, len, content, answer) ==
    \/ /\ ~PC!AC!IsAddressInSections(address, len, "RAM") /\ ~answer
       /\ UNCHANGED ram
    \/ /\ PC!AC!IsAddressInSections(address, len, "RAM") \/ answer
       /\ \E done \in 0..len : WriteMem(address, len, content, done)

\* writemem address data (lines 705-740); a missing or unconvertible data
\* argument returns before the write, like a "no".
CmdWriteMem ==
    /\ \E address \in WriteAddrs, len \in 1..MaxChunks, answer \in BOOLEAN :
          GatedWrite(address, len, "data", answer)
    /\ UNCHANGED <<table, passed, pc, site, reported, launched>>

\* writeasm address code (lines 757-808): a failed or empty assembly, or a
\* dry run, returns before the warning.
CmdWriteAsm ==
    /\ \E address \in WriteAddrs, len \in 1..MaxChunks, answer \in BOOLEAN :
          \/ UNCHANGED ram
          \/ GatedWrite(address, len, "code", answer)
    /\ UNCHANGED <<table, passed, pc, site, reported, launched>>

\* exec cmd --addr address (lines 826-881): a failed or empty assembly, or
\* a dry run, returns early; outside RAM the warning itself raises
\* (args.data does not exist, line 864), so exec only writes inside RAM,
\* and launchRam follows a successful write (unacknowledged, it changes
\* nothing).
CmdExec ==
    /\ \E address \in WriteAddrs, len \in 1..MaxChunks :
          \/ UNCHANGED <<ram, launched>>
          \/ /\ ~PC!AC!IsAddressInSections(address, len, "RAM")
             /\ UNCHANGED <<ram, launched>>
          \/ /\ PC!AC!IsAddressInSections(address, len, "RAM")
             /\ \E done \in 0..len :
                   /\ WriteMem(address, len, "code", done)
                   /\ IF done = len THEN launched' \in {launched, address}
                                    ELSE UNCHANGED launched
    /\ UNCHANGED <<table, passed, pc, site, reported>>

CliWrite == CmdWriteMem \/ CmdWriteAsm \/ CmdExec

\* patch --delete on the CLI, by slot or by address.
CliPatch ==
    /\ \E a \in Addrs \cup {None}, s \in PC!SlotArgs : PC!PatchDelete(a, s)
    /\ UNCHANGED <<ram, pc, site, reported, launched>>

Next == Script \/ CliWrite \/ CliPatch

Spec == Init /\ [][Next]_vars

-----------------------------------------------------------------------------
\* spec.md 4.4's ordering invariant: whenever a patch branching into the
\* hook blob is active, the whole blob is in RAM as the script wrote it.
\* The script only patches after writeMem reported the whole blob written
\* (line 112); nothing in writemem, writeasm or exec looks at the patch
\* table before overwriting RAM.
HooksWrittenBeforeBranch ==
    (\E s \in PC!Slots : table[s].active /\ table[s].value = Branch)
        => \A c \in HookCells : ram[c] = "hook"

\* spec.md 4.4: a failure aborts the install and reports which step failed:
\* the script's last message names the hook whose patch failed.
ReportsFailedStep ==
    pc = "exit" /\ reported \in {Message[i] : i \in 1..4} => reported = SiteName[site]


-----------------------------------------------------------------------------
(* The refinement mapping to spec.md 4.4's installer (HookInstaller).     *)

\* The stage of the install the script is in.
Stage ==
    IF pc \in {"connect", "asm", "write"} THEN "prepare"
    ELSE IF pc = "patch" THEN "patching"
    ELSE IF pc = "done" THEN "done"
    ELSE "aborted"

\* The blob is whole in RAM.
BlobInRam == \A c \in HookCells : ram[c] = "hook"

\* The addresses an active patch branches from into the blob.
Branched ==
    {table[s].address : s \in {t \in PC!Slots : table[t].active /\ table[t].value = Branch}}

HI == INSTANCE HookInstaller WITH stage <- Stage, blob <- BlobInRam, next <- site,
                                  branched <- Branched

\* bla.py, with the CLI session beside it, implements spec.md 4.4's
\* installer: it writes the whole blob before its first patchRom (line
\* 112), patches the hooks one at a time in the order of lines 119-146,
\* each only once patchRom reported success, stops at the first failure
\* without undoing a patch, and a branch goes away only by patch --delete.
ImplementsHookInstaller == HI!Spec

=============================================================================
