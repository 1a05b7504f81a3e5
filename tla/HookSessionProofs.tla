------------------------- MODULE HookSessionProofs --------------------------
(***************************************************************************)
(* Proof that the hook installer never leaves a branch into the hook blob *)
(* active while the blob is not fully in RAM (HooksWrittenBeforeBranch),  *)
(* for every layout, table capacity, blob length and set of hook sites,   *)
(* as long as the user's own RAM writes stay clear of the blob.  The      *)
(* invariant is strengthened by what the script knows when it patches:    *)
(* at "patch" the whole blob has been written.                             *)
(***************************************************************************)
EXTENDS HookSession, SequenceTheorems, TLAPS

Labels == {"connect", "asm", "write", "patch", "done", "exit", "crash"}

Contents == {"junk", "hook", "data", "code"}

TypeOK ==
    /\ table \in [PC!Slots -> PC!PatchSlot]
    /\ passed \in PC!SlotArgs
    /\ ram \in [RamCells -> Contents]
    /\ pc \in Labels
    /\ site \in 1..4

AllHooks == \A c \in HookCells : ram[c] = "hook"

IInv ==
    /\ TypeOK
    /\ pc = "patch" => AllHooks
    /\ HooksWrittenBeforeBranch

\* The user's writes, of any length up to MaxChunks, miss the blob.
ClearOfHooks ==
    \A a \in WriteAddrs, l \in 1..MaxChunks : \A c \in HookCells : c \notin a..a + l - 1

\* A write leaves every word outside the chunks it wrote as it was.
LEMMA WriteMemOutside ==
    ASSUME NEW address \in Nat, NEW len \in Nat, NEW content \in Contents,
           NEW done \in 0..len, ram \in [RamCells -> Contents],
           WriteMem(address, len, content, done)
    PROVE  /\ ram' \in [RamCells -> Contents]
           /\ \A c \in RamCells : c \notin address..address + done - 1 => ram'[c] = ram[c]
           /\ \A c \in RamCells : c \in address..address + done - 1 => ram'[c] = content
  BY DEF WriteMem

LEMMA InitIInv == Init => IInv
  <1> SUFFICES ASSUME Init PROVE IInv
    OBVIOUS
  <1>1. PC!Unused \in PC!PatchSlot
    BY HookAssumption DEF PC!PatchAssumption, PC!Unused, PC!PatchSlot, PC!Value
  <1>2. Zero \in PC!Value
    BY HookAssumption DEF PC!PatchAssumption, Zero, PC!Value
  <1>3. TypeOK
    <2>1. \A a \in Addrs :
             [active |-> TRUE, address |-> a, value |-> Zero] \in PC!PatchSlot
      BY <1>2 DEF PC!PatchSlot
    <2>2. table \in [PC!Slots -> PC!PatchSlot]
      BY <1>1, <2>1 DEF Init
    <2>3. passed \in PC!SlotArgs
      BY DEF Init, PC!SlotArgs
    <2>4. ram \in [RamCells -> Contents] /\ pc \in Labels /\ site \in 1..4
      BY DEF Init, Contents, Labels
    <2>5. QED
      BY <2>2, <2>3, <2>4 DEF TypeOK
  <1>4. \A s \in PC!Slots : table[s].value # Branch
    BY HookAssumption DEF Init, PC!Unused, Zero
  <1>5. QED
    BY <1>3, <1>4 DEF Init, IInv, HooksWrittenBeforeBranch

\* Connecting and assembling touch neither RAM nor the table, and never
\* reach "patch".
LEMMA ConnectAsmIInv ==
    ASSUME IInv, Connect \/ AsmHooks
    PROVE  IInv'
  BY DEF IInv, TypeOK, Connect, AsmHooks, Labels, HooksWrittenBeforeBranch, AllHooks

\* The script reaches "patch" only once the whole blob is written, and a
\* partial write keeps what was there.
LEMMA WriteHooksIInv ==
    ASSUME IInv, WriteHooks
    PROVE  IInv'
  <1>1. PICK done \in 0..HooksLen :
           /\ WriteMem(HooksLocation, HooksLen, "hook", done)
           /\ IF done = HooksLen THEN pc' = "patch" /\ UNCHANGED reported
                                 ELSE pc' = "exit" /\ reported' = "write"
    BY DEF WriteHooks
  <1>2. /\ ram' \in [RamCells -> Contents]
        /\ \A c \in RamCells : c \notin HooksLocation..HooksLocation + done - 1 => ram'[c] = ram[c]
        /\ \A c \in RamCells : c \in HooksLocation..HooksLocation + done - 1 => ram'[c] = "hook"
    BY <1>1, HookAssumption, WriteMemOutside DEF IInv, TypeOK, Contents
  <1>3. \A c \in HookCells : ram[c] = "hook" => ram'[c] = "hook"
    BY <1>2, HookAssumption DEF HookCells
  <1>4. pc' = "patch" => AllHooks'
    <2>1. pc' = "patch" => done = HooksLen
      BY <1>1
    <2>2. done = HooksLen => \A c \in HookCells : ram'[c] = "hook"
      BY <1>2, HookAssumption DEF HookCells
    <2>3. QED
      BY <2>1, <2>2 DEF AllHooks
  <1>5. HooksWrittenBeforeBranch'
    BY <1>3 DEF WriteHooks, IInv, HooksWrittenBeforeBranch
  <1>6. TypeOK'
    BY <1>1, <1>2 DEF WriteHooks, IInv, TypeOK, Labels
  <1>7. QED
    BY <1>4, <1>5, <1>6 DEF IInv

\* patchRom writes a well-formed slot.
LEMMA PatchRomType ==
    ASSUME table \in [PC!Slots -> PC!PatchSlot], NEW address \in Addrs,
           NEW value \in PC!Value,
           PC!PatchRom(address, value, None)
    PROVE  table' \in [PC!Slots -> PC!PatchSlot]
  BY DEF PC!PatchRom, PC!PatchSlot

\* A hook is patched in only while the whole blob is in RAM, and RAM is
\* left alone.
LEMMA InstallHookIInv ==
    ASSUME IInv, InstallHook
    PROVE  IInv'
  <1>1. AllHooks /\ AllHooks'
    BY DEF IInv, InstallHook, AllHooks
  <1>2. site \in 1..4 /\ table \in [PC!Slots -> PC!PatchSlot]
    BY DEF IInv, TypeOK
  <1>3. Sites[site] \in Addrs
    <2>1. Sites \in Seq(Addrs) /\ Len(Sites) = 4
      BY HookAssumption
    <2>2. QED
      BY <1>2, <2>1, ElementOfSeq
  <1>4. UNCHANGED <<passed, ram>>
    BY DEF InstallHook
  <1>5. CASE site = 4 /\ ~EkReqKnown
    <2>1. pc' = "crash" /\ UNCHANGED <<table, site>>
      BY <1>5 DEF InstallHook
    <2>2. QED
      BY <1>1, <1>4, <2>1 DEF IInv, TypeOK, Labels, HooksWrittenBeforeBranch
  <1>6. CASE ~(site = 4 /\ ~EkReqKnown)
    <2>1. CASE /\ PC!PatchRom(Sites[site], Branch, None)
               /\ pc' = IF site = 4 THEN "done" ELSE "patch"
               /\ site' = IF site = 4 THEN site ELSE site + 1
      <3>1. table' \in [PC!Slots -> PC!PatchSlot]
        BY <1>2, <1>3, <2>1, HookAssumption, PatchRomType
      <3>2. pc' \in Labels /\ site' \in 1..4
        BY <1>2, <2>1 DEF Labels
      <3>3. QED
        BY <1>1, <1>4, <3>1, <3>2 DEF IInv, TypeOK, HooksWrittenBeforeBranch, AllHooks
    <2>2. CASE pc' = "exit" /\ UNCHANGED <<table, site>>
      BY <1>1, <1>4, <2>2 DEF IInv, TypeOK, Labels, HooksWrittenBeforeBranch, AllHooks
    <2>3. QED
      BY <1>6, <2>1, <2>2 DEF InstallHook
  <1>7. QED
    BY <1>5, <1>6


\* A write clear of the blob leaves every word of it as it was.
LEMMA WriteClear ==
    ASSUME IInv, ClearOfHooks, NEW address \in WriteAddrs, NEW len \in 1..MaxChunks,
           NEW content \in {"data", "code"}, NEW done \in 0..len,
           WriteMem(address, len, content, done)
    PROVE  ram' \in [RamCells -> Contents] /\ \A c \in HookCells : ram'[c] = ram[c]
  <1>1. address \in Nat /\ len \in Nat
    BY HookAssumption
  <1>2. /\ ram' \in [RamCells -> Contents]
        /\ \A c \in RamCells : c \notin address..address + done - 1 => ram'[c] = ram[c]
    BY <1>1, WriteMemOutside DEF IInv, TypeOK, Contents
  <1>3. \A c \in HookCells : c \notin address..address + len - 1
    BY DEF ClearOfHooks
  <1>4. HookCells \subseteq RamCells
    BY HookAssumption DEF HookCells
  <1>5. address..address + done - 1 \subseteq address..address + len - 1
    BY <1>1
  <1>6. QED
    BY <1>2, <1>3, <1>4, <1>5

\* writemem, writeasm and exec, with writes clear of the blob, leave it
\* as it was.
LEMMA CliWriteIInv ==
    ASSUME IInv, ClearOfHooks, CliWrite
    PROVE  IInv'
  <1>1. UNCHANGED <<table, passed, pc, site, reported>>
    BY DEF CliWrite, CmdWriteMem, CmdWriteAsm, CmdExec
  <1>2. \/ UNCHANGED ram
        \/ \E address \in WriteAddrs, len \in 1..MaxChunks, content \in {"data", "code"} :
              \E done \in 0..len : WriteMem(address, len, content, done)
    BY DEF CliWrite, CmdWriteMem, CmdWriteAsm, CmdExec, GatedWrite
  <1>3. ram' \in [RamCells -> Contents] /\ \A c \in HookCells : ram'[c] = ram[c]
    <2>1. CASE UNCHANGED ram
      BY <2>1 DEF IInv, TypeOK
    <2>2. CASE \E address \in WriteAddrs, len \in 1..MaxChunks, content \in {"data", "code"} :
                  \E done \in 0..len : WriteMem(address, len, content, done)
      BY <2>2, WriteClear
    <2>3. QED
      BY <1>2, <2>1, <2>2
  <1>4. QED
    BY <1>1, <1>3 DEF IInv, TypeOK, AllHooks, HooksWrittenBeforeBranch

\* patch --delete only switches slots off, so every active branch into
\* the blob was active before.
LEMMA CliPatchIInv ==
    ASSUME IInv, CliPatch
    PROVE  IInv'
  <1>1. PICK a \in Addrs \cup {None}, s \in PC!SlotArgs : PC!PatchDelete(a, s)
    BY DEF CliPatch
  <1>2. UNCHANGED <<ram, pc, site, reported>>
    BY DEF CliPatch
  <1>3. /\ table' \in [PC!Slots -> PC!PatchSlot]
        /\ passed' \in PC!SlotArgs
        /\ \A t \in PC!Slots : table'[t].active /\ table'[t].value = Branch =>
                                 table[t].active /\ table[t].value = Branch
    <2>1. CASE PC!Refuse
      BY <2>1 DEF PC!Refuse, IInv, TypeOK, PC!SlotArgs
    <2>2. CASE PC!DisableRomPatch(a, s) /\ passed' = s
      BY <2>2 DEF PC!DisableRomPatch, IInv, TypeOK, PC!PatchSlot
    <2>3. QED
      BY <1>1, <2>1, <2>2 DEF PC!PatchDelete
  <1>4. QED
    BY <1>2, <1>3 DEF IInv, TypeOK, AllHooks, HooksWrittenBeforeBranch

\* Whatever the script's steps fail, and whatever patch --delete and RAM
\* writes clear of the blob the user issues meanwhile, no active patch
\* branches into a blob that is not fully written (the property
\* HooksWrittenBeforeBranch of run hook_order): bla.py checks writeMem's
\* result at line 112 before its first patchRom.
THEOREM HooksWrittenBeforeBranchHolds ==
    ASSUME ClearOfHooks
    PROVE  Spec => []HooksWrittenBeforeBranch
  <1>1. IInv /\ [Next]_vars => IInv'
    <2> SUFFICES ASSUME IInv, [Next]_vars PROVE IInv'
      OBVIOUS
    <2>1. CASE Connect \/ AsmHooks
      BY <2>1, ConnectAsmIInv
    <2>2. CASE WriteHooks
      BY <2>2, WriteHooksIInv
    <2>3. CASE InstallHook
      BY <2>3, InstallHookIInv
    <2>4. CASE CliWrite
      BY <2>4, CliWriteIInv
    <2>5. CASE CliPatch
      BY <2>5, CliPatchIInv
    <2>6. CASE UNCHANGED vars
      BY <2>6 DEF vars, IInv, TypeOK, AllHooks, HooksWrittenBeforeBranch
    <2>7. QED
      BY <2>1, <2>2, <2>3, <2>4, <2>5, <2>6 DEF Next, Script
  <1>2. QED
    BY <1>1, InitIInv, PTL DEF Spec, IInv

=============================================================================
