----------------------- MODULE HookSessionRefinement ------------------------
(***************************************************************************)
(* Proof that the script of bla.py, beside the user's CLI session, is an  *)
(* implementation of spec.md 4.4's installer (HookInstaller) under the     *)
(* mapping of HookSession: the stage from the script's pc, the blob from  *)
(* RAM, the next call site from the script's site, and the branched call   *)
(* sites from the patch table.  It holds for every layout, table capacity *)
(* and set of hook sites, as long as the user's RAM writes stay clear of   *)
(* the blob.  Besides HookSessionProofs' invariant it needs one fact: no  *)
(* word of the blob holds "hook" before the script writes it, so a write  *)
(* that fails part way leaves the blob incomplete.                         *)
(***************************************************************************)
EXTENDS HookSessionProofs, WellFoundedInduction

\* Before the script's write, no word of the blob holds the hook.
NoHookBeforeWrite ==
    pc \in {"connect", "asm", "write"} => \A c \in HookCells : ram[c] # "hook"

RInv == IInv /\ NoHookBeforeWrite

\* A call site is branched when an active slot branches from it.
LEMMA BranchedMember ==
    ASSUME NEW x
    PROVE  /\ x \in Branched <=>
                 \E s \in PC!Slots : table[s].active /\ table[s].value = Branch
                                     /\ table[s].address = x
           /\ x \in Branched' <=>
                 \E s \in PC!Slots : table'[s].active /\ table'[s].value = Branch
                                     /\ table'[s].address = x
  BY DEF Branched

\* A set that loses at most the element x either stays or loses x.
LEMMA LosesAtMostOne ==
    ASSUME NEW S, NEW T, NEW x, T \subseteq S, S \ T \subseteq {x}
    PROVE  T = S \/ (x \in S /\ T = S \ {x})
  OBVIOUS

\* The blob is not whole at the start.
LEMMA HookCellsNonEmpty == HooksLocation \in HookCells
  BY HookAssumption DEF HookCells

-----------------------------------------------------------------------------
\* HookSessionProofs' invariant is kept by every step.
LEMMA IInvNext ==
    ASSUME ClearOfHooks, IInv, [Next]_vars
    PROVE  IInv'
  <1>1. CASE Connect \/ AsmHooks
    BY <1>1, ConnectAsmIInv
  <1>2. CASE WriteHooks
    BY <1>2, WriteHooksIInv
  <1>3. CASE InstallHook
    BY <1>3, InstallHookIInv
  <1>4. CASE CliWrite
    BY <1>4, CliWriteIInv
  <1>5. CASE CliPatch
    BY <1>5, CliPatchIInv
  <1>6. CASE UNCHANGED vars
    BY <1>6 DEF vars, IInv, TypeOK, AllHooks, HooksWrittenBeforeBranch
  <1>7. QED
    BY <1>1, <1>2, <1>3, <1>4, <1>5, <1>6 DEF Next, Script

\* The user's writes, clear of the blob, leave every word of it as it was.
LEMMA CliWriteKeepsBlob ==
    ASSUME ClearOfHooks, IInv, CliWrite
    PROVE  \A c \in HookCells : ram'[c] = ram[c]
  <1>1. CASE UNCHANGED ram
    BY <1>1
  <1>2. CASE \E address \in WriteAddrs, len \in 1..MaxChunks, content \in {"data", "code"} :
                \E done \in 0..len : WriteMem(address, len, content, done)
    BY <1>2, WriteClear
  <1>3. QED
    BY <1>1, <1>2 DEF CliWrite, CmdWriteMem, CmdWriteAsm, CmdExec, GatedWrite

\* Only the script writes the hook, and only in its write step.
LEMMA NoHookBeforeWriteNext ==
    ASSUME ClearOfHooks, RInv, [Next]_vars
    PROVE  NoHookBeforeWrite'
  <1>1. CASE Connect \/ AsmHooks
    BY <1>1 DEF Connect, AsmHooks, RInv, NoHookBeforeWrite
  <1>2. CASE WriteHooks \/ InstallHook
    BY <1>2 DEF WriteHooks, InstallHook, NoHookBeforeWrite
  <1>3. CASE CliWrite
    <2>1. pc' = pc
      BY <1>3 DEF CliWrite, CmdWriteMem, CmdWriteAsm, CmdExec
    <2>2. \A c \in HookCells : ram'[c] = ram[c]
      BY <1>3, CliWriteKeepsBlob DEF RInv
    <2>3. QED
      BY <2>1, <2>2 DEF RInv, NoHookBeforeWrite
  <1>4. CASE CliPatch
    BY <1>4 DEF CliPatch, RInv, NoHookBeforeWrite
  <1>5. CASE UNCHANGED vars
    BY <1>5 DEF vars, RInv, NoHookBeforeWrite
  <1>6. QED
    BY <1>1, <1>2, <1>3, <1>4, <1>5 DEF Next, Script

LEMMA InitRInv == Init => RInv
  <1> SUFFICES ASSUME Init PROVE RInv
    OBVIOUS
  <1>1. IInv
    BY InitIInv
  <1>2. HookCells \subseteq RamCells
    BY HookAssumption DEF HookCells
  <1>3. NoHookBeforeWrite
    BY <1>2 DEF Init, NoHookBeforeWrite
  <1>4. QED
    BY <1>1, <1>3 DEF RInv

LEMMA RInvNext ==
    ASSUME ClearOfHooks, RInv, [Next]_vars
    PROVE  RInv'
  BY IInvNext, NoHookBeforeWriteNext DEF RInv

-----------------------------------------------------------------------------
(* The mapping, step by step.                                              *)

\* A step that leaves RAM and the table alone keeps the blob and the
\* branched call sites.
LEMMA QuietMapping ==
    ASSUME UNCHANGED <<ram, table>>
    PROVE  BlobInRam' = BlobInRam /\ Branched' = Branched
  BY DEF BlobInRam, Branched

\* patchRom without a slot, with room in the table, makes the address a
\* branched call site and leaves every other branch as it was: the slot it
\* writes is free or already patches that address.
LEMMA PatchRomBranched ==
    ASSUME TypeOK, NEW a \in Addrs, HasRoom(a), PC!PatchRom(a, Branch, None)
    PROVE  Branched' = Branched \cup {a}
  <1> DEFINE patching == {s \in PC!Slots : table[s].active /\ table[s].address = a}
             free     == {s \in PC!Slots : ~table[s].active}
             entry    == [active |-> TRUE, address |-> a, value |-> Branch]
  <1>1. \E t \in patching \cup free : table' = [table EXCEPT ![t] = entry]
    <2>1. CASE patching # {}
      BY <2>1 DEF PC!PatchRom
    <2>2. CASE patching = {}
      <3>1. free # {}
        BY <2>2 DEF HasRoom
      <3>2. \E x \in free : \A y \in free : x <= y
        <4>1. free \subseteq Nat
          BY HookAssumption DEF PC!PatchAssumption, PC!Slots
        <4>2. PICK x \in free : \A y \in free : ~(<<y, x>> \in OpToRel(<, Nat))
          BY <3>1, <4>1, WFMin, NatLessThanWellFounded
        <4>3. ASSUME NEW y \in free PROVE x <= y
          <5>1. <<y, x>> \in Nat \X Nat
            BY <4>1
          <5>2. ~(y < x)
            BY <4>2, <5>1 DEF OpToRel
          <5>3. QED
            BY <4>1, <5>2
        <4>4. QED
          BY <4>3
      <3>3. QED
        BY <2>2, <3>2 DEF PC!PatchRom
    <2>3. QED
      BY <2>1, <2>2
  <1>2. PICK t \in patching \cup free : table' = [table EXCEPT ![t] = entry]
    BY <1>1
  <1>3. \A u \in PC!Slots : u # t => table'[u] = table[u]
    BY <1>2 DEF TypeOK
  <1>4. table'[t] = entry
    BY <1>2 DEF TypeOK
  <1>5. Branched' \subseteq Branched \cup {a}
    BY <1>3, <1>4 DEF Branched
  <1>6. Branched \cup {a} \subseteq Branched'
    <2>1. a \in Branched'
      BY <1>4 DEF Branched
    <2>2. ASSUME NEW u \in PC!Slots, table[u].active, table[u].value = Branch
          PROVE  table[u].address \in Branched'
      <3>1. CASE u = t
        BY <2>1, <2>2, <3>1
      <3>2. CASE u # t
        BY <1>3, <2>2, <3>2 DEF Branched
      <3>3. QED
        BY <3>1, <3>2
    <2>3. QED
      BY <2>1, <2>2 DEF Branched
  <1>7. QED
    BY <1>5, <1>6

\* The installer starts preparing, with no blob and no branch.
LEMMA InitRefines == Init => HI!Init
  <1> SUFFICES ASSUME Init PROVE HI!Init
    OBVIOUS
  <1>1. Stage = "prepare"
    BY DEF Init, Stage
  <1>2. ~BlobInRam
    <2>1. HooksLocation \in RamCells
      BY HookCellsNonEmpty, HookAssumption DEF HookCells
    <2>2. QED
      BY <2>1, HookCellsNonEmpty DEF Init, BlobInRam
  <1>3. Branched = {}
    <2>1. \A s \in PC!Slots : table[s].value # Branch
      BY HookAssumption DEF Init, PC!Unused, Zero
    <2>2. QED
      BY <2>1 DEF Branched
  <1>4. QED
    BY <1>1, <1>2, <1>3 DEF Init, HI!Init

\* Connecting and assembling stay in the preparation, or abort it.
LEMMA ConnectAsmRefines ==
    ASSUME RInv, Connect \/ AsmHooks
    PROVE  [HI!Next]_HI!vars
  <1>1. UNCHANGED <<ram, table, site>>
    BY DEF Connect, AsmHooks
  <1>2. BlobInRam' = BlobInRam /\ Branched' = Branched
    BY <1>1, QuietMapping
  <1>3. Stage = "prepare"
    BY DEF Connect, AsmHooks, Stage
  <1>4. CASE pc' \in {"asm", "write"}
    <2>1. Stage' = "prepare"
      BY <1>4 DEF Stage
    <2>2. QED
      BY <1>1, <1>2, <1>3, <2>1 DEF HI!vars
  <1>5. CASE pc' \in {"exit", "crash"}
    <2>1. Stage' = "aborted"
      BY <1>5 DEF Stage
    <2>2. QED
      BY <1>1, <1>2, <1>3, <2>1 DEF HI!Next, HI!Abort
  <1>6. QED
    BY <1>4, <1>5 DEF Connect, AsmHooks

\* A whole write is the installer's steps 1-2; a partial one aborts with
\* the blob still incomplete.
LEMMA WriteRefines ==
    ASSUME RInv, WriteHooks
    PROVE  [HI!Next]_HI!vars
  <1>1. PICK done \in 0..HooksLen :
           /\ WriteMem(HooksLocation, HooksLen, "hook", done)
           /\ IF done = HooksLen THEN pc' = "patch" /\ UNCHANGED reported
                                 ELSE pc' = "exit" /\ reported' = "write"
    BY DEF WriteHooks
  <1>2. UNCHANGED <<table, site>> /\ Stage = "prepare"
    BY DEF WriteHooks, Stage
  <1>3. Branched' = Branched
    BY <1>2 DEF Branched
  <1>4. ~BlobInRam
    BY HookCellsNonEmpty DEF RInv, NoHookBeforeWrite, WriteHooks, BlobInRam
  <1>5. CASE done = HooksLen
    <2>1. pc' = "patch"
      BY <1>1, <1>5
    <2>2. IInv'
      BY WriteHooksIInv DEF RInv
    <2>3. BlobInRam'
      BY <2>1, <2>2 DEF IInv, AllHooks, BlobInRam
    <2>4. Stage' = "patching"
      BY <2>1 DEF Stage
    <2>5. QED
      BY <1>2, <1>3, <2>3, <2>4 DEF HI!Next, HI!WriteBlobs
  <1>6. CASE done # HooksLen
    <2>1. pc' = "exit"
      BY <1>1, <1>6
    <2> DEFINE last == HooksLocation + HooksLen - 1
    <2>2. /\ last \in HookCells /\ last \in RamCells
          /\ last \notin HooksLocation..HooksLocation + done - 1
      BY <1>6, HookAssumption DEF HookCells
    <2>3. ram'[last] = ram[last]
      <3>1. HooksLocation \in Nat /\ HooksLen \in Nat /\ "hook" \in Contents
        BY HookAssumption DEF Contents
      <3>2. ram \in [RamCells -> Contents]
        BY DEF RInv, IInv, TypeOK
      <3>3. QED
        BY <1>1, <2>2, <3>1, <3>2, WriteMemOutside
    <2>4. ram[last] # "hook"
      BY <2>2 DEF RInv, NoHookBeforeWrite, WriteHooks
    <2>5. ~BlobInRam'
      BY <2>2, <2>3, <2>4 DEF BlobInRam
    <2>6. Stage' = "aborted"
      BY <2>1 DEF Stage
    <2>7. BlobInRam' = BlobInRam
      BY <1>4, <2>5 DEF BlobInRam
    <2>8. QED
      BY <1>2, <1>3, <2>6, <2>7 DEF HI!Next, HI!Abort
  <1>7. QED
    BY <1>5, <1>6

\* Each hook the script patches is the installer's next call site; a
\* failed patch or the unassembled EK_REQ branch aborts.
LEMMA InstallRefines ==
    ASSUME RInv, InstallHook
    PROVE  [HI!Next]_HI!vars
  <1>1. UNCHANGED ram /\ Stage = "patching" /\ BlobInRam
    BY DEF InstallHook, Stage, RInv, IInv, AllHooks, BlobInRam
  <1>2. BlobInRam' = BlobInRam
    BY <1>1 DEF BlobInRam
  <1>3. CASE site = 4 /\ ~EkReqKnown
    <2>1. pc' = "crash" /\ UNCHANGED <<table, site>>
      BY <1>3 DEF InstallHook
    <2>2. Stage' = "aborted" /\ Branched' = Branched
      BY <2>1 DEF Stage, Branched
    <2>3. QED
      BY <1>1, <1>2, <2>1, <2>2 DEF HI!Next, HI!Abort
  <1>4. CASE ~(site = 4 /\ ~EkReqKnown)
    <2>1. CASE /\ PC!PatchRom(Sites[site], Branch, None)
               /\ HasRoom(Sites[site])
               /\ pc' = IF site = 4 THEN "done" ELSE "patch"
               /\ site' = IF site = 4 THEN site ELSE site + 1
      <3>1. site \in 1..4 /\ Sites[site] \in Addrs /\ Len(Sites) = 4
        <4>1. Sites \in Seq(Addrs) /\ Len(Sites) = 4
          BY HookAssumption
        <4>2. site \in 1..4
          BY DEF RInv, IInv, TypeOK
        <4>3. QED
          BY <4>1, <4>2, ElementOfSeq
      <3>2. Branched' = Branched \cup {Sites[site]}
        BY <2>1, <3>1, PatchRomBranched DEF RInv, IInv
      <3>3. CASE site = 4
        <4>1. Stage' = "done" /\ site' = site
          BY <2>1, <3>3 DEF Stage
        <4>2. QED
          BY <1>1, <1>2, <3>1, <3>2, <3>3, <4>1 DEF HI!Next, HI!PatchSite
      <3>4. CASE site # 4
        <4>1. Stage' = Stage /\ site' = site + 1 /\ site < Len(Sites)
          BY <1>1, <2>1, <3>1, <3>4 DEF Stage
        <4>2. QED
          BY <1>1, <1>2, <3>2, <4>1 DEF HI!Next, HI!PatchSite
      <3>5. QED
        BY <3>3, <3>4
    <2>2. CASE pc' = "exit" /\ UNCHANGED <<table, site>>
      <3>1. Stage' = "aborted" /\ Branched' = Branched
        BY <2>2 DEF Stage, Branched
      <3>2. QED
        BY <1>1, <1>2, <2>2, <3>1 DEF HI!Next, HI!Abort
    <2>3. QED
      BY <1>4, <2>1, <2>2 DEF InstallHook
  <1>5. QED
    BY <1>3, <1>4

\* The user's RAM writes, clear of the blob, are stuttering steps.
LEMMA CliWriteRefines ==
    ASSUME ClearOfHooks, RInv, CliWrite
    PROVE  [HI!Next]_HI!vars
  <1>1. UNCHANGED <<table, pc, site>>
    BY DEF CliWrite, CmdWriteMem, CmdWriteAsm, CmdExec
  <1>2. \A c \in HookCells : ram'[c] = ram[c]
    BY CliWriteKeepsBlob DEF RInv
  <1>3. Stage' = Stage /\ BlobInRam' = BlobInRam /\ Branched' = Branched
    BY <1>1, <1>2 DEF Stage, BlobInRam, Branched
  <1>4. QED
    BY <1>1, <1>3 DEF HI!vars

\* patch --delete switches off one slot, or every slot of one address, so
\* at most one call site stops being branched: the installer's Remove.
LEMMA CliPatchRefines ==
    ASSUME RInv, CliPatch
    PROVE  [HI!Next]_HI!vars
  <1>1. UNCHANGED <<ram, pc, site>>
    BY DEF CliPatch
  <1>2. Stage' = Stage /\ BlobInRam' = BlobInRam
    BY <1>1 DEF Stage, BlobInRam
  <1>3. PICK a \in Addrs \cup {None}, s \in PC!SlotArgs : PC!PatchDelete(a, s)
    BY DEF CliPatch
  <1>4. table \in [PC!Slots -> PC!PatchSlot]
    BY DEF RInv, IInv, TypeOK
  <1>5. \E x : Branched' \subseteq Branched /\ Branched \ Branched' \subseteq {x}
    <2>1. CASE UNCHANGED table
      BY <2>1 DEF Branched
    <2>2. CASE s # None /\ s \in PC!Slots /\ table' = [table EXCEPT ![s].active = FALSE]
      <3>1. \A u \in PC!Slots : u # s => table'[u] = table[u]
        BY <1>4, <2>2
      <3>2. ~table'[s].active /\ table'[s].address = table[s].address
        BY <1>4, <2>2 DEF PC!PatchSlot
      <3>3. Branched' \subseteq Branched
        BY <3>1, <3>2 DEF Branched
      <3>4. Branched \ Branched' \subseteq {table[s].address}
        BY <3>1 DEF Branched
      <3>5. QED
        BY <3>3, <3>4
    <2>3. CASE s = None /\ table' = [u \in PC!Slots |->
                                        IF table[u].active /\ table[u].address = a
                                        THEN [table[u] EXCEPT !.active = FALSE]
                                        ELSE table[u]]
      <3>1. \A u \in PC!Slots : table'[u].active /\ table'[u].value = Branch =>
                                  table[u] = table'[u] /\ table[u].address # a
        BY <1>4, <2>3 DEF PC!PatchSlot
      <3>2. \A u \in PC!Slots : table[u].address # a => table'[u] = table[u]
        BY <2>3
      <3>3. Branched' \subseteq Branched
        BY <3>1 DEF Branched
      <3>4. Branched \ Branched' \subseteq {a}
        BY <3>2 DEF Branched
      <3>5. QED
        BY <3>3, <3>4
    <2>4. QED
      BY <1>3, <2>1, <2>2, <2>3 DEF PC!PatchDelete, PC!Refuse, PC!DisableRomPatch
  <1>6. PICK x : Branched' \subseteq Branched /\ Branched \ Branched' \subseteq {x}
    BY <1>5
  <1>7. CASE Branched' = Branched
    BY <1>1, <1>2, <1>7 DEF HI!vars
  <1>8. CASE x \in Branched /\ Branched' = Branched \ {x}
    BY <1>1, <1>2, <1>8 DEF HI!Next, HI!Remove
  <1>9. QED
    BY <1>6, <1>7, <1>8, LosesAtMostOne

-----------------------------------------------------------------------------
\* Whatever step of bla.py fails, and whatever patch --delete and RAM
\* writes clear of the blob the user issues meanwhile, the script and the
\* CLI together implement spec.md 4.4's installer (the property
\* ImplementsHookInstaller of run hook_order): the blob is whole before the
\* first patchRom, the hooks are patched in order, each once patchRom
\* succeeded, a failure ends the install and undoes nothing, and a branch
\* only goes away by patch --delete.
THEOREM ImplementsHookInstallerHolds ==
    ASSUME ClearOfHooks
    PROVE  Spec => ImplementsHookInstaller
  <1>1. RInv /\ [Next]_vars => RInv'
    BY RInvNext
  <1>2. RInv /\ [Next]_vars => [HI!Next]_HI!vars
    <2> SUFFICES ASSUME RInv, [Next]_vars PROVE [HI!Next]_HI!vars
      OBVIOUS
    <2>1. CASE Connect \/ AsmHooks
      BY <2>1, ConnectAsmRefines
    <2>2. CASE WriteHooks
      BY <2>2, WriteRefines
    <2>3. CASE InstallHook
      BY <2>3, InstallRefines
    <2>4. CASE CliWrite
      BY <2>4, CliWriteRefines
    <2>5. CASE CliPatch
      BY <2>5, CliPatchRefines
    <2>6. CASE UNCHANGED vars
      BY <2>6 DEF vars, HI!vars, Stage, BlobInRam, Branched
    <2>7. QED
      BY <2>1, <2>2, <2>3, <2>4, <2>5, <2>6 DEF Next, Script
  <1>3. QED
    BY <1>1, <1>2, InitRInv, InitRefines, PTL DEF Spec, ImplementsHookInstaller, HI!Spec

=============================================================================
