---------------------------- MODULE PatchCommand ----------------------------
(***************************************************************************)
(* The "patch" command (CmdPatch.work, cmds.py lines 935-989) over the     *)
(* controller's ROM patch table.  The table and the core's patchRom and    *)
(* disableRomPatch are not in this source tree: they follow spec.md 4.3    *)
(* (install into the slot given, else the slot already patching the        *)
(* address, else the first free slot; remove by slot, else by address;     *)
(* index bounds checked before the hardware is touched).                   *)
(*                                                                         *)
(* The commands run one at a time on the CLI thread, so each command is    *)
(* one step, its early returns included.                                  *)
(***************************************************************************)
EXTENDS Integers, Sequences

CONSTANTS
    Sections,   \* self.internalblue.fw.SECTIONS
    N,          \* the chip's patch table capacity
    SlotLimit,  \* the bound 128 of line 941
    Addrs,      \* the addresses a user passes with --address
    Bytes,      \* the byte values data is made of, 0 among them
    None        \* Python's None

AC == INSTANCE AddressCheck WITH MaxAddr <- 0, MaxLen <- 0,
                                 address <- 0, length <- 0, sectiontype <- ""

\* What the constants are.  HookSession's ASSUME states it for the
\* instance it uses; the run of this module is one that finds a violation.
PatchAssumption ==
    /\ Sections \in Seq(AC!Section)
    /\ \A i \in 1..Len(Sections) : Sections[i].start_addr <= Sections[i].end_addr
    /\ N \in Nat \ {0} /\ SlotLimit \in Nat
    /\ Addrs \subseteq Nat /\ Addrs # {} /\ 0 \in Bytes
    /\ None \notin Int

Slots == 0..N-1

\* A 4-byte patch value.
Value == [1..4 -> Bytes]

\* What the data argument becomes after --hex/--int/--asm conversion: no
\* data words at all, a conversion that fails, or a byte string of 1 to 5
\* bytes (enough to be truncated and to be padded).
DataArgs ==
    [kind : {"nodata", "convfail"}, bytes : {<<>>}] \cup
    [kind : {"bytes"}, bytes : UNION {[1..k -> Bytes] : k \in 1..5}]

\* The --slot values a user can type.
SlotArgs == {None} \cup -1..SlotLimit + 1

PatchSlot == [active : BOOLEAN, address : Addrs, value : Value]

VARIABLES
    table,      \* the controller's patch table: Slots -> PatchSlot
    passed      \* the slot index the last command handed to the core, or None

vars == <<table, passed>>

\* The address lies in a ROM section (the check of line 982).
InRom(a) == AC!IsAddressInSections(a, 4, "ROM")

\* A slot the table has never used.
Unused == [active |-> FALSE, address |-> CHOOSE a \in Addrs : TRUE,
           value |-> [i \in 1..4 |-> 0]]

\* The firmware may come up with patches of its own, at aligned ROM addresses.
Init ==
    /\ table \in [Slots -> {Unused} \cup
                    {p \in PatchSlot : /\ p.active
                                       /\ InRom(p.address) /\ p.address % 4 = 0}]
    /\ passed = None

\* data[0:4] if longer than 4 bytes, data.ljust(4, "\x00") if shorter.
Fit4(data) ==
    [i \in 1..4 |-> IF i <= Len(data) THEN data[i] ELSE 0]

\* spec.md 4.3 install(address, value, slot?): the slot given, else the one
\* already patching the address, else the first free one.  An index out of
\* [0, N) or a full table fails before the hardware is touched.
PatchRom(address, value, slot) ==
    LET patching == {s \in Slots : table[s].active /\ table[s].address = address}
        free     == {s \in Slots : ~table[s].active}
        target   == IF slot # None THEN slot
                    ELSE IF patching # {} THEN CHOOSE s \in patching : TRUE
                    ELSE IF free # {} THEN CHOOSE s \in free : \A t \in free : s <= t
                    ELSE None
        entry    == [active |-> TRUE, address |-> address, value |-> value]
    IN  table' = IF target \in Slots THEN [table EXCEPT ![target] = entry] ELSE table

\* spec.md 4.3 remove(addressOrSlot): by slot when one is given, else the
\* slot patching the address; NotFound leaves the table as it is.
DisableRomPatch(address, slot) ==
    table' = IF slot # None
             THEN IF slot \in Slots THEN [table EXCEPT ![slot].active = FALSE] ELSE table
             ELSE [s \in Slots |-> IF table[s].active /\ table[s].address = address
                                   THEN [table[s] EXCEPT !.active = FALSE]
                                   ELSE table[s]]

-----------------------------------------------------------------------------
\* Lines 941-943: the range check of --slot.
SlotRefused(slot) == slot # None /\ (slot < 0 \/ slot > SlotLimit)

\* Every refusal returns False before the core is called.
Refuse ==
    /\ passed' = None
    /\ UNCHANGED table

\* patch [--slot s] --address a data: refused for a bad slot, a missing
\* address or data, a failed conversion, or a "no" to the warning that
\* [a, a + 4) is not in a ROM section; otherwise data is cut or padded to
\* 4 bytes and handed to patchRom.
PatchInstall(address, data, slot, answer) ==
    \/ /\ \/ SlotRefused(slot) \/ address = None
          \/ data.kind # "bytes"
          \/ address # None /\ ~InRom(address) /\ ~answer
       /\ Refuse
    \/ /\ ~SlotRefused(slot) /\ address # None
       /\ data.kind = "bytes"
       /\ InRom(address) \/ answer
       /\ PatchRom(address, Fit4(data.bytes), slot)
       /\ passed' = slot

\* patch --delete [--slot s] [--address a]: refused for a bad slot or when
\* neither is given; otherwise disableRomPatch(address, slot).
PatchDelete(address, slot) ==
    \/ /\ \/ SlotRefused(slot)
          \/ slot = None /\ address = None
       /\ Refuse
    \/ /\ ~SlotRefused(slot)
       /\ slot # None \/ address # None
       /\ DisableRomPatch(address, slot)
       /\ passed' = slot

Next ==
    \/ \E a \in Addrs \cup {None}, d \in DataArgs, s \in SlotArgs, answer \in BOOLEAN :
           PatchInstall(a, d, s, answer)
    \/ \E a \in Addrs \cup {None}, s \in SlotArgs : PatchDelete(a, s)

Spec == Init /\ [][Next]_vars

-----------------------------------------------------------------------------
\* spec.md 4.3: a patch slot binds a 4-byte-aligned ROM address.
PatchedOnlyAligned ==
    \A s \in Slots : table[s].active => table[s].address % 4 = 0

\* spec.md 3 and 7: a slot index is in [0, N), and index bounds are checked
\* before the hardware is involved; CmdPatch's own check is that check.
SlotsPassedInTable ==
    passed # None => passed \in Slots

=============================================================================
