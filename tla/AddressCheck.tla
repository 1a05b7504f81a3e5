---------------------------- MODULE AddressCheck ----------------------------
(***************************************************************************)
(* Cmd.isAddressInSections (cmds.py lines 101-111), the only gate before   *)
(* the memory commands write RAM (writemem, writeasm, exec), patch ROM     *)
(* (patch) or follow a pointer (telescope).  The firmware map's section    *)
(* list is a constant; each step of this specification is one call of the *)
(* function on new arguments, so that an invariant compares the result of  *)
(* every call with what spec.md section 8 says it must be.                 *)
(***************************************************************************)
EXTENDS Naturals, Sequences, TLAPS

CONSTANTS
    Sections,   \* self.internalblue.fw.SECTIONS, in the order of the list
    MaxAddr,    \* addresses 0..MaxAddr are passed
    MaxLen      \* lengths 0..MaxLen are passed

\* A section covers [start_addr, end_addr): refreshMemoryImage splices the
\* dump of a section into memory_image[start_addr:end_addr] (line 146).
Section == [start_addr : Nat, end_addr : Nat, is_rom : BOOLEAN, is_ram : BOOLEAN]

\* What a firmware map is.  It is a hypothesis of the theorem below rather
\* than an ASSUME: the run of this module is one that finds a violation.
SectionsAssumption ==
    /\ Sections \in Seq(Section)
    /\ \A i \in 1..Len(Sections) : Sections[i].start_addr <= Sections[i].end_addr
    /\ MaxAddr \in Nat /\ MaxLen \in Nat

\* The section types the callers pass: "" (any), "ROM" and "RAM".
SectionTypes == {"", "ROM", "RAM"}

\* The section is skipped when the caller asked for ROM and it is not ROM,
\* or for RAM and it is not RAM (line 103).
TypeMatches(s, sectiontype) ==
    ~ \/ sectiontype = "ROM" /\ ~s.is_rom
      \/ sectiontype = "RAM" /\ ~s.is_ram

\* The sections the loop stops at: of the right type, and with
\* start_addr <= address <= end_addr (line 106).
Stops(address, sectiontype) ==
    {i \in 1..Len(Sections) :
        /\ TypeMatches(Sections[i], sectiontype)
        /\ Sections[i].start_addr <= address
        /\ address <= Sections[i].end_addr}

\* The for loop returns at the first section it stops at: True when the
\* range ends inside it (line 107), False otherwise; False after the loop.
IsAddressInSections(address, length, sectiontype) ==
    LET S == Stops(address, sectiontype)
    IN  \E first \in S :
            /\ \A j \in S : first <= j
            /\ address + length <= Sections[first].end_addr

\* spec.md 4.2 and 8: some section of the kind contains all of
\* [address, address + length).
Contained(address, length, sectiontype) ==
    \E i \in 1..Len(Sections) :
        /\ TypeMatches(Sections[i], sectiontype)
        /\ Sections[i].start_addr <= address
        /\ address + length <= Sections[i].end_addr

-----------------------------------------------------------------------------
(* One call per step, on any arguments in the bounds.                      *)

VARIABLES address, length, sectiontype

vars == <<address, length, sectiontype>>

Args == [address : 0..MaxAddr, length : 0..MaxLen, sectiontype : SectionTypes]

Init == \E r \in Args :
            address = r.address /\ length = r.length /\ sectiontype = r.sectiontype

Next == \E r \in Args :
            address' = r.address /\ length' = r.length /\ sectiontype' = r.sectiontype

Spec == Init /\ [][Next]_vars

\* spec.md section 8: isAddressInSections is true for every non-empty range
\* that one section of the kind contains; callers that get False warn the
\* user and refuse the command unless the user overrides.  The inclusive
\* end test of line 106 lets a section that ends where the next one starts
\* decide for an address at that boundary, and refuse it.
AcceptsEveryContained ==
    length > 0 /\ Contained(address, length, sectiontype) =>
        IsAddressInSections(address, length, sectiontype)

-----------------------------------------------------------------------------
(* Proofs, for every section list, address and length.                     *)

\* No address is in or at the end of two sections: no two sections overlap
\* or touch.
Separated ==
    \A i, j \in 1..Len(Sections) :
        i # j => \/ Sections[i].end_addr < Sections[j].start_addr
                 \/ Sections[j].end_addr < Sections[i].start_addr

\* Whatever isAddressInSections accepts is contained in a section of the
\* kind asked for, whatever the section list.
LEMMA Sound ==
    ASSUME NEW a, NEW l, NEW k, IsAddressInSections(a, l, k)
    PROVE  Contained(a, l, k)
  BY DEF IsAddressInSections, Stops, Contained

\* With separated sections the loop stops at no more than one section, so
\* the off-by-one of line 106 (address <= end_addr) never decides: the
\* check accepts exactly the non-empty ranges one section contains.  The
\* spec's adjacent ROM and RAM sections are not separated, and there
\* AcceptsEveryContained fails.
THEOREM ExactWhenSeparated ==
    ASSUME SectionsAssumption, Separated, NEW a \in Nat, NEW l \in Nat \ {0}, NEW k
    PROVE  IsAddressInSections(a, l, k) <=> Contained(a, l, k)
  <1>1. IsAddressInSections(a, l, k) => Contained(a, l, k)
    BY Sound
  <1>2. ASSUME Contained(a, l, k) PROVE IsAddressInSections(a, l, k)
    <2>0. \A m \in 1..Len(Sections) :
              /\ Sections[m].start_addr \in Nat
              /\ Sections[m].end_addr \in Nat
      <3>1. \A m \in 1..Len(Sections) : Sections[m] \in Section
        BY DEF SectionsAssumption
      <3>2. QED
        BY <3>1, Zenon DEF Section
    <2>1. PICK i \in 1..Len(Sections) :
              /\ TypeMatches(Sections[i], k)
              /\ Sections[i].start_addr <= a
              /\ a + l <= Sections[i].end_addr
      BY <1>2 DEF Contained
    <2>2. i \in Stops(a, k)
      BY <2>0, <2>1 DEF Stops
    <2>3. \A j \in Stops(a, k) : j = i
      BY <2>0, <2>1 DEF Stops, Separated
    <2>4. QED
      BY <2>1, <2>2, <2>3 DEF IsAddressInSections
  <1>3. QED
    BY <1>1, <1>2
=============================================================================
