----------------------------- MODULE Telescope ------------------------------
(***************************************************************************)
(* The "telescope" command (CmdTelescope, cmds.py lines 606-660): dump     *)
(* [address, address + length) and, for every word of it, follow the      *)
(* chain of pointers it starts, four levels deep, as long as each pointer  *)
(* is non-zero and its 0x20-byte window passes isAddressInSections.        *)
(*                                                                         *)
(* Memory is word-granular: an address is the index of a 4-byte word, a   *)
(* length counts words, and Wnd is the 0x20-byte window in words.  Each   *)
(* call of the command is checked on any memory content the controller    *)
(* can build by stores between calls, and any arguments in the bounds.    *)
(***************************************************************************)
EXTENDS Integers, Sequences

CONSTANTS
    Sections,   \* self.internalblue.fw.SECTIONS
    Top,        \* the memory modelled is 0..Top, mapped or not
    Vals,       \* the words memory may hold
    Wnd,        \* the window readMem(val, 0x20) reads, in words
    MaxLen,     \* the --length values passed, in words
    None        \* Python's None

ASSUME TelescopeAssumption ==
    /\ Top \in Nat /\ Vals \subseteq Nat /\ 0 \in Vals
    /\ Wnd \in Nat /\ MaxLen \in Nat \ {0}

AC == INSTANCE AddressCheck WITH MaxAddr <- 0, MaxLen <- 0,
                                 address <- 0, length <- 0, sectiontype <- ""

\* The depth work() passes: self.telescope(dump[index:], 4).
Depth == 4

VARIABLES mem, address, length, answer

vars == <<mem, address, length, answer>>

\* The 0x20-byte window of a pointer is followed only if it lies in a
\* section of any kind (line 619).
Followed(val) == AC!IsAddressInSections(val, Wnd, "")

\* A word of memory; outside the modelled range it reads as 0.
Word(a) == IF a \in 0..Top THEN mem[a] ELSE 0

\* Mutant: the depth test of line 619 as depth >= 0.
TelescopedDeep[depth \in -1..Depth] ==
    [a \in Nat |->
        LET val == Word(a)
        IN  IF val = 0 THEN [vals |-> <<0>>, str |-> None]
            ELSE IF depth >= 0 /\ Followed(val)
                 THEN [vals |-> <<val>> \o TelescopedDeep[depth - 1][val].vals,
                       str  |-> TelescopedDeep[depth - 1][val].str]
                 ELSE [vals |-> <<val>>, str |-> a]]

TelescopeDeep(a, depth) == TelescopedDeep[depth][a]

\* telescope(data, depth), for every depth up to the one work() passes and
\* data the memory from address a on: the values of the chain, and where
\* the printable string it ends with is read from (None when the chain
\* ends in a zero word).
Telescoped[depth \in 0..Depth] ==
    [a \in Nat |->
        LET val == Word(a)
        IN  IF val = 0 THEN [vals |-> <<0>>, str |-> None]
            ELSE IF depth > 0 /\ Followed(val)
                 THEN [vals |-> <<val>> \o Telescoped[depth - 1][val].vals,
                       str  |-> Telescoped[depth - 1][val].str]
                 ELSE [vals |-> <<val>>, str |-> a]]

Telescope(a, depth) == Telescoped[depth][a]

\* spec.md 9: the chain as an explicit bounded loop with a depth counter,
\* stopping at a zero word, when the depth is exhausted, or at a pointer
\* that is not followed.  Hop[i][a] is where the i-th word of the chain
\* from a is read, and Last(a) the step at which the loop stops.
Hop[i \in 0..Depth] == [a \in Nat |-> IF i = 0 THEN a ELSE Word(Hop[i - 1][a])]

Stops(a, i) == Word(Hop[i][a]) = 0 \/ i = Depth \/ ~Followed(Word(Hop[i][a]))

Last(a) == CHOOSE k \in 0..Depth : Stops(a, k) /\ \A j \in 0..k - 1 : ~Stops(a, j)

LoopChain(a) ==
    [vals |-> [j \in 1..Last(a) + 1 |-> Word(Hop[j - 1][a])],
     str  |-> IF Word(Hop[Last(a)][a]) = 0 THEN None ELSE Hop[Last(a)][a]]

\* The words work() prints a chain for: range(0, len(dump) - 4, 4).
Starts == {address + i : i \in 0..length - 1}

\* The user is warned when [address, address + length) is in no section.
Asked == ~AC!IsAddressInSections(address, length, "")

CallArgs ==
    {r \in [address : 0..Top, length : 1..MaxLen, answer : BOOLEAN] :
        r.address + r.length <= Top}

\* The controller starts with memory cleared and any call pending.
Init ==
    /\ mem = [a \in 0..Top |-> 0]
    /\ \E r \in CallArgs : address = r.address /\ length = r.length /\ answer = r.answer

\* Between two calls the controller stores any value at any word.
Store ==
    /\ \E a \in 0..Top, v \in Vals : mem' = [mem EXCEPT ![a] = v]
    /\ UNCHANGED <<address, length, answer>>

\* The user types the next telescope command.
Call ==
    /\ \E r \in CallArgs : address' = r.address /\ length' = r.length /\ answer' = r.answer
    /\ UNCHANGED mem

Next == Store \/ Call

Spec == Init /\ [][Next]_vars

-----------------------------------------------------------------------------
\* The recursive telescope() computes, for every word work() prints, the
\* chain the bounded loop of spec.md 9 computes: at most four pointers,
\* cycles and pointers into the last window of a section included.
TelescopeIsBoundedLoop ==
    ~Asked \/ answer => \A a \in Starts : Telescope(a, Depth) = LoopChain(a)

\* When no warning was shown, work() reads only memory inside a section:
\* readMem(address, length + 4) after checking [address, address + length)
\* (lines 640-645).
ReadsChecked ==
    ~Asked => AC!Contained(address, length + 1, "")

=============================================================================
