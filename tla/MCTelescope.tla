---------------------------- MODULE MCTelescope -----------------------------
(* A ROM section [0, 2), an unmapped word 2, a RAM section [3, 5) and an  *)
(* unmapped word 5.  With a one-word window the pointers 1, 3 and 4 are    *)
(* followed and 2 is not (isAddressInSections stops at the ROM section,   *)
(* whose end it includes), so chains run through several words, stop at   *)
(* zeros and at unmapped targets, and, through cycles such as mem[3] = 3, *)
(* at the depth bound.                                                     *)
EXTENDS Telescope

MCSections ==
    << [start_addr |-> 0, end_addr |-> 2, is_rom |-> TRUE, is_ram |-> FALSE],
       [start_addr |-> 3, end_addr |-> 5, is_rom |-> FALSE, is_ram |-> TRUE] >>
=============================================================================
