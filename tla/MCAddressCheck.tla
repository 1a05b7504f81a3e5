--------------------------- MODULE MCAddressCheck ---------------------------
(***************************************************************************)
(* The layout of spec.md's scenario scaled down: ROM [0, 4) and RAM [4, 6) *)
(* adjacent to it, as ROM [0x0, 0x90000) and RAM [0x90000, 0xA0000), and a *)
(* second RAM section [8, 10) after a gap.                                 *)
(***************************************************************************)
EXTENDS AddressCheck

MCSections ==
    << [start_addr |-> 0, end_addr |-> 4, is_rom |-> TRUE, is_ram |-> FALSE],
       [start_addr |-> 4, end_addr |-> 6, is_rom |-> FALSE, is_ram |-> TRUE],
       [start_addr |-> 8, end_addr |-> 10, is_rom |-> FALSE, is_ram |-> TRUE] >>
=============================================================================
