--------------------------- MODULE MCPatchCommand ---------------------------
(* A ROM section [0, 8) followed by a RAM section [8, 12), as the spec's   *)
(* ROM [0x0, 0x90000) and RAM [0x90000, 0xA0000) touch.  Addresses 0 and 4 *)
(* are aligned ROM, 2 unaligned ROM, 6 a ROM address whose 4 bytes run    *)
(* into RAM, 8 RAM.                                                        *)
EXTENDS PatchCommand

MCSections ==
    << [start_addr |-> 0, end_addr |-> 8, is_rom |-> TRUE, is_ram |-> FALSE],
       [start_addr |-> 8, end_addr |-> 12, is_rom |-> FALSE, is_ram |-> TRUE] >>
=============================================================================
