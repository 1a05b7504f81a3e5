--------------------------- MODULE MCHookSession ----------------------------
(* ROM [0, 8) and RAM [8, 11).  The hook sites are 0, 4, 2 and 6: two     *)
(* aligned ones, like 0x2FED8 and 0x30098, an unaligned one, like         *)
(* GEN_PRIV_KEY_ADDRESS 0x48eba, and one for EK_REQ.  The blob takes the  *)
(* two chunks 8 and 9; the table has a slot per hook.                     *)
EXTENDS HookSession

MCSections ==
    << [start_addr |-> 0, end_addr |-> 8, is_rom |-> TRUE, is_ram |-> FALSE],
       [start_addr |-> 8, end_addr |-> 11, is_rom |-> FALSE, is_ram |-> TRUE] >>

MCRamCells == 8..10

MCSites == <<0, 4, 2, 6>>

MCBranch == [i \in 1..4 |-> 1]
=============================================================================
