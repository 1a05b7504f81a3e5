--------------------------- MODULE MCMemoryImage ---------------------------
(* The firmware map scaled down: a ROM section followed by two RAM         *)
(* sections, as ROM 0x0-0x90000, RAM 0x200000-... and 0x260000-... are in *)
(* the spec's layout.                                                     *)
EXTENDS MemoryImage

MCLayout == <<"ROM", "RAM", "RAM">>
=============================================================================
