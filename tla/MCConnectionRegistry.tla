------------------------ MODULE MCConnectionRegistry -------------------------
(* Three connection slots and two remote devices; -n ranges over the      *)
(* slots and the numbers 0 and 4 just outside them.                        *)
EXTENDS ConnectionRegistry, TLC

CONSTANTS r1, r2

MCRemotes == {r1, r2}
MCNumbers == {None} \cup 0..4
MCSymmetry == Permutations(MCRemotes)
=============================================================================
