--------------------------- MODULE MCHciMonitor ----------------------------
(***************************************************************************)
(* Instances of HciMonitor for TLC: two poll-timer chains (a leaked chain  *)
(* next to the current one) and one or two wireshark processes (an        *)
(* orphaned viewer next to a fresh one).                                   *)
(***************************************************************************)
EXTENDS HciMonitor, TLC

CONSTANTS t1, t2, v1, v2

MCTimers == {t1, t2}
MCViewers == {v1, v2}
MCOneViewer == {v1}

\* Timer chains and viewer processes are interchangeable identities.
MCSymmetry == Permutations(MCTimers) \cup Permutations(MCViewers)
=============================================================================
