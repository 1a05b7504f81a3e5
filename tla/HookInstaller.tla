--------------------------- MODULE HookInstaller ----------------------------
(***************************************************************************)
(* What spec.md 4.4 promises of the hook installer, on a controller whose *)
(* scratch RAM region no one else writes: the blobs are assembled and all *)
(* written (steps 1-2), and only then is one ROM patch per call site       *)
(* installed, in order, each a branch into the blob (step 3).  A failure   *)
(* aborts the install and stops every later step; what was already done   *)
(* stays done (no automatic rollback).  Meanwhile another client of the    *)
(* patch table may remove a patch (spec.md 4.3 remove).                    *)
(*                                                                         *)
(* The state is the stage of the install, whether the blob is whole in    *)
(* RAM, the call site patched next, and the call sites whose branch is    *)
(* active.                                                                 *)
(***************************************************************************)
EXTENDS Naturals, Sequences

CONSTANT Sites      \* the call sites, in the order they are patched

VARIABLES
    stage,      \* "prepare", "patching", "done" or "aborted"
    blob,       \* the blob is whole in the scratch region
    next,       \* the index in Sites of the call site patched next
    branched    \* the call sites whose branch into the blob is active

vars == <<stage, blob, next, branched>>

Init ==
    /\ stage = "prepare" /\ blob = FALSE
    /\ next = 1 /\ branched = {}

\* Steps 1-2: every blob assembled and written.
WriteBlobs ==
    /\ stage = "prepare"
    /\ stage' = "patching" /\ blob' = TRUE
    /\ UNCHANGED <<next, branched>>

\* Step 3: the next call site branches into the blob, which is whole.
PatchSite ==
    /\ stage = "patching" /\ blob
    /\ branched' = branched \cup {Sites[next]}
    /\ \/ next = Len(Sites) /\ stage' = "done" /\ UNCHANGED next
       \/ next < Len(Sites) /\ next' = next + 1 /\ UNCHANGED stage
    /\ UNCHANGED blob

\* A failed step ends the install and undoes nothing.
Abort ==
    /\ stage \in {"prepare", "patching"}
    /\ stage' = "aborted"
    /\ UNCHANGED <<blob, next, branched>>

\* Another client removes the patch of a call site.
Remove ==
    /\ \E a \in branched : branched' = branched \ {a}
    /\ UNCHANGED <<stage, blob, next>>

Next == WriteBlobs \/ PatchSite \/ Abort \/ Remove

Spec == Init /\ [][Next]_vars

=============================================================================
