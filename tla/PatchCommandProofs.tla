------------------------ MODULE PatchCommandProofs -------------------------
(***************************************************************************)
(* The patch command's data conversion (cmds.py lines 976-981): Fit4 is   *)
(* Python's data[0:4] and data.ljust(4, "\x00"), yields a 4-byte value,   *)
(* and leaves a 4-byte value as it is, for every set of byte values.      *)
(***************************************************************************)
EXTENDS PatchCommand, TLAPS

\* Fit4 cuts or pads any byte string to a 4-byte value.
LEMMA Fit4Type ==
    ASSUME 0 \in Bytes, NEW k \in 1..5, NEW d \in [1..k -> Bytes]
    PROVE  Fit4(d) \in Value
  <1>1. d \in Seq(Bytes) /\ Len(d) = k
    OBVIOUS
  <1>2. QED
    BY <1>1 DEF Fit4, Value

\* Fit4 is the code's conversion of lines 976-981: data[0:4] when the data
\* is longer than 4 bytes, data.ljust(4, "\x00") when it is shorter, the
\* data itself at 4 bytes; a 4-byte value passes through unchanged.
LEMMA Fit4Python ==
    ASSUME 0 \in Bytes, NEW d \in Seq(Bytes)
    PROVE  /\ Len(d) >= 4 => Fit4(d) = SubSeq(d, 1, 4)
           /\ Len(d) < 4 => Fit4(d) = d \o [i \in 1..4 - Len(d) |-> 0]
           /\ Fit4(d) \in Value
  <1>1. Len(d) >= 4 => Fit4(d) = SubSeq(d, 1, 4)
    BY DEF Fit4
  <1>2. Len(d) < 4 => Fit4(d) = d \o [i \in 1..4 - Len(d) |-> 0]
    BY DEF Fit4
  <1>3. Fit4(d) \in Value
    BY DEF Fit4, Value
  <1> QED
    BY <1>1, <1>2, <1>3

\* A value already 4 bytes long, as cmdPatch's data is after line 981,
\* is left as it is by a second conversion.
LEMMA Fit4Idempotent ==
    ASSUME NEW v \in [1..4 -> Bytes]
    PROVE  Fit4(v) = v
  <1>1. Len(v) = 4
    OBVIOUS
  <1> QED
    BY <1>1 DEF Fit4

=============================================================================
