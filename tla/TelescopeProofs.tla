--------------------------- MODULE TelescopeProofs ---------------------------
(***************************************************************************)
(* Proofs about the telescope command (Telescope.tla).  The recursive     *)
(* telescope() of cmds.py lines 617-632 is a recursive function of the    *)
(* depth, and the bounded loop of spec.md 9 an iteration Hop of Word with *)
(* the first stopping step Last.  Since the depth work() passes is four,  *)
(* both definitions unfold in five steps, and no induction over memory    *)
(* contents is needed: the theorem holds for every section layout, every  *)
(* memory size and every set of stored values.                            *)
(*                                                                         *)
(* The argument: the chain of the loop, cut at any depth d (ChainD), is   *)
(* a solution of the equation that defines Telescoped, and that equation  *)
(* has one solution only, because depth d refers to depth d - 1 alone.    *)
(***************************************************************************)
EXTENDS Telescope, TLAPS

\* Memory holds natural-number words: what every Store keeps.
TypeOK ==
    /\ mem \in [0..Top -> Vals]
    /\ address \in 0..Top
    /\ length \in 1..MaxLen
    /\ answer \in BOOLEAN

LEMMA InitTypeOK == Init => TypeOK
BY TelescopeAssumption DEF Init, TypeOK, CallArgs

LEMMA NextTypeOK == TypeOK /\ [Next]_vars => TypeOK'
<1> SUFFICES ASSUME TypeOK, [Next]_vars PROVE TypeOK'
  OBVIOUS
<1>1. CASE Store
  BY <1>1 DEF Store, TypeOK
<1>2. CASE Call
  BY <1>2 DEF Call, TypeOK, CallArgs
<1>3. CASE UNCHANGED vars
  BY <1>3 DEF vars, TypeOK
<1> QED
  BY <1>1, <1>2, <1>3 DEF Next

\* Every word read is a natural number, inside the modelled range or not.
LEMMA WordNat ==
    ASSUME TypeOK, NEW a \in Nat
    PROVE  Word(a) \in Nat
BY TelescopeAssumption DEF TypeOK, Word

-----------------------------------------------------------------------------
(***************************************************************************)
(* Hop, the iteration of Word.                                            *)
(***************************************************************************)
HopBody(f) == [i \in 0..Depth |-> [a \in Nat |-> IF i = 0 THEN a ELSE Word(f[i - 1][a])]]

\* Hop written out level by level: a solution of its equation.
HopW == [i \in 0..Depth |-> [a \in Nat |->
            IF i = 0 THEN a
            ELSE IF i = 1 THEN Word(a)
            ELSE IF i = 2 THEN Word(Word(a))
            ELSE IF i = 3 THEN Word(Word(Word(a)))
            ELSE Word(Word(Word(Word(a))))]]

LEMMA HopEq == Hop = HopBody(Hop)
<1>1. HopW = HopBody(HopW)
  BY DEF HopW, HopBody, Depth
<1>2. \E f : f = HopBody(f)
  BY <1>1
<1> QED
  BY <1>2 DEF Hop, HopBody

\* Every hop stays a natural number.
LEMMA HopNat ==
    ASSUME TypeOK, NEW i \in 0..Depth, NEW a \in Nat
    PROVE  Hop[i][a] \in Nat
<1> DEFINE P(k) == \A b \in Nat : Hop[k][b] \in Nat
<1>0. P(0)
  BY HopEq DEF HopBody, Depth
<1>1. ASSUME NEW k \in 1..Depth, P(k - 1) PROVE P(k)
  <2> SUFFICES ASSUME NEW b \in Nat PROVE Hop[k][b] \in Nat
    OBVIOUS
  <2>1. Hop[k][b] = Word(Hop[k - 1][b])
    BY HopEq DEF HopBody, Depth
  <2>2. Hop[k - 1][b] \in Nat
    BY <1>1
  <2> QED
    BY <2>1, <2>2, WordNat
<1> QED
  BY <1>0, <1>1 DEF Depth

\* A chain that starts one word later is the same chain one hop later.
LEMMA HopShift ==
    ASSUME TypeOK, NEW a \in Nat, NEW i \in 0..Depth - 1
    PROVE  Hop[i][Word(a)] = Hop[i + 1][a]
<1> DEFINE P(k) == Hop[k][Word(a)] = Hop[k + 1][a]
<1>w. Word(a) \in Nat
  BY WordNat
<1>0. P(0)
  BY <1>w, HopEq DEF HopBody, Depth
<1>1. ASSUME NEW k \in 1..Depth - 1, P(k - 1) PROVE P(k)
  <2>1. Hop[k][Word(a)] = Word(Hop[k - 1][Word(a)])
    BY <1>w, HopEq DEF HopBody, Depth
  <2>2. Hop[k + 1][a] = Word(Hop[k][a])
    BY HopEq DEF HopBody, Depth
  <2> QED
    BY <1>1, <2>1, <2>2
<1> QED
  BY <1>0, <1>1 DEF Depth

-----------------------------------------------------------------------------
(***************************************************************************)
(* The loop of spec.md 9 cut at depth d: it stops at the first step k    *)
(* whose word is zero, whose pointer is not followed, or with k = d.      *)
(***************************************************************************)
StopsD(a, i, d) == Word(Hop[i][a]) = 0 \/ i = d \/ ~Followed(Word(Hop[i][a]))

IsLast(a, d, k) ==
    /\ k \in 0..d
    /\ StopsD(a, k, d)
    /\ \A j \in 0..k - 1 : ~StopsD(a, j, d)

LastD(a, d) == CHOOSE k \in 0..d : StopsD(a, k, d) /\ \A j \in 0..k - 1 : ~StopsD(a, j, d)

\* The first n words of the chain from a.
Chain(a, n) == [j \in 1..n |-> Word(Hop[j - 1][a])]

ChainD(a, d) ==
    [vals |-> Chain(a, LastD(a, d) + 1),
     str  |-> IF Word(Hop[LastD(a, d)][a]) = 0 THEN None ELSE Hop[LastD(a, d)][a]]

\* The loop stops within d steps, at the first stopping step.
LEMMA LastDIsLast ==
    ASSUME NEW a, NEW d \in 0..Depth
    PROVE  IsLast(a, d, LastD(a, d))
<1>1. StopsD(a, d, d)
  BY DEF StopsD
<1>2. \E k \in 0..d : StopsD(a, k, d) /\ \A j \in 0..k - 1 : ~StopsD(a, j, d)
  <2>0. CASE StopsD(a, 0, d)
    BY <2>0
  <2>1. CASE ~StopsD(a, 0, d) /\ StopsD(a, 1, d)
    BY <1>1, <2>1 DEF Depth
  <2>2. CASE ~StopsD(a, 0, d) /\ ~StopsD(a, 1, d) /\ StopsD(a, 2, d)
    BY <1>1, <2>2 DEF Depth
  <2>3. CASE ~StopsD(a, 0, d) /\ ~StopsD(a, 1, d) /\ ~StopsD(a, 2, d)
             /\ StopsD(a, 3, d)
    BY <1>1, <2>3 DEF Depth
  <2>4. CASE ~StopsD(a, 0, d) /\ ~StopsD(a, 1, d) /\ ~StopsD(a, 2, d)
             /\ ~StopsD(a, 3, d)
    BY <1>1, <2>4 DEF Depth
  <2> QED
    BY <2>0, <2>1, <2>2, <2>3, <2>4
<1> QED
  BY <1>2 DEF LastD, IsLast

\* The first stopping step is unique.
LEMMA IsLastUnique ==
    ASSUME NEW a, NEW d \in 0..Depth, NEW k \in Nat, IsLast(a, d, k)
    PROVE  LastD(a, d) = k
<1>1. IsLast(a, d, LastD(a, d))
  BY LastDIsLast
<1> QED
  BY <1>1 DEF IsLast

\* The bounded loop of Telescope.tla is the loop cut at Depth.
LEMMA LoopChainIsChainD ==
    ASSUME NEW a
    PROVE  LoopChain(a) = ChainD(a, Depth)
BY DEF LoopChain, ChainD, Chain, LastD, Last, StopsD, Stops

-----------------------------------------------------------------------------
(***************************************************************************)
(* One level of telescope(): Body(f, d, a) is the right-hand side of      *)
(* Telescoped's definition with f for Telescoped, and G the loop's chains *)
(* at every depth.                                                         *)
(***************************************************************************)
Body(f, d, a) ==
    IF Word(a) = 0 THEN [vals |-> <<0>>, str |-> None]
    ELSE IF d > 0 /\ Followed(Word(a))
         THEN [vals |-> <<Word(a)>> \o f[d - 1][Word(a)].vals,
               str  |-> f[d - 1][Word(a)].str]
         ELSE [vals |-> <<Word(a)>>, str |-> a]

TelBody(f) == [d \in 0..Depth |-> [a \in Nat |-> Body(f, d, a)]]

G == [d \in 0..Depth |-> [a \in Nat |-> ChainD(a, d)]]

\* A chain that ends at its first word: a zero word, depth zero, or a
\* pointer that is not followed.
LEMMA ChainStop ==
    ASSUME TypeOK, NEW d \in 0..Depth, NEW a \in Nat,
           ~(Word(a) # 0 /\ d > 0 /\ Followed(Word(a)))
    PROVE  ChainD(a, d) = Body(G, d, a)
<1>0. Hop[0][a] = a
  BY HopEq DEF HopBody, Depth
<1>1. LastD(a, d) = 0
  <2>1. IsLast(a, d, 0)
    BY <1>0 DEF IsLast, StopsD
  <2> QED
    BY <2>1, IsLastUnique
<1>2. CASE Word(a) = 0
  BY <1>0, <1>1, <1>2 DEF ChainD, Chain, Body
<1>3. CASE Word(a) # 0
  BY <1>0, <1>1, <1>3 DEF ChainD, Chain, Body
<1> QED
  BY <1>2, <1>3

\* A followed pointer: the chain from a is its first word followed by the
\* chain, one level shallower, from the word it points to.
LEMMA ChainFollow ==
    ASSUME TypeOK, NEW d \in 1..Depth, NEW a \in Nat,
           Word(a) # 0, Followed(Word(a))
    PROVE  ChainD(a, d) = Body(G, d, a)
<1> DEFINE v == Word(a)
           L == LastD(v, d - 1)
<1>0. v \in Nat
  BY WordNat
<1>1. Hop[0][a] = a
  BY HopEq DEF HopBody, Depth
<1>2. IsLast(v, d - 1, L)
  BY LastDIsLast DEF Depth
<1>3. L \in 0..Depth - 1
  BY <1>2 DEF IsLast, Depth
<1>4. \A i \in 0..Depth - 1 : Hop[i][v] = Hop[i + 1][a]
  BY HopShift
<1>5. IsLast(a, d, L + 1)
  <2>1. L + 1 \in 0..d
    BY <1>2 DEF IsLast
  <2>2. StopsD(a, L + 1, d)
    BY <1>2, <1>3, <1>4 DEF IsLast, StopsD
  <2>3. ~StopsD(a, 0, d)
    BY <1>1 DEF StopsD
  <2>4. ASSUME NEW j \in 1..L PROVE ~StopsD(a, j, d)
    <3>1. ~StopsD(v, j - 1, d - 1)
      BY <1>2, <2>4 DEF IsLast
    <3>2. Hop[j - 1][v] = Hop[j][a]
      BY <1>3, <1>4, <2>4 DEF Depth
    <3> QED
      BY <3>1, <3>2, <1>3 DEF StopsD, Depth
  <2> QED
    BY <1>3, <2>1, <2>2, <2>3, <2>4 DEF IsLast
<1>6. LastD(a, d) = L + 1
  BY <1>3, <1>5, IsLastUnique DEF Depth
<1>7. G[d - 1][v] = ChainD(v, d - 1)
  BY <1>0 DEF G, Depth
<1>8. Chain(a, L + 2) = <<v>> \o Chain(v, L + 1)
  <2>1. ASSUME NEW j \in 2..L + 2 PROVE Word(Hop[j - 1][a]) = Word(Hop[j - 2][v])
    BY <1>3, <1>4 DEF Depth
  <2> QED
    BY <1>1, <1>3, <2>1 DEF Chain
<1>9. Hop[L + 1][a] = Hop[L][v]
  BY <1>3, <1>4
<1>10. Body(G, d, a) = [vals |-> <<v>> \o G[d - 1][v].vals, str |-> G[d - 1][v].str]
  BY DEF Body
<1>11. ChainD(v, d - 1)
         = [vals |-> Chain(v, L + 1),
            str  |-> IF Word(Hop[L][v]) = 0 THEN None ELSE Hop[L][v]]
  BY DEF ChainD
<1>12. ChainD(a, d)
         = [vals |-> Chain(a, L + 2),
            str  |-> IF Word(Hop[L + 1][a]) = 0 THEN None ELSE Hop[L + 1][a]]
  BY <1>3, <1>6 DEF ChainD
<1>13. G[d - 1][v].vals = Chain(v, L + 1)
  BY <1>7, <1>11 DEF v, L
<1>14. G[d - 1][v].str = IF Word(Hop[L + 1][a]) = 0 THEN None ELSE Hop[L + 1][a]
  BY <1>7, <1>9, <1>11 DEF v, L
<1>15. Body(G, d, a)
         = [vals |-> Chain(a, L + 2),
            str  |-> IF Word(Hop[L + 1][a]) = 0 THEN None ELSE Hop[L + 1][a]]
  BY <1>8, <1>10, <1>13, <1>14
<1> QED
  BY <1>12, <1>15

\* The loop's chains satisfy the equation that defines Telescoped.
LEMMA GFix ==
    ASSUME TypeOK
    PROVE  G = TelBody(G)
<1>1. ASSUME NEW d \in 0..Depth, NEW a \in Nat PROVE ChainD(a, d) = Body(G, d, a)
  <2>1. CASE Word(a) # 0 /\ d > 0 /\ Followed(Word(a))
    BY <2>1, ChainFollow
  <2>2. CASE ~(Word(a) # 0 /\ d > 0 /\ Followed(Word(a)))
    BY <2>2, ChainStop
  <2> QED
    BY <2>1, <2>2
<1> QED
  BY <1>1 DEF G, TelBody

\* So Telescoped is a solution of its equation ...
LEMMA TelescopedEq ==
    ASSUME TypeOK
    PROVE  Telescoped = TelBody(Telescoped)
<1>1. \E f : f = TelBody(f)
  BY GFix
<1> QED
  BY <1>1 DEF Telescoped, TelBody, Body

\* ... and the equation has no other: depth d is determined by depth d - 1,
\* and depth 0 by memory alone.
LEMMA TelescopedIsG ==
    ASSUME TypeOK, NEW d \in 0..Depth
    PROVE  Telescoped[d] = G[d]
<1> DEFINE P(k) == Telescoped[k] = G[k]
<1>1. ASSUME NEW k \in 0..Depth, k > 0 => P(k - 1) PROVE P(k)
  <2>1. ASSUME NEW a \in Nat PROVE Body(Telescoped, k, a) = Body(G, k, a)
    BY <1>1 DEF Body
  <2> QED
    BY <2>1, TelescopedEq, GFix DEF TelBody
<1> QED
  BY <1>1 DEF Depth

\* Every chain telescope() prints is the chain of the bounded loop.
LEMMA TelescopeIsLoop ==
    ASSUME TypeOK, NEW a \in Nat
    PROVE  Telescope(a, Depth) = LoopChain(a)
<1>1. Telescoped[Depth][a] = G[Depth][a]
  BY TelescopedIsG DEF Depth
<1>2. G[Depth][a] = ChainD(a, Depth)
  BY DEF G, Depth
<1> QED
  BY <1>1, <1>2, LoopChainIsChainD DEF Telescope

-----------------------------------------------------------------------------
\* TypeOK holds in every state.
THEOREM TypeOKHolds == Spec => []TypeOK
BY InitTypeOK, NextTypeOK, PTL DEF Spec

\* The recursive telescope() of cmds.py lines 617-632, called by work() on
\* every word of the dump, computes the pointer chain of the bounded loop
\* spec.md 9 asks for, for every section layout, memory size and content:
\* cycles, zero words and pointers into the last window of a section
\* included.
THEOREM TelescopeIsBoundedLoopHolds == Spec => []TelescopeIsBoundedLoop
<1>1. TypeOK => TelescopeIsBoundedLoop
  <2> SUFFICES ASSUME TypeOK, NEW a \in Starts PROVE Telescope(a, Depth) = LoopChain(a)
    BY DEF TelescopeIsBoundedLoop
  <2>1. a \in Nat
    BY DEF TypeOK, Starts
  <2> QED
    BY <2>1, TelescopeIsLoop
<1> QED
  BY <1>1, TypeOKHolds, PTL

\* spec.md 9's other demand on the recursion over untrusted memory: however
\* the words point (cycles included), telescope() as work() calls it
\* returns at least one and at most Depth + 1 = 5 values, so the recursion
\* of lines 622-623 is at most four calls deep.
THEOREM ChainBounded ==
    Spec => [](\A a \in Nat : Len(Telescope(a, Depth).vals) \in 1..Depth + 1)
<1>1. TypeOK => \A a \in Nat : Len(Telescope(a, Depth).vals) \in 1..Depth + 1
  <2> SUFFICES ASSUME TypeOK, NEW a \in Nat
               PROVE  Len(Telescope(a, Depth).vals) \in 1..Depth + 1
    OBVIOUS
  <2>1. LastD(a, Depth) \in 0..Depth
    BY LastDIsLast DEF IsLast, Depth
  <2>2. Len(Chain(a, LastD(a, Depth) + 1)) = LastD(a, Depth) + 1
    BY <2>1 DEF Chain, Depth
  <2>3. Telescope(a, Depth).vals = Chain(a, LastD(a, Depth) + 1)
    BY TelescopeIsLoop, LoopChainIsChainD DEF ChainD
  <2>4. Len(Telescope(a, Depth).vals) = LastD(a, Depth) + 1
    BY <2>2, <2>3, Zenon
  <2>5. LastD(a, Depth) + 1 \in 1..Depth + 1
    BY <2>1 DEF Depth
  <2> QED
    BY <2>4, <2>5, Zenon
<1> QED
  BY <1>1, TypeOKHolds, PTL

=============================================================================
