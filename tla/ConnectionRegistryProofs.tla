--------------------- MODULE ConnectionRegistryProofs ----------------------
(***************************************************************************)
(* Proof that, for every array size, set of devices and set of -n values, *)
(* sendlmp's scan and "info connections" report the array exactly when no *)
(* link changes while they run (QuietSendExact, QuietInfoExact).  Neither  *)
(* is inductive: the loops need what their variables say about the slots  *)
(* read so far, i.e. the loop invariants of lines 1022-1029 and 1074-1077. *)
(***************************************************************************)
EXTENDS ConnectionRegistry, TLAPS

Labels == {"idle", "scan", "check", "send", "info"}
Results == {"running", "none", "multiple", "index", "empty", "hex", "sent", "listed"}
Records == [number : Slots, remote : Remotes]

TypeOK ==
    /\ conn \in [Slots -> Remotes \cup {NoConn}]
    /\ cmd \in {"sendlmp", "info"} /\ pc \in Labels
    /\ i \in 0..Size
    /\ found \in Records \cup {None}
    /\ multiple \in BOOLEAN /\ changed \in BOOLEAN
    /\ seen \subseteq Records
    /\ result \in Results

\* Which labels each command reaches; sendlmp without -n never checks.
PcOK ==
    /\ cmd = "info" => pc \in {"idle", "info"}
    /\ cmd = "sendlmp" => pc # "info"
    /\ cmd = "sendlmp" /\ arg = None => pc # "check"

\* The slots of 1..k that hold a connection.
ActiveUpTo(k) == {s \in Active : s <= k}

\* sendlmp's loop invariant, while no link changed: `connection` is the
\* last active record of the slots read, and found_multiple_active says
\* whether there is another one.
ScanInv ==
    cmd = "sendlmp" /\ arg = None /\ pc = "scan" /\ ~changed =>
        /\ found = None <=> ActiveUpTo(i) = {}
        /\ found = None => ~multiple
        /\ found # None =>
              /\ found.number \in ActiveUpTo(i)
              /\ found.remote = conn[found.number]
              /\ \A s \in ActiveUpTo(i) : s <= found.number
              /\ multiple <=> \E s \in ActiveUpTo(i) : s # found.number

\* After the loop, still quiet: the one active record is the one to send to.
SendInv ==
    cmd = "sendlmp" /\ arg = None /\ pc = "send" /\ ~changed =>
        Active = {number} /\ announced = conn[number]

\* infoConnections' loop invariant, while no link changed.
InfoInv ==
    cmd = "info" /\ pc = "info" /\ ~changed =>
        seen = {Record(s) : s \in ActiveUpTo(i)}

IInv == TypeOK /\ PcOK /\ ScanInv /\ SendInv /\ InfoInv
            /\ QuietSendExact /\ QuietInfoExact


-----------------------------------------------------------------------------
LEMMA InitIInv == Init => IInv
  <1> SUFFICES ASSUME Init PROVE IInv
    OBVIOUS
  <1>1. TypeOK
    <2>1. conn \in [Slots -> Remotes \cup {NoConn}]
      BY DEF Init
    <2>2. i \in 0..Size
      BY ConnAssumption DEF Init
    <2>3. found \in Records \cup {None} /\ seen \subseteq Records
      BY DEF Init
    <2>4. cmd \in {"sendlmp", "info"} /\ pc \in Labels /\ result \in Results
      BY DEF Init, Labels, Results
    <2>5. multiple \in BOOLEAN /\ changed \in BOOLEAN
      BY DEF Init
    <2>6. QED
      BY <2>1, <2>2, <2>3, <2>4, <2>5 DEF TypeOK
  <1>2. PcOK /\ ScanInv /\ SendInv /\ InfoInv
    BY DEF Init, PcOK, ScanInv, SendInv, InfoInv
  <1>3. QuietSendExact /\ QuietInfoExact
    BY DEF Init, QuietSendExact, QuietInfoExact, Active, Slots
  <1>4. QED
    BY <1>1, <1>2, <1>3 DEF IInv

\* A link that connects or drops ends every quiet period.
LEMMA ControllerIInv == IInv /\ Controller => IInv'
  <1> SUFFICES ASSUME IInv, Controller PROVE IInv'
    OBVIOUS
  <1>1. changed' = TRUE /\ UNCHANGED <<cmd, pc, arg, i, found, multiple, seen, number, announced, sent, result>>
    BY DEF Controller, Connect, Disconnect
  <1>2. conn' \in [Slots -> Remotes \cup {NoConn}]
    BY DEF IInv, TypeOK, Controller, Connect, Disconnect
  <1>3. TypeOK'
    BY <1>1, <1>2 DEF IInv, TypeOK
  <1>4. QED
    BY <1>1, <1>3 DEF IInv, PcOK, ScanInv, SendInv, InfoInv, QuietSendExact, QuietInfoExact

\* Invoke's resets are well typed, whichever command it starts.
LEMMA InvokeType ==
    ASSUME IInv, Invoke, cmd' \in {"sendlmp", "info"}, pc' \in Labels
    PROVE  TypeOK'
  <1>1. /\ i' = 0 /\ found' = None /\ multiple' = FALSE /\ seen' = {}
        /\ changed' = FALSE /\ result' = "running" /\ conn' = conn
    BY DEF Invoke
  <1>2. conn' \in [Slots -> Remotes \cup {NoConn}]
    BY <1>1 DEF IInv, TypeOK
  <1>3. i' \in 0..Size
    BY <1>1, ConnAssumption
  <1>4. found' \in Records \cup {None} /\ seen' \subseteq Records
    BY <1>1
  <1>5. multiple' \in BOOLEAN /\ changed' \in BOOLEAN
    BY <1>1
  <1>6. result' \in Results
    BY <1>1 DEF Results
  <1>7. QED
    BY <1>2, <1>3, <1>4, <1>5, <1>6 DEF TypeOK

LEMMA InvokeIInv == IInv /\ Invoke => IInv'
  <1> SUFFICES ASSUME IInv, Invoke PROVE IInv'
    OBVIOUS
  <1>1. /\ i' = 0 /\ found' = None /\ multiple' = FALSE /\ seen' = {}
        /\ changed' = FALSE /\ result' = "running" /\ conn' = conn
    BY DEF Invoke
  <1>2. ActiveUpTo(i)' = {}
    BY <1>1, ConnAssumption DEF ActiveUpTo, Active, Slots
  <1>3. CASE cmd' = "info" /\ pc' = "info"
    <2>1. TypeOK'
      BY <1>1, <1>3, InvokeType DEF Labels
    <2>2. PcOK' /\ ScanInv' /\ SendInv' /\ QuietSendExact' /\ QuietInfoExact'
      BY <1>3 DEF PcOK, ScanInv, SendInv, QuietSendExact, QuietInfoExact
    <2>3. InfoInv'
      BY <1>1, <1>2 DEF InfoInv
    <2>4. QED
      BY <2>1, <2>2, <2>3 DEF IInv
  <1>4. CASE \E n \in Numbers, nocheck \in BOOLEAN :
             /\ cmd' = "sendlmp" /\ arg' = n /\ number' = n
             /\ pc' = IF n = None THEN "scan" ELSE IF nocheck THEN "send" ELSE "check"
             /\ announced' = IF n # None /\ nocheck THEN "?" ELSE None
    <2>1. PICK n \in Numbers, nocheck \in BOOLEAN :
             /\ cmd' = "sendlmp" /\ arg' = n /\ number' = n
             /\ pc' = IF n = None THEN "scan" ELSE IF nocheck THEN "send" ELSE "check"
             /\ announced' = IF n # None /\ nocheck THEN "?" ELSE None
      BY <1>4
    <2>2. pc' \in {"scan", "send", "check"} /\ (arg' = None => pc' = "scan")
      BY <2>1
    <2>3. TypeOK'
      BY <1>1, <2>1, <2>2, InvokeType DEF Labels
    <2>4. PcOK' /\ SendInv' /\ InfoInv' /\ QuietSendExact' /\ QuietInfoExact'
      BY <2>1, <2>2 DEF PcOK, SendInv, InfoInv, QuietSendExact, QuietInfoExact
    <2>5. ScanInv'
      BY <1>1, <1>2 DEF ScanInv
    <2>6. QED
      BY <2>3, <2>4, <2>5 DEF IInv
  <1>5. QED
    BY <1>3, <1>4 DEF Invoke



\* Records are never None, and an active slot's record is one.
LEMMA RecordFacts ==
    ASSUME TypeOK, NEW s \in Slots, conn[s] # NoConn
    PROVE  Record(s) \in Records /\ Record(s) # None
  BY ConnAssumption DEF TypeOK, Record, Records, Slots

\* One pass of sendlmp's loop keeps its invariant: reading slot i+1 adds
\* it to the slots read, and makes it `connection` if active.
LEMMA ScanStepIInv == IInv /\ ScanStep => IInv'
  <1> SUFFICES ASSUME IInv, ScanStep PROVE IInv'
    OBVIOUS
  <1> DEFINE s == i + 1
  <1>1. /\ i \in 0..Size - 1 /\ s \in Slots /\ i' = s
        /\ UNCHANGED <<conn, cmd, pc, arg, number, announced, sent, result, changed>>
    BY ConnAssumption DEF ScanStep, IInv, TypeOK, Slots
  <1>2. SendInv' /\ InfoInv' /\ QuietSendExact' /\ QuietInfoExact' /\ PcOK'
    BY <1>1 DEF ScanStep, IInv, PcOK, SendInv, InfoInv, QuietSendExact, QuietInfoExact
  <1>3. CASE conn[s] # NoConn
    <2>1. /\ seen' = seen \cup {Record(s)}
          /\ multiple' = (multiple \/ found # None)
          /\ found' = Record(s)
      BY <1>3 DEF ScanStep
    <2>2. Record(s) \in Records /\ Record(s) # None
      BY <1>1, <1>3, RecordFacts DEF IInv
    <2>3. TypeOK'
      <3>1. i' \in 0..Size
        BY <1>1, ConnAssumption DEF Slots
      <3>2. found' \in Records \cup {None} /\ seen' \subseteq Records
        BY <2>1, <2>2 DEF IInv, TypeOK
      <3>3. multiple' \in BOOLEAN
        BY <2>1
      <3>4. QED
        BY <1>1, <3>1, <3>2, <3>3 DEF IInv, TypeOK
    <2>4. ActiveUpTo(i)' = ActiveUpTo(i) \cup {s}
      BY <1>1, <1>3 DEF ActiveUpTo, Active, Slots
    <2>5. ScanInv'
      <3> SUFFICES ASSUME cmd = "sendlmp", arg = None, pc = "scan", ~changed
                   PROVE  ScanInv'
        BY <1>1 DEF ScanInv
      <3>1. /\ found = None <=> ActiveUpTo(i) = {}
            /\ found = None => ~multiple
            /\ found # None => /\ found.number \in ActiveUpTo(i)
                               /\ multiple <=> \E t \in ActiveUpTo(i) : t # found.number
        BY DEF IInv, ScanInv
      <3>2. \A t \in ActiveUpTo(i) : t < s
        BY <1>1 DEF ActiveUpTo, Active, Slots
      <3>3. multiple' <=> \E t \in ActiveUpTo(i)' : t # s
        <4>1. multiple' = (found # None)
          BY <2>1, <3>1
        <4>2. (\E t \in ActiveUpTo(i)' : t # s) <=> ActiveUpTo(i) # {}
          <5>1. ActiveUpTo(i) \subseteq Slots
            BY DEF ActiveUpTo, Active
          <5>2. QED
            BY <1>1, <2>4, <3>2, <5>1 DEF Slots
        <4>3. QED
          BY <4>1, <4>2, <3>1
      <3>4. found' = [number |-> s, remote |-> conn'[s]]
        BY <1>1, <2>1 DEF Record
      <3>5. \A t \in ActiveUpTo(i)' : t <= s
        <4>1. ActiveUpTo(i) \subseteq Slots
          BY DEF ActiveUpTo, Active
        <4>2. QED
          BY <1>1, <2>4, <3>2, <4>1 DEF Slots
      <3>6. found' # None /\ ActiveUpTo(i)' # {}
        BY <2>1, <2>2, <2>4
      <3>7. found'.number \in ActiveUpTo(i)' /\ found'.remote = conn'[found'.number]
        BY <2>4, <3>4
      <3>8. QED
        BY <3>3, <3>4, <3>5, <3>6, <3>7 DEF ScanInv
    <2>6. QED
      BY <1>2, <2>3, <2>5 DEF IInv
  <1>4. CASE conn[s] = NoConn
    <2>1. UNCHANGED <<seen, multiple, found>>
      BY <1>4 DEF ScanStep
    <2>2. TypeOK'
      <3>1. i' \in 0..Size
        BY <1>1, ConnAssumption DEF Slots
      <3>2. QED
        BY <1>1, <2>1, <3>1 DEF IInv, TypeOK
    <2>3. ActiveUpTo(i)' = ActiveUpTo(i)
      BY <1>1, <1>4 DEF ActiveUpTo, Active, Slots
    <2>4. ScanInv'
      <3> SUFFICES ASSUME cmd = "sendlmp", arg = None, pc = "scan", ~changed
                   PROVE  ScanInv'
        BY <1>1 DEF ScanInv
      <3>1. QED
        BY <1>1, <2>1, <2>3 DEF IInv, ScanInv
    <2>5. QED
      BY <1>2, <2>2, <2>4 DEF IInv
  <1>5. QED
    BY <1>3, <1>4


\* After its last pass, sendlmp's loop has read every slot.
LEMMA ActiveUpToSize == ActiveUpTo(Size) = Active
  BY DEF ActiveUpTo, Active, Slots

\* The end of sendlmp's loop: its invariant over all slots is the outcome.
LEMMA ScanEndIInv == IInv /\ ScanEnd => IInv'
  <1> SUFFICES ASSUME IInv, ScanEnd PROVE IInv'
    OBVIOUS
  <1>1. /\ pc = "scan" /\ i = Size
        /\ UNCHANGED <<conn, cmd, arg, i, found, multiple, seen, sent, changed>>
    BY DEF ScanEnd
  <1>2. cmd = "sendlmp"
    BY <1>1 DEF IInv, PcOK, TypeOK
  <1>3. InfoInv' /\ QuietInfoExact' /\ ScanInv'
    BY <1>1, <1>2 DEF ScanEnd, InfoInv, QuietInfoExact, ScanInv
  <1> DEFINE Quiet == arg = None /\ ~changed
  <1>4. Quiet => /\ found = None <=> Active = {}
                 /\ found # None =>
                       /\ found.number \in Active
                       /\ found.remote = conn[found.number]
                       /\ \A t \in Active : t <= found.number
                       /\ multiple <=> \E t \in Active : t # found.number
    BY <1>1, <1>2, ActiveUpToSize DEF IInv, ScanInv
  <1> DEFINE Ends(r) == pc' = "idle" /\ result' = r /\ UNCHANGED <<number, announced>>
  <1>a. ASSUME NEW r \in Results, Ends(r) PROVE TypeOK' /\ PcOK' /\ SendInv'
    BY <1>1, <1>a DEF IInv, TypeOK, Labels, PcOK, SendInv
  <1>5. CASE found = None /\ Ends("none")
    <2>1. Quiet => Active = {}
      BY <1>4, <1>5
    <2>2. QuietSendExact'
      BY <1>1, <1>2, <1>5, <2>1 DEF QuietSendExact, Quiet, Ends, Active
    <2>3. QED
      BY <1>3, <1>5, <1>a, <2>2 DEF IInv, Results
  <1>6. CASE found # None /\ multiple /\ Ends("multiple")
    <2>1. Quiet => \E s, t \in Active : s # t
      BY <1>4, <1>6
    <2>2. QuietSendExact'
      BY <1>1, <1>2, <1>6, <2>1 DEF QuietSendExact, Quiet, Ends, Active
    <2>3. QED
      BY <1>3, <1>6, <1>a, <2>2 DEF IInv, Results
  <1>7. CASE found # None /\ ~multiple /\ pc' = "send"
             /\ number' = found.number /\ announced' = found.remote /\ UNCHANGED result
    <2>1. TypeOK' /\ PcOK' /\ QuietSendExact'
      BY <1>1, <1>2, <1>7 DEF IInv, TypeOK, Labels, PcOK, QuietSendExact
    <2>2. SendInv'
      <3> SUFFICES ASSUME Quiet PROVE Active = {found.number}
        BY <1>1, <1>4, <1>7 DEF SendInv, Active
      <3>1. \A t \in Active : t = found.number
        BY <1>4, <1>7
      <3>2. QED
        BY <1>4, <1>7, <3>1
    <2>3. QED
      BY <1>3, <2>1, <2>2 DEF IInv
  <1>8. QED
    BY <1>5, <1>6, <1>7 DEF ScanEnd

\* -n without --nocheck never belongs to a quiet scan.
LEMMA CheckIInv == IInv /\ Check => IInv'
  <1> SUFFICES ASSUME IInv, Check PROVE IInv'
    OBVIOUS
  <1>1. /\ pc = "check" /\ cmd = "sendlmp" /\ arg # None
        /\ UNCHANGED <<conn, cmd, arg, i, found, multiple, number, sent, changed>>
        /\ pc' \in {"idle", "send"} /\ result' \in Results
    BY DEF Check, IInv, PcOK, TypeOK, Results
  <1>2. seen' \subseteq Records
    BY RecordFacts DEF Check, IInv, TypeOK
  <1>3. TypeOK'
    BY <1>1, <1>2 DEF IInv, TypeOK, Labels
  <1>4. QED
    BY <1>1, <1>3 DEF IInv, PcOK, ScanInv, SendInv, InfoInv, QuietSendExact, QuietInfoExact

\* The send of a quiet sendlmp goes to the one active connection.
LEMMA SendIInv == IInv /\ Send => IInv'
  <1> SUFFICES ASSUME IInv, Send PROVE IInv'
    OBVIOUS
  <1>1. /\ pc = "send" /\ cmd = "sendlmp" /\ pc' = "idle"
        /\ UNCHANGED <<conn, cmd, arg, i, found, multiple, seen, number, announced, changed>>
    BY DEF Send, IInv, PcOK, TypeOK
  <1>2. TypeOK' /\ PcOK' /\ ScanInv' /\ SendInv' /\ InfoInv' /\ QuietInfoExact'
    BY <1>1 DEF Send, IInv, TypeOK, Results, Labels, PcOK, ScanInv, SendInv, InfoInv,
                QuietInfoExact
  <1>3. QuietSendExact'
    <2> SUFFICES ASSUME arg = None, ~changed PROVE QuietSendExact'
      BY <1>1 DEF QuietSendExact
    <2>1. Active = {number} /\ announced = conn[number] /\ number \in Slots
      BY <1>1 DEF IInv, SendInv, Active
    <2>2. result' = "sent" => sent'.to = sent'.announced
      BY <2>1 DEF Send
    <2>3. result' \in {"sent", "hex"} => Active' = {number'}
      BY <1>1, <2>1 DEF Active
    <2>4. QED
      <3>1. result' \in {"sent", "hex"}
        BY DEF Send
      <3>2. QED
        BY <1>1, <2>2, <2>3, <3>1 DEF QuietSendExact
  <1>4. QED
    BY <1>2, <1>3 DEF IInv

\* infoConnections' loop keeps its invariant.
LEMMA InfoStepIInv == IInv /\ InfoStep => IInv'
  <1> SUFFICES ASSUME IInv, InfoStep PROVE IInv'
    OBVIOUS
  <1>1. /\ pc = "info" /\ cmd = "info" /\ i \in 0..Size - 1 /\ i + 1 \in Slots /\ i' = i + 1
        /\ UNCHANGED <<conn, cmd, pc, arg, found, multiple, number, announced, sent, result, changed>>
    BY ConnAssumption DEF InfoStep, IInv, PcOK, TypeOK, Slots
  <1>2. seen' \subseteq Records
    BY <1>1, RecordFacts DEF InfoStep, IInv, TypeOK
  <1>3. TypeOK'
    <2>1. i' \in 0..Size
      BY <1>1, ConnAssumption DEF Slots
    <2>2. QED
      BY <1>1, <1>2, <2>1 DEF IInv, TypeOK
  <1>4. PcOK' /\ ScanInv' /\ SendInv' /\ QuietSendExact' /\ QuietInfoExact'
    BY <1>1 DEF IInv, PcOK, ScanInv, SendInv, QuietSendExact, QuietInfoExact
  <1>5. InfoInv'
    <2> SUFFICES ASSUME ~changed PROVE InfoInv'
      BY <1>1 DEF InfoInv
    <2>1. seen = {Record(s) : s \in ActiveUpTo(i)}
      BY <1>1 DEF IInv, InfoInv
    <2>2. ActiveUpTo(i)' = ActiveUpTo(i) \cup (IF conn[i + 1] # NoConn THEN {i + 1} ELSE {})
      BY <1>1 DEF ActiveUpTo, Active, Slots
    <2>3. QED
      BY <1>1, <2>1, <2>2 DEF InfoStep, InfoInv, Record
  <1>6. QED
    BY <1>3, <1>4, <1>5 DEF IInv

\* The end of infoConnections' loop: it printed every active connection.
LEMMA InfoEndIInv == IInv /\ InfoEnd => IInv'
  <1> SUFFICES ASSUME IInv, InfoEnd PROVE IInv'
    OBVIOUS
  <1>1. /\ pc = "info" /\ cmd = "info" /\ i = Size /\ pc' = "idle" /\ result' = "listed"
        /\ UNCHANGED <<conn, cmd, arg, i, found, multiple, seen, number, announced, sent, changed>>
    BY DEF InfoEnd, IInv, PcOK, TypeOK
  <1>2. TypeOK' /\ PcOK' /\ ScanInv' /\ SendInv' /\ InfoInv' /\ QuietSendExact'
    BY <1>1 DEF IInv, TypeOK, Results, Labels, PcOK, ScanInv, SendInv, InfoInv, QuietSendExact
  <1>3. QuietInfoExact'
    BY <1>1, ActiveUpToSize DEF IInv, InfoInv, QuietInfoExact, Record, Active
  <1>4. QED
    BY <1>2, <1>3 DEF IInv


-----------------------------------------------------------------------------
\* The loop invariants hold in every reachable state.
THEOREM IInvHolds == Spec => []IInv
  <1>1. IInv /\ [Next]_vars => IInv'
    <2> SUFFICES ASSUME IInv, [Next]_vars PROVE IInv'
      OBVIOUS
    <2>1. CASE Controller
      BY <2>1, ControllerIInv
    <2>2. CASE Invoke
      BY <2>2, InvokeIInv
    <2>3. CASE ScanStep
      BY <2>3, ScanStepIInv
    <2>4. CASE ScanEnd
      BY <2>4, ScanEndIInv
    <2>5. CASE Check
      BY <2>5, CheckIInv
    <2>6. CASE Send
      BY <2>6, SendIInv
    <2>7. CASE InfoStep
      BY <2>7, InfoStepIInv
    <2>8. CASE InfoEnd
      BY <2>8, InfoEndIInv
    <2>9. CASE UNCHANGED vars
      BY <2>9 DEF vars, IInv, TypeOK, PcOK, ScanInv, SendInv, InfoInv,
                  QuietSendExact, QuietInfoExact, ActiveUpTo, Active, Record
    <2>10. QED
      BY <2>1, <2>2, <2>3, <2>4, <2>5, <2>6, <2>7, <2>8, <2>9 DEF Next, Cli
  <1>2. QED
    BY <1>1, InitIInv, PTL DEF Spec

\* For every array size: when no link connects or drops while sendlmp
\* scans the array without -n, it sends to the one active connection, and
\* refuses with "no active" or "multiple active" exactly when the array
\* has none or more than one (cmds.py lines 1022-1039).
THEOREM QuietSendExactHolds == Spec => []QuietSendExact
  BY IInvHolds, PTL DEF IInv

\* For every array size: when no link changes while "info connections"
\* runs, it prints exactly the active connections (lines 1074-1093).
THEOREM QuietInfoExactHolds == Spec => []QuietInfoExact
  BY IInvHolds, PTL DEF IInv

=============================================================================
