------------------------- MODULE ConnectionRegistry --------------------------
(***************************************************************************)
(* The commands that read the controller's connection array: sendlmp      *)
(* (CmdSendLmp.work, cmds.py lines 1011-1061) and "info connections"       *)
(* (CmdInfo.infoConnections, lines 1073-1094, dispatched by work,          *)
(* 1120-1135).  Each readConnectionInformation(i) is its own HCI read of   *)
(* one record (spec.md 4.5), so the controller, which owns the array,     *)
(* connects and drops links between two reads of one command.              *)
(*                                                                         *)
(* A record is its slot number and the remote address the slot holds;     *)
(* NoConn is the all-zero address of an empty slot, for which the core    *)
(* returns None.  sendLmpPacket is not in this source tree: the LMP packet *)
(* goes to whatever device holds the connection number when it is sent.   *)
(***************************************************************************)
EXTENDS Naturals

CONSTANTS
    Size,       \* fw.CONNECTION_ARRAY_SIZE
    Remotes,    \* the remote devices' Bluetooth addresses
    NoConn,     \* the all-zero remote address of an empty slot
    Numbers,    \* the values of sendlmp's --conn_number, None when absent
    None        \* Python's None

ASSUME ConnAssumption ==
    /\ Size \in Nat \ {0}
    /\ NoConn \notin Remotes
    /\ None \in Numbers /\ Numbers \ {None} \subseteq Nat
    /\ None \notin [number : 1..Size, remote : Remotes]

VARIABLES
    conn,       \* the controller's array: slot -> remote address or NoConn
    cmd,        \* the command the CLI runs: "sendlmp" or "info"
    pc,         \* where it is
    arg,        \* args.conn_number
    i,          \* the loop index of range(CONNECTION_ARRAY_SIZE)
    found,      \* sendlmp's `connection`: the last active record read, or None
    multiple,   \* sendlmp's found_multiple_active
    seen,       \* the active records the command read (and logged)
    number,     \* connection_number
    announced,  \* remote_addr, as logged before the send ("?" with --nocheck)
    sent,       \* the packet sendLmpPacket sent: number, announced, receiver
    result,     \* how the command ended
    changed     \* whether the controller changed a slot since the command began

vars == <<conn, cmd, pc, arg, i, found, multiple, seen, number, announced,
          sent, result, changed>>

Slots == 1..Size

\* readConnectionInformation(s) for a slot that holds a connection.
Record(s) == [number |-> s, remote |-> conn[s]]

Active == {s \in Slots : conn[s] # NoConn}

\* The controller starts with no connection and the CLI idle.
Init ==
    /\ conn = [s \in Slots |-> NoConn]
    /\ cmd = "info" /\ pc = "idle" /\ arg = None /\ i = 0
    /\ found = None /\ multiple = FALSE /\ seen = {}
    /\ number = None /\ announced = None /\ sent = None
    /\ result = "listed" /\ changed = FALSE

-----------------------------------------------------------------------------
(* The controller: a device connects in a free slot, or a link drops.     *)
(* A device holds at most one connection.                                 *)

Connect(s, r) ==
    /\ conn[s] = NoConn /\ \A t \in Slots : conn[t] # r
    /\ conn' = [conn EXCEPT ![s] = r]
    /\ changed' = TRUE
    /\ UNCHANGED <<cmd, pc, arg, i, found, multiple, seen, number, announced, sent, result>>

Disconnect(s) ==
    /\ conn[s] # NoConn
    /\ conn' = [conn EXCEPT ![s] = NoConn]
    /\ changed' = TRUE
    /\ UNCHANGED <<cmd, pc, arg, i, found, multiple, seen, number, announced, sent, result>>

Controller == \E s \in Slots : Disconnect(s) \/ \E r \in Remotes : Connect(s, r)

-----------------------------------------------------------------------------
(* The CLI.                                                                *)

\* The user types "info connections" (CmdInfo.work, lines 1120-1131) or
\* sendlmp (lines 1011-1020); with -n and --nocheck it goes straight to
\* the send with remote_addr "?" (lines 1041-1042).
Invoke ==
    /\ pc = "idle"
    /\ \/ cmd' = "info" /\ pc' = "info" /\ UNCHANGED <<arg, number, announced>>
       \/ \E n \in Numbers, nocheck \in BOOLEAN :
             /\ cmd' = "sendlmp" /\ arg' = n /\ number' = n
             /\ pc' = IF n = None THEN "scan" ELSE IF nocheck THEN "send" ELSE "check"
             /\ announced' = IF n # None /\ nocheck THEN "?" ELSE None
    /\ i' = 0 /\ found' = None /\ multiple' = FALSE /\ seen' = {}
    /\ sent' = None /\ result' = "running" /\ changed' = FALSE
    /\ UNCHANGED conn

\* One pass of sendlmp's loop (lines 1022-1029): read slot i+1; an active
\* record is logged, becomes `connection`, and marks multiple if one was
\* found before.
ScanStep ==
    /\ pc = "scan" /\ i < Size
    /\ LET s == i + 1 IN
         IF conn[s] # NoConn
         THEN /\ seen' = seen \cup {Record(s)}
              /\ multiple' = (multiple \/ found # None)
              /\ found' = Record(s)
         ELSE UNCHANGED <<seen, multiple, found>>
    /\ i' = i + 1
    /\ UNCHANGED <<conn, cmd, pc, arg, number, announced, sent, result, changed>>

\* Mutant: multiple left unset when a second active record is read.
ScanEndNoMultiple ==
    /\ pc = "scan" /\ i = Size
    /\ \/ found = None /\ pc' = "idle" /\ result' = "none"
          /\ UNCHANGED <<number, announced>>
       \/ found # None /\ pc' = "send"
          /\ number' = found.number /\ announced' = found.remote /\ UNCHANGED result
    /\ UNCHANGED <<conn, cmd, arg, i, found, multiple, seen, sent, changed>>

\* After the loop (lines 1031-1039): no active record, or more than one,
\* ends the command; otherwise the record found is the one to send to.
ScanEnd ==
    /\ pc = "scan" /\ i = Size
    /\ \/ found = None /\ pc' = "idle" /\ result' = "none"
          /\ UNCHANGED <<number, announced>>
       \/ found # None /\ multiple /\ pc' = "idle" /\ result' = "multiple"
          /\ UNCHANGED <<number, announced>>
       \/ found # None /\ ~multiple /\ pc' = "send"
          /\ number' = found.number /\ announced' = found.remote /\ UNCHANGED result
    /\ UNCHANGED <<conn, cmd, arg, i, found, multiple, seen, sent, changed>>

\* -n without --nocheck (lines 1041-1049): read that record; a number
\* outside [1, CONNECTION_ARRAY_SIZE] raises IndexError (spec.md 4.5),
\* which work() does not catch; an empty slot ends the command.
Check ==
    /\ pc = "check"
    /\ \/ number \notin Slots /\ pc' = "idle" /\ result' = "index"
          /\ UNCHANGED <<seen, announced>>
       \/ number \in Slots /\ conn[number] = NoConn /\ pc' = "idle" /\ result' = "empty"
          /\ UNCHANGED <<seen, announced>>
       \/ number \in Slots /\ conn[number] # NoConn /\ pc' = "send"
          /\ seen' = {Record(number)} /\ announced' = conn[number] /\ UNCHANGED result
    /\ UNCHANGED <<conn, cmd, arg, i, found, multiple, number, sent, changed>>

\* Lines 1051-1061: the payload's hex decoding may fail; otherwise
\* sendLmpPacket sends to connection_number, which by now may hold
\* another device or none.
Send ==
    /\ pc = "send" /\ pc' = "idle"
    /\ \/ result' = "hex" /\ UNCHANGED sent
       \/ /\ result' = "sent"
          /\ sent' = [number |-> number, announced |-> announced,
                      to |-> IF number \in Slots THEN conn[number] ELSE NoConn]
    /\ UNCHANGED <<conn, cmd, arg, i, found, multiple, seen, number, announced, changed>>

\* Mutant: the loop reads slot i instead of i+1, and the core raises
\* IndexError for slot 0.
InfoStepOffByOne ==
    /\ pc = "info" /\ i < Size
    /\ IF i = 0 THEN pc' = "idle" /\ result' = "index" /\ UNCHANGED <<seen, i>>
       ELSE /\ seen' = IF conn[i] # NoConn THEN seen \cup {Record(i)} ELSE seen
            /\ i' = i + 1 /\ UNCHANGED <<pc, result>>
    /\ UNCHANGED <<conn, cmd, arg, found, multiple, number, announced, sent, changed>>

\* One pass of infoConnections' loop (lines 1074-1093): an active record
\* is printed.
InfoStep ==
    /\ pc = "info" /\ i < Size
    /\ seen' = IF conn[i + 1] # NoConn THEN seen \cup {Record(i + 1)} ELSE seen
    /\ i' = i + 1
    /\ UNCHANGED <<conn, cmd, pc, arg, found, multiple, number, announced, sent, result, changed>>

\* The loop is over; work() returns (lines 1094, 1135).
InfoEnd ==
    /\ pc = "info" /\ i = Size
    /\ pc' = "idle" /\ result' = "listed"
    /\ UNCHANGED <<conn, cmd, arg, i, found, multiple, seen, number, announced, sent, changed>>

Cli == Invoke \/ ScanStep \/ ScanEnd \/ Check \/ Send \/ InfoStep \/ InfoEnd

Next == Controller \/ Cli

Spec == Init /\ [][Next]_vars

-----------------------------------------------------------------------------
\* When no link changes while sendlmp runs without -n, its outcome is the
\* one the array dictates: it sends to the only active connection, and says
\* "none" or "multiple" exactly when there is no active connection or more
\* than one (the loop of lines 1022-1039).
QuietSendExact ==
    cmd = "sendlmp" /\ arg = None /\ pc = "idle" /\ ~changed =>
        /\ result = "none" => Active = {}
        /\ result = "multiple" => \E s, t \in Active : s # t
        /\ result \in {"sent", "hex"} => Active = {number}
        /\ result = "sent" => sent.to = sent.announced

\* When no link changes while "info connections" runs, it prints exactly
\* the active connections (lines 1074-1093).
QuietInfoExact ==
    cmd = "info" /\ pc = "idle" /\ ~changed =>
        seen = {Record(s) : s \in Active}

\* The packet goes to the device sendlmp named in its log line ("Sending
\* op=... to connection nr=... (remote)", line 1058) whenever it checked
\* the connection first.
SentToAnnounced ==
    sent # None /\ sent.announced # "?" => sent.to = sent.announced

=============================================================================
