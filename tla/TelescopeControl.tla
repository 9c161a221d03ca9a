-------------------------- MODULE TelescopeControl --------------------------
(***************************************************************************)
(* Telescope commands: the HTTP handlers of /telescopes/commands/*, the    *)
(* mount read and the status query, the command handlers behind them       *)
(* (logic/commands/telescope_control.py) and the Alpaca adapter            *)
(* (infra/integrations/alpaca/telescope_client.py).                        *)
(*                                                                         *)
(* Each request runs one device transaction (a nudge runs two) in a worker *)
(* thread: Connect, wait, work, and Connected = False in the finally       *)
(* block.  Nothing serialises the transactions, and the mount has a single *)
(* connection: every driver object of the process has the same client id.  *)
(* After a transaction that moved the mount the handler publishes an event *)
(* and writes an audit record, each of which may raise.                    *)
(*                                                                         *)
(* The mount is external: a connection flag, a position on the RA circle,  *)
(* a goal it may be slewing to, and its tracking switch.  It goes on       *)
(* moving when it is disconnected.  Requests refused before any device     *)
(* call (401, control disabled) change nothing and are left out.           *)
(***************************************************************************)
EXTENDS Integers, Sequences

CONSTANTS
  Clients,      \* requests served at the same time
  Circle,       \* positions are 0..(Circle - 1)
  Deltas,       \* the offsets a nudge may ask for
  Ops,          \* the operations clients ask for
  MountKinds,   \* the capability sets of the mounts considered
  Faults,       \* what may go wrong
  MaxCommands,  \* bound: requests made
  MaxKills      \* bound: deaths of the backend process

\* "connect": Connect raises or times out; "call": a later call raises, before or
\* after the mount obeyed; "timeout": the slew deadline passes; "disconnect":
\* Connected = False raises; "kafka": send raises; "mongo": the insert raises.
FaultKinds == {"connect", "call", "timeout", "disconnect", "kafka", "mongo"}

Capabilities == {"slew_async", "slew", "sync", "tracking"}
AllOps == {"slew", "sync", "tracking", "nudge", "read", "status"}

ASSUME ControlAssumption ==
  /\ Circle \in Nat \ {0}
  /\ Deltas \subseteq Int
  /\ Ops \subseteq AllOps
  /\ MountKinds \subseteq SUBSET Capabilities
  /\ Faults \subseteq FaultKinds
  /\ MaxCommands \in Nat
  /\ MaxKills \in Nat

VARIABLES
  pc,          \* where each request is
  cmd,         \* the command it carries: [id, op, target]
  work,        \* what its device transaction does
  failed,      \* whether that transaction has raised
  prior,       \* the position a read returned
  mount,       \* [connected, pos, goal, slewing, tracking, can]
  moves,       \* the commands the mount obeyed, in order (history)
  events,      \* the events sent to telescope-operation-events
  audits,      \* the command_audit records, in insertion order
  outcome,     \* how each request ended: "ok", "502" or "500" (history)
  overlapped,  \* requests whose open transaction has met another (history)
  leftOpen,    \* a connection may have been left open (history)
  next,        \* the id of the next request
  kills        \* deaths of the process so far

records == <<moves, events, audits>>
counts  == <<next, kills>>
vars == <<pc, cmd, work, failed, prior, mount, records, outcome,
          overlapped, leftOpen, counts>>

-----------------------------------------------------------------------------
Positions == 0..(Circle - 1)
Ids == 1..MaxCommands
\* Tracking off and on.
Switch == {0, 1}

\* What a command carries: a position, an offset or a tracking switch.
Commands == [id : Ids \cup {0}, op : AllOps, target : Positions \cup Deltas \cup Switch]
NoCommand == [id |-> 0, op |-> "read", target |-> 0]

\* Locations of a request: before Connect(), before the Connected check, before
\* the calls of work(driver), polling Slewing, inside a blocking
\* SlewToCoordinates, in the finally block, before the send, before the insert.
Locations == {"idle", "connect", "check", "work", "settle", "blocked",
              "close", "publish", "audit"}

\* From its Connect() until its Connected = False.
Open == {"check", "work", "settle", "blocked", "close"}

\* A read first, for a nudge; every other operation is one transaction.
FirstWork(op) == IF op = "nudge" THEN "read" ELSE op

Init ==
  /\ pc = [c \in Clients |-> "idle"]
  /\ cmd = [c \in Clients |-> NoCommand]
  /\ work = [c \in Clients |-> "read"]
  /\ failed = [c \in Clients |-> FALSE]
  /\ prior = [c \in Clients |-> 0]
  /\ \E can \in MountKinds :
       mount = [connected |-> FALSE, pos |-> 0, goal |-> 0, slewing |-> FALSE,
                tracking |-> 0, can |-> can]
  /\ moves = <<>> /\ events = <<>> /\ audits = <<>>
  /\ outcome = [i \in Ids |-> "none"]
  /\ overlapped = {} /\ leftOpen = FALSE
  /\ next = 1 /\ kills = 0

-----------------------------------------------------------------------------
(* The device transaction. *)

Goto(c, location) == pc' = [pc EXCEPT ![c] = location]

\* The exception leaves work(driver) for the finally block.
Raise(c) ==
  /\ Goto(c, "close")
  /\ failed' = [failed EXCEPT ![c] = TRUE]

ArgumentsOf(op) ==
  CASE op \in {"slew", "sync"} -> Positions
    [] op = "tracking" -> Switch
    [] op = "nudge" -> Deltas
    [] OTHER -> {0}

Request(c) ==
  /\ pc[c] = "idle" /\ next <= MaxCommands
  /\ \E op \in Ops : \E argument \in ArgumentsOf(op) :
       /\ cmd' = [cmd EXCEPT ![c] = [id |-> next, op |-> op, target |-> argument]]
       /\ work' = [work EXCEPT ![c] = FirstWork(op)]
  /\ Goto(c, "connect")
  /\ next' = next + 1
  /\ UNCHANGED <<failed, prior, mount, records, outcome, overlapped, leftOpen, kills>>

\* History: the open transactions c meets, and c with them.
Meets(c) ==
  LET others == {d \in Clients \ {c} : pc[d] \in Open}
  IN  overlapped' = IF others = {} THEN overlapped ELSE overlapped \cup others \cup {c}

Connect(c) ==
  /\ pc[c] = "connect"
  /\ mount' = [mount EXCEPT !.connected = TRUE]
  /\ Goto(c, "check")
  /\ Meets(c)
  /\ UNCHANGED <<cmd, work, failed, prior, records, outcome, leftOpen, counts>>

\* Mutant of ConnectFails: a Connect that times out is not noticed.
ConnectTimesOutUnnoticed(c) ==
  /\ "connect" \in Faults
  /\ pc[c] = "connect"
  /\ Goto(c, "check")
  /\ Meets(c)
  /\ UNCHANGED <<cmd, work, failed, prior, mount, records, outcome, leftOpen, counts>>

ConnectFails(c) ==
  /\ "connect" \in Faults
  /\ pc[c] = "connect"
  /\ mount' \in {mount, [mount EXCEPT !.connected = TRUE]}
  /\ Raise(c)
  /\ Meets(c)
  /\ UNCHANGED <<cmd, work, prior, records, outcome, leftOpen, counts>>

Connected(c) ==
  /\ pc[c] = "check" /\ mount.connected
  /\ Goto(c, "work")
  /\ UNCHANGED <<cmd, work, failed, prior, mount, records, outcome,
                 overlapped, leftOpen, counts>>

\* The Connected check fails, or a call raises NotConnectedException.
NotConnected(c) ==
  /\ pc[c] \in {"check", "work", "settle"} /\ ~mount.connected
  /\ Raise(c)
  /\ UNCHANGED <<cmd, work, prior, mount, records, outcome, overlapped, leftOpen, counts>>

CallFails(c) ==
  /\ "call" \in Faults
  /\ pc[c] \in {"check", "work", "settle", "blocked"}
  /\ Raise(c)
  /\ UNCHANGED <<cmd, work, prior, mount, records, outcome, overlapped, leftOpen, counts>>

\* At the calls of work(driver), on a connected mount.
Working(c, task) == pc[c] = "work" /\ work[c] = task /\ mount.connected

\* The mount obeys; the answer is received, or lost with an exception.
Obeyed(c, location) ==
  /\ moves' = Append(moves, cmd[c])
  /\ \/ Goto(c, location) /\ UNCHANGED failed
     \/ "call" \in Faults /\ Raise(c)
  /\ UNCHANGED <<cmd, work, prior, events, audits, outcome, overlapped, leftOpen, counts>>

\* Mutant of AfterSlewCall: the asynchronous slew is taken for done.
AfterSlewCallNoWait == "close"

\* The asynchronous slew is preferred and polled; the other one blocks.
AfterSlewCall == IF "slew_async" \in mount.can THEN "settle" ELSE "blocked"

\* A mount that is slewing already turns to the new goal.
StartSlew(c) ==
  /\ Working(c, "slew")
  /\ mount.can \cap {"slew_async", "slew"} # {}
  /\ mount' = [mount EXCEPT !.goal = cmd[c].target, !.slewing = TRUE]
  /\ Obeyed(c, AfterSlewCall)

Sync(c) ==
  /\ Working(c, "sync")
  /\ "sync" \in mount.can /\ ~mount.slewing
  /\ mount' = [mount EXCEPT !.pos = cmd[c].target]
  /\ Obeyed(c, "close")

SetTracking(c) ==
  /\ Working(c, "tracking")
  /\ "tracking" \in mount.can
  /\ mount' = [mount EXCEPT !.tracking = cmd[c].target]
  /\ Obeyed(c, "close")

\* No CanSlew*, no CanSync, or an exception of the mount itself.
Refused(c) ==
  /\ \/ Working(c, "slew") /\ mount.can \cap {"slew_async", "slew"} = {}
     \/ Working(c, "sync") /\ ("sync" \notin mount.can \/ mount.slewing)
     \/ Working(c, "tracking") /\ "tracking" \notin mount.can
  /\ Raise(c)
  /\ UNCHANGED <<cmd, work, prior, mount, records, outcome, overlapped, leftOpen, counts>>

\* RightAscension and Declination, or the properties of a status snapshot.
Read(c) ==
  /\ Working(c, "read") \/ Working(c, "status")
  /\ prior' = [prior EXCEPT ![c] = mount.pos]
  /\ Goto(c, "close")
  /\ UNCHANGED <<cmd, work, failed, mount, records, outcome, overlapped, leftOpen, counts>>

\* A poll finds Slewing false.
Settled(c) ==
  /\ pc[c] = "settle" /\ mount.connected /\ ~mount.slewing
  /\ Goto(c, "close")
  /\ UNCHANGED <<cmd, work, failed, prior, mount, records, outcome,
                 overlapped, leftOpen, counts>>

\* Mutant of SettleTimesOut: the client is answered, the transaction goes on.
SettleTimesOutAnswered(c) ==
  /\ "timeout" \in Faults
  /\ pc[c] = "settle" /\ outcome[cmd[c].id] = "none"
  /\ outcome' = [outcome EXCEPT ![cmd[c].id] = "502"]
  /\ UNCHANGED <<pc, cmd, work, failed, prior, mount, records, overlapped, leftOpen, counts>>

SettleTimesOut(c) ==
  /\ "timeout" \in Faults
  /\ pc[c] = "settle"
  /\ Raise(c)
  /\ UNCHANGED <<cmd, work, prior, mount, records, outcome, overlapped, leftOpen, counts>>

BlockingSlewReturns(c) ==
  /\ pc[c] = "blocked" /\ ~mount.slewing
  /\ Goto(c, "close")
  /\ UNCHANGED <<cmd, work, failed, prior, mount, records, outcome,
                 overlapped, leftOpen, counts>>

-----------------------------------------------------------------------------
(* The end of a transaction, and what the handler does next. *)

\* Mutant of Disconnect: the finally block is skipped when work raised.
DisconnectOnSuccess(c) ==
  /\ mount' = [mount EXCEPT !.connected = failed[c] /\ @]
  /\ overlapped' = overlapped \ {c}
  /\ UNCHANGED leftOpen

\* Connected = False; an exception is suppressed.
Disconnect(c) ==
  /\ overlapped' = overlapped \ {c}
  /\ \/ /\ mount' = [mount EXCEPT !.connected = FALSE]
        /\ UNCHANGED leftOpen
     \/ /\ "disconnect" \in Faults
        /\ leftOpen' = TRUE
        /\ UNCHANGED mount

Ends(c, code) ==
  /\ Goto(c, "idle")
  /\ outcome' = [outcome EXCEPT ![cmd[c].id] = code]
  /\ cmd' = [cmd EXCEPT ![c] = NoCommand]
  /\ work' = [work EXCEPT ![c] = "read"]
  /\ failed' = [failed EXCEPT ![c] = FALSE]
  /\ prior' = [prior EXCEPT ![c] = 0]

\* Mutant of Nudged: no normalize_ra_hours.
NudgedUnwrapped(position, delta) == position + delta

\* apply_equatorial_nudge on the RA circle: normalize_ra_hours wraps.
Nudged(position, delta) == (position + delta) % Circle

\* AlpacaDriverException becomes 502; a failed snapshot is itself a status.
CloseFailed(c) ==
  /\ pc[c] = "close" /\ failed[c]
  /\ Disconnect(c)
  /\ Ends(c, IF cmd[c].op = "status" THEN "ok" ELSE "502")
  /\ UNCHANGED <<records, counts>>

CloseRead(c) ==
  /\ pc[c] = "close" /\ ~failed[c] /\ cmd[c].op \in {"read", "status"}
  /\ Disconnect(c)
  /\ Ends(c, "ok")
  /\ UNCHANGED <<records, counts>>

\* The nudge has read the position it starts from: a second transaction slews.
CloseNudgeRead(c) ==
  /\ pc[c] = "close" /\ ~failed[c] /\ cmd[c].op = "nudge" /\ work[c] = "read"
  /\ Disconnect(c)
  /\ cmd' = [cmd EXCEPT ![c].target = Nudged(prior[c], @)]
  /\ work' = [work EXCEPT ![c] = "slew"]
  /\ Goto(c, "connect")
  /\ UNCHANGED <<failed, prior, records, outcome, counts>>

\* Mutant of CloseMoved: an exception of the transaction is not passed on.
CloseMovedAnyway(c) ==
  /\ pc[c] = "close" /\ work[c] \in {"slew", "sync", "tracking"}
  /\ Disconnect(c)
  /\ Goto(c, "publish")
  /\ UNCHANGED <<cmd, work, failed, prior, records, outcome, counts>>

CloseMoved(c) ==
  /\ pc[c] = "close" /\ ~failed[c] /\ work[c] \in {"slew", "sync", "tracking"}
  /\ Disconnect(c)
  /\ Goto(c, "publish")
  /\ UNCHANGED <<cmd, work, failed, prior, records, outcome, counts>>

Publish(c) ==
  /\ pc[c] = "publish"
  /\ events' = Append(events, cmd[c])
  /\ Goto(c, "audit")
  /\ UNCHANGED <<cmd, work, failed, prior, mount, moves, audits, outcome,
                 overlapped, leftOpen, counts>>

PublishFails(c) ==
  /\ "kafka" \in Faults
  /\ pc[c] = "publish"
  /\ Ends(c, "500")
  /\ UNCHANGED <<mount, records, overlapped, leftOpen, counts>>

Audit(c) ==
  /\ pc[c] = "audit"
  /\ audits' = Append(audits, cmd[c])
  /\ Ends(c, "ok")
  /\ UNCHANGED <<mount, moves, events, overlapped, leftOpen, counts>>

\* Mutant of AuditFails: the handler answers as if the record were written.
AuditFailsUnnoticed(c) ==
  /\ "mongo" \in Faults
  /\ pc[c] = "audit"
  /\ audits' \in {audits, Append(audits, cmd[c])}
  /\ Ends(c, "ok")
  /\ UNCHANGED <<mount, moves, events, overlapped, leftOpen, counts>>

\* No endpoint turns InfrastructureUnavailableException of a command into an
\* answer: a 500, whether or not the server applied the insert.
AuditFails(c) ==
  /\ "mongo" \in Faults
  /\ pc[c] = "audit"
  /\ audits' \in {audits, Append(audits, cmd[c])}
  /\ Ends(c, "500")
  /\ UNCHANGED <<mount, moves, events, overlapped, leftOpen, counts>>

-----------------------------------------------------------------------------
(* The mount and the process. *)

MountArrives ==
  /\ mount.slewing
  /\ mount' = [mount EXCEPT !.pos = mount.goal, !.slewing = FALSE]
  /\ UNCHANGED <<pc, cmd, work, failed, prior, records, outcome,
                 overlapped, leftOpen, counts>>

\* The backend dies: its requests and threads end where they are.
Kill ==
  /\ kills < MaxKills
  /\ kills' = kills + 1
  /\ pc' = [c \in Clients |-> "idle"]
  /\ cmd' = [c \in Clients |-> NoCommand]
  /\ work' = [c \in Clients |-> "read"]
  /\ failed' = [c \in Clients |-> FALSE]
  /\ prior' = [c \in Clients |-> 0]
  /\ overlapped' = {}
  /\ leftOpen' = TRUE
  /\ UNCHANGED <<mount, records, outcome, next>>

Transaction(c) ==
  \/ Connect(c)
  \/ ConnectFails(c)
  \/ Connected(c)
  \/ NotConnected(c)
  \/ CallFails(c)
  \/ StartSlew(c)
  \/ Sync(c)
  \/ SetTracking(c)
  \/ Refused(c)
  \/ Read(c)
  \/ Settled(c)
  \/ SettleTimesOut(c)
  \/ BlockingSlewReturns(c)

Handler(c) ==
  \/ CloseFailed(c)
  \/ CloseRead(c)
  \/ CloseNudgeRead(c)
  \/ CloseMoved(c)
  \/ Publish(c)
  \/ PublishFails(c)
  \/ Audit(c)
  \/ AuditFails(c)

\* No request is left and none will come: the only state in which nothing is due.
Quiet ==
  /\ next > MaxCommands /\ \A c \in Clients : pc[c] = "idle"
  /\ ~mount.slewing
  /\ UNCHANGED vars

Next ==
  \/ \E c \in Clients : Request(c) \/ Transaction(c) \/ Handler(c)
  \/ MountArrives
  \/ Kill
  \/ Quiet

Spec == Init /\ [][Next]_vars

-----------------------------------------------------------------------------
(* Properties. *)

TypeOK ==
  /\ pc \in [Clients -> Locations]
  /\ cmd \in [Clients -> Commands]
  /\ work \in [Clients -> AllOps \ {"nudge"}]
  /\ failed \in [Clients -> BOOLEAN]
  /\ prior \in [Clients -> Positions]
  /\ mount \in [connected : BOOLEAN, pos : Positions, goal : Positions,
                slewing : BOOLEAN, tracking : Switch, can : SUBSET Capabilities]
  /\ moves \in Seq(Commands) /\ events \in Seq(Commands) /\ audits \in Seq(Commands)
  /\ outcome \in [Ids -> {"none", "ok", "502", "500"}]
  /\ overlapped \subseteq Clients
  /\ leftOpen \in BOOLEAN
  /\ next \in 1..(MaxCommands + 1)
  /\ kills \in 0..MaxKills

Occurs(x, s) == \E i \in 1..Len(s) : s[i] = x

Once(s) == \A i, j \in 1..Len(s) : s[i].id = s[j].id => i = j

\* The traces never say more than what happened: each audit record has its event,
\* each event the command the mount obeyed with that very target, and none of the
\* three logs holds a command twice, whatever failed, timed out or was lost.
RecordsAreTrue ==
  /\ \A i \in 1..Len(audits) : Occurs(audits[i], events)
  /\ \A i \in 1..Len(events) : Occurs(events[i], moves)
  /\ Once(moves) /\ Once(events) /\ Once(audits)

Recorded(id) == \E i \in 1..Len(audits) : audits[i].id = id

\* A command that was acknowledged has its audit record: of the many ways a
\* request can end half done, none is reported to the client as a success.
AcknowledgedIsRecorded ==
  \A i \in 1..Len(moves) : outcome[moves[i].id] = "ok" => Recorded(moves[i].id)

IsMotion(move) == move.op # "tracking"

\* The last motion the mount obeyed is that of command id.
MovedLast(id) ==
  \E i \in 1..Len(moves) :
    /\ moves[i].id = id /\ IsMotion(moves[i])
    /\ \A j \in (i + 1)..Len(moves) : ~IsMotion(moves[j])

\* A slew or nudge about to be published and acknowledged is complete: unless the
\* mount has obeyed another motion since, it stands at the target.  Polling Slewing
\* is enough, although other transactions and their goals come in between.
SlewIsComplete ==
  \A c \in Clients :
    pc[c] \in {"publish", "audit"} /\ work[c] = "slew" /\ MovedLast(cmd[c].id)
    => ~mount.slewing /\ mount.pos = cmd[c].target

\* A transaction no other one has met keeps the connection it made: only an overlap
\* can turn its work into "not connected".
SoloKeepsConnection ==
  \A c \in Clients :
    pc[c] \in Open \ {"close"} /\ c \notin overlapped => mount.connected

\* The mount is disconnected whenever no transaction is open, in whatever order
\* overlapping ones ended - unless a disconnect failed or the process died.
DisconnectedWhenQuiet ==
  (\A c \in Clients : pc[c] \notin Open) /\ ~leftOpen => ~mount.connected

\* "Audit records are complete and queryable for safety/review traceability."
\* (handlers.py:342): a command the mount obeyed has a record once its request
\* has ended.
AuditIsComplete ==
  \A i \in 1..Len(moves) : outcome[moves[i].id] # "none" => Recorded(moves[i].id)

\* "Supported commands ACK successfully" (handlers.py:337): with a mount that
\* supports them and nothing failing, no command ends in an error.
SupportedCommandsAck == \A id \in Ids : outcome[id] \notin {"502", "500"}

\* The commands of a log, and what their clients were told.
IdsIn(log) == {log[i].id : i \in 1..Len(log)}
Verdict(code) == IF code \in {"502", "500"} THEN "error" ELSE code

Ledger == INSTANCE CommandLedger WITH
  moved <- IdsIn(moves), published <- IdsIn(events), recorded <- IdsIn(audits),
  verdict <- [id \in Ids |-> Verdict(outcome[id])]

\* The handlers, the adapter and the mount together keep the promises of
\* CommandLedger.  In particular a command whose client was told it failed - a slew
\* past its deadline, a nudge that was disconnected - is never obeyed, published
\* or recorded afterwards.
KeepsLedger == Ledger!Spec
=============================================================================
