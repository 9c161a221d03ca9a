----------------------- MODULE TelescopeControl_proofs -----------------------
(* Theorems about TelescopeControl, for any number of overlapping requests,    *)
(* every kind of mount and every set of faults.                                *)
EXTENDS TelescopeControl, TLAPS

MotionWork == {"slew", "sync", "tracking"}

\* An id belongs to one request at a time, which has not ended.
Requests ==
  /\ \A c \in Clients :
       pc[c] = "idle" => cmd[c] = NoCommand /\ work[c] = "read" /\ ~failed[c]
  /\ \A c \in Clients :
       pc[c] # "idle" =>
         /\ cmd[c].id \in Ids /\ cmd[c].id < next
         /\ outcome[cmd[c].id] = "none"
  /\ \A c, d \in Clients :
       pc[c] # "idle" /\ pc[d] # "idle" /\ cmd[c].id = cmd[d].id => c = d
  /\ \A id \in Ids : id >= next => outcome[id] = "none"

\* What a transaction passes to the mount, and the operations that never move it.
Arguments ==
  \A c \in Clients :
    /\ work[c] \in {"slew", "sync"} => cmd[c].target \in Positions
    /\ work[c] = "tracking" => cmd[c].target \in Switch
    /\ cmd[c].op \in {"read", "status"} => work[c] \notin MotionWork

\* The logs hold commands of requests made so far.
Logged ==
  \A id \in IdsIn(moves) \cup IdsIn(events) \cup IdsIn(audits) : id \in Ids /\ id < next

\* How far the logs are, given where a request is.
ProgressOf(c) ==
  pc[c] # "idle" =>
    /\ cmd[c].id \notin IdsIn(audits)
    /\ IF pc[c] = "audit" THEN Occurs(cmd[c], events) ELSE cmd[c].id \notin IdsIn(events)
    /\ \/ pc[c] \in {"settle", "blocked", "publish"}
       \/ pc[c] = "close" /\ ~failed[c] /\ work[c] \in MotionWork
       => Occurs(cmd[c], moves)
    /\ pc[c] \in {"connect", "check", "work"} \/ work[c] \notin MotionWork =>
         cmd[c].id \notin IdsIn(moves)
    /\ pc[c] # "close" => ~failed[c]

Progress == \A c \in Clients : ProgressOf(c)

\* RecordsAreTrue and AcknowledgedIsRecorded, in terms of the ids in the logs.
Within(s, t) == \A i \in 1..Len(s) : Occurs(s[i], t)
Logs == Within(audits, events) /\ Within(events, moves) /\ Once(moves) /\ Once(events) /\ Once(audits)
Acknowledged == \A id \in IdsIn(moves) : outcome[id] = "ok" => id \in IdsIn(audits)

\* Two open transactions have met.
Meeting ==
  \A c, d \in Clients : c # d /\ pc[c] \in Open /\ pc[d] \in Open => c \in overlapped

RecordInv == Requests /\ Logged /\ Progress /\ Logs /\ Acknowledged
ConnectionInv == Meeting /\ SoloKeepsConnection /\ DisconnectedWhenQuiet

-----------------------------------------------------------------------------
(* The logs. *)

\* What Append does to a log, seen through the operators the invariant uses.
LEMMA LogAppend ==
  ASSUME NEW s \in Seq(Commands), NEW x \in Commands
  PROVE  /\ IdsIn(Append(s, x)) = IdsIn(s) \cup {x.id}
         /\ \A y : Occurs(y, Append(s, x)) <=> Occurs(y, s) \/ y = x
         /\ Once(s) /\ x.id \notin IdsIn(s) => Once(Append(s, x))
<1>1. /\ Len(Append(s, x)) = Len(s) + 1 /\ Len(s) \in Nat
      /\ \A i \in 1..Len(s) : Append(s, x)[i] = s[i]
      /\ Append(s, x)[Len(s) + 1] = x
  OBVIOUS
<1>2. 1..(Len(s) + 1) = (1..Len(s)) \cup {Len(s) + 1}
  BY <1>1
<1>3. IdsIn(Append(s, x)) = IdsIn(s) \cup {x.id}
  BY <1>1, <1>2 DEF IdsIn
<1>4. \A y : Occurs(y, Append(s, x)) <=> Occurs(y, s) \/ y = x
  BY <1>1, <1>2 DEF Occurs
<1>5. Once(s) /\ x.id \notin IdsIn(s) => Once(Append(s, x))
  BY <1>1, <1>2 DEF Once, IdsIn
<1> QED
  BY <1>3, <1>4, <1>5

\* A command in a log has its id there.
LEMMA OccursId ==
  ASSUME NEW s, NEW y, Occurs(y, s)
  PROVE  y.id \in IdsIn(s)
BY DEF Occurs, IdsIn

\* A log stays within another one that grows, and when it takes a command of it.
LEMMA WithinAppend ==
  ASSUME NEW s \in Seq(Commands), NEW t \in Seq(Commands), NEW x \in Commands, Within(s, t)
  PROVE  /\ Within(s, Append(t, x))
         /\ Occurs(x, t) => Within(Append(s, x), t)
<1>1. Within(s, Append(t, x))
  BY LogAppend DEF Within
<1>2. ASSUME Occurs(x, t) PROVE Within(Append(s, x), t)
  <2>1. /\ Len(Append(s, x)) = Len(s) + 1 /\ Len(s) \in Nat
        /\ \A i \in 1..Len(s) : Append(s, x)[i] = s[i]
        /\ Append(s, x)[Len(s) + 1] = x
    OBVIOUS
  <2>2. 1..(Len(s) + 1) = (1..Len(s)) \cup {Len(s) + 1}
    BY <2>1
  <2> QED
    BY <1>2, <2>1, <2>2 DEF Within
<1> QED
  BY <1>1, <1>2

\* Nothing is in a log that is empty.
LEMMA EmptyLog ==
  /\ IdsIn(<<>>) = {} /\ Once(<<>>) /\ <<>> \in Seq(Commands)
  /\ \A t : Within(<<>>, t)
BY DEF IdsIn, Once, Within

-----------------------------------------------------------------------------
(* Type correctness. *)

USE DEF counts, records

LEMMA NudgedType ==
  ASSUME NEW position \in Positions, NEW delta \in Int
  PROVE  Nudged(position, delta) \in Positions
BY ControlAssumption DEF Nudged, Positions

LEMMA InitType == Init => TypeOK /\ Arguments
<1>1. /\ 0 \in Positions /\ 0 \in Switch /\ Circle \in Nat
      /\ MaxCommands \in Nat /\ MaxKills \in Nat /\ MountKinds \subseteq SUBSET Capabilities
  BY ControlAssumption DEF Positions, Switch
<1>2. NoCommand \in Commands
  BY <1>1 DEF NoCommand, Commands, AllOps
<1>3. ASSUME Init PROVE TypeOK
  <2>1. PICK can \in MountKinds :
          mount = [connected |-> FALSE, pos |-> 0, goal |-> 0, slewing |-> FALSE,
                   tracking |-> 0, can |-> can]
    BY <1>3 DEF Init
  <2>2. mount \in [connected : BOOLEAN, pos : Positions, goal : Positions,
                   slewing : BOOLEAN, tracking : Switch, can : SUBSET Capabilities]
    BY <1>1, <2>1
  <2>3. /\ pc \in [Clients -> Locations] /\ cmd \in [Clients -> Commands]
        /\ work \in [Clients -> AllOps \ {"nudge"}] /\ failed \in [Clients -> BOOLEAN]
        /\ prior \in [Clients -> Positions]
        /\ outcome \in [Ids -> {"none", "ok", "502", "500"}]
    BY <1>1, <1>2, <1>3 DEF Init, Locations, AllOps
  <2>4. moves \in Seq(Commands) /\ events \in Seq(Commands) /\ audits \in Seq(Commands)
    BY <1>3, EmptyLog DEF Init
  <2>5. overlapped = {} /\ leftOpen = FALSE /\ next = 1 /\ kills = 0
    BY <1>3 DEF Init
  <2>6. next \in 1..(MaxCommands + 1) /\ kills \in 0..MaxKills
    BY <1>1, <2>5
  <2>7. overlapped \subseteq Clients /\ leftOpen \in BOOLEAN
    BY <2>5
  <2> QED
    BY <2>2, <2>3, <2>4, <2>6, <2>7 DEF TypeOK
<1>4. ASSUME Init PROVE Arguments
  BY <1>4 DEF Init, Arguments, MotionWork
<1> QED
  BY <1>3, <1>4

LEMMA DisconnectType ==
  ASSUME TypeOK, NEW c \in Clients, Disconnect(c)
  PROVE  /\ mount' \in [connected : BOOLEAN, pos : Positions, goal : Positions,
                        slewing : BOOLEAN, tracking : Switch, can : SUBSET Capabilities]
         /\ overlapped' \subseteq Clients /\ leftOpen' \in BOOLEAN
BY DEF TypeOK, Disconnect

LEMMA EndsType ==
  ASSUME TypeOK, Arguments, NEW c \in Clients, NEW code \in {"ok", "502", "500"},
         Ends(c, code)
  PROVE  /\ pc' \in [Clients -> Locations] /\ cmd' \in [Clients -> Commands]
         /\ work' \in [Clients -> AllOps \ {"nudge"}] /\ failed' \in [Clients -> BOOLEAN]
         /\ prior' \in [Clients -> Positions]
         /\ outcome' \in [Ids -> {"none", "ok", "502", "500"}]
         /\ Arguments'
<1>1. 0 \in Positions
  BY ControlAssumption DEF Positions
<1>2. NoCommand \in Commands
  BY DEF NoCommand, Commands, AllOps, Switch
<1>3. /\ pc' \in [Clients -> Locations] /\ cmd' \in [Clients -> Commands]
      /\ work' \in [Clients -> AllOps \ {"nudge"}] /\ failed' \in [Clients -> BOOLEAN]
      /\ prior' \in [Clients -> Positions]
      /\ outcome' \in [Ids -> {"none", "ok", "502", "500"}]
  BY <1>1, <1>2 DEF TypeOK, Ends, Goto, Locations, AllOps
<1>4. Arguments'
  BY <1>3 DEF TypeOK, Arguments, Ends, MotionWork
<1> QED
  BY <1>3, <1>4

LEMMA RequestType ==
  ASSUME TypeOK, Arguments, NEW c \in Clients, Request(c)
  PROVE  TypeOK' /\ Arguments'
<1>1. PICK op \in Ops : \E argument \in ArgumentsOf(op) :
        /\ cmd' = [cmd EXCEPT ![c] = [id |-> next, op |-> op, target |-> argument]]
        /\ work' = [work EXCEPT ![c] = FirstWork(op)]
  BY DEF Request
<1>2. PICK argument \in ArgumentsOf(op) :
        /\ cmd' = [cmd EXCEPT ![c] = [id |-> next, op |-> op, target |-> argument]]
        /\ work' = [work EXCEPT ![c] = FirstWork(op)]
  BY <1>1
<1>3. op \in AllOps /\ MaxCommands \in Nat /\ 0 \in Positions
  BY ControlAssumption DEF Positions
<1>4. argument \in Positions \cup Deltas \cup Switch
  BY <1>2, <1>3 DEF ArgumentsOf, Switch
<1>5. next \in Ids /\ next' = next + 1 /\ next' \in 1..(MaxCommands + 1)
  BY <1>3 DEF TypeOK, Request, Ids
<1>6. cmd' \in [Clients -> Commands]
  BY <1>2, <1>3, <1>4, <1>5 DEF TypeOK, Commands
<1>7. FirstWork(op) \in AllOps \ {"nudge"}
  BY <1>3 DEF FirstWork, AllOps
<1>8. TypeOK'
  BY <1>2, <1>5, <1>6, <1>7 DEF TypeOK, Request, Goto, Locations
<1>9. Arguments'
  BY <1>2, <1>3, <1>8 DEF TypeOK, Arguments, FirstWork, ArgumentsOf, MotionWork
<1> QED
  BY <1>8, <1>9

\* The steps of a transaction that the mount does not obey.
LEMMA TransactionType ==
  ASSUME TypeOK, Arguments, NEW c \in Clients, Transaction(c)
  PROVE  TypeOK' /\ Arguments'
<1>1. CASE Connect(c) \/ ConnectFails(c)
  BY <1>1 DEF TypeOK, Arguments, Connect, ConnectFails, Raise, Goto, Meets, Locations
<1>2. CASE Connected(c) \/ NotConnected(c) \/ CallFails(c) \/ Refused(c)
           \/ Settled(c) \/ SettleTimesOut(c) \/ BlockingSlewReturns(c)
  BY <1>2 DEF TypeOK, Arguments, Connected, NotConnected, CallFails, Refused, Settled,
     SettleTimesOut, BlockingSlewReturns, Raise, Goto, Locations
<1>3. CASE Read(c)
  BY <1>3 DEF TypeOK, Arguments, Read, Goto, Locations
<1>4. ASSUME NEW location \in {"settle", "blocked", "close"}, Obeyed(c, location)
      PROVE  /\ moves' \in Seq(Commands)
             /\ pc' \in [Clients -> Locations] /\ failed' \in [Clients -> BOOLEAN]
             /\ UNCHANGED <<cmd, work, prior, events, audits, outcome, overlapped, leftOpen,
                            counts>>
  <2>1. cmd[c] \in Commands /\ moves \in Seq(Commands)
    BY DEF TypeOK
  <2>2. moves' \in Seq(Commands)
    BY <1>4, <2>1 DEF Obeyed
  <2>3. pc' \in [Clients -> Locations] /\ failed' \in [Clients -> BOOLEAN]
    BY <1>4 DEF TypeOK, Obeyed, Raise, Goto, Locations
  <2> QED
    BY <1>4, <2>2, <2>3 DEF Obeyed
<1>5. CASE StartSlew(c)
  <2>1. AfterSlewCall \in {"settle", "blocked", "close"}
    BY DEF AfterSlewCall
  <2>2. cmd[c].target \in Positions
    BY <1>5 DEF Arguments, StartSlew, Working
  <2> QED
    BY <1>4, <1>5, <2>1, <2>2 DEF TypeOK, Arguments, StartSlew
<1>6. CASE Sync(c)
  <2>1. cmd[c].target \in Positions
    BY <1>6 DEF Arguments, Sync, Working
  <2> QED
    BY <1>4, <1>6, <2>1 DEF TypeOK, Arguments, Sync
<1>7. CASE SetTracking(c)
  <2>1. cmd[c].target \in Switch
    BY <1>7 DEF Arguments, SetTracking, Working
  <2> QED
    BY <1>4, <1>7, <2>1 DEF TypeOK, Arguments, SetTracking
<1> QED
  BY <1>1, <1>2, <1>3, <1>5, <1>6, <1>7 DEF Transaction

LEMMA HandlerType ==
  ASSUME TypeOK, Arguments, NEW c \in Clients, Handler(c)
  PROVE  TypeOK' /\ Arguments'
<1>1. CASE CloseFailed(c)
  <2>1. PICK code \in {"ok", "502"} : Ends(c, code)
    BY <1>1 DEF CloseFailed
  <2> QED
    BY <1>1, <2>1, EndsType, DisconnectType DEF TypeOK, CloseFailed
<1>2. CASE CloseRead(c)
  BY <1>2, EndsType, DisconnectType DEF TypeOK, CloseRead
<1>3. CASE CloseNudgeRead(c)
  <2>0. cmd[c] \in Commands
    BY DEF TypeOK
  <2>1. cmd[c].target \in Int
    <3>1. cmd[c].target \in Positions \cup Deltas \cup Switch
      BY <2>0 DEF Commands
    <3>2. \A x \in Positions \cup Switch : x \in Int
      BY ControlAssumption DEF Positions, Switch
    <3>3. \A x \in Deltas : x \in Int
      BY ControlAssumption
    <3> QED
      BY <3>1, <3>2, <3>3, Zenon
  <2>2. Nudged(prior[c], cmd[c].target) \in Positions
    BY <2>1, NudgedType DEF TypeOK
  <2>3. cmd' = [cmd EXCEPT ![c] = [cmd[c] EXCEPT !.target = Nudged(prior[c], cmd[c].target)]]
    BY <1>3 DEF CloseNudgeRead
  <2>4. cmd' \in [Clients -> Commands]
    <3>1. [cmd[c] EXCEPT !.target = Nudged(prior[c], cmd[c].target)] \in Commands
      BY <2>0, <2>2 DEF Commands
    <3> QED
      BY <2>3, <3>1 DEF TypeOK
  <2>5. TypeOK'
    BY <1>3, <2>4, DisconnectType DEF TypeOK, CloseNudgeRead, Goto, Locations, AllOps
  <2>6. cmd'[c].target \in Positions /\ cmd'[c].op = "nudge" /\ work'[c] = "slew"
    BY <1>3, <2>2, <2>3 DEF TypeOK, Commands, CloseNudgeRead
  <2>7. \A d \in Clients \ {c} : cmd'[d] = cmd[d] /\ work'[d] = work[d]
    BY <1>3, <2>3 DEF TypeOK, CloseNudgeRead
  <2>8. Arguments'
    BY <2>6, <2>7 DEF Arguments
  <2> QED
    BY <2>5, <2>8
<1>4. CASE CloseMoved(c)
  BY <1>4, DisconnectType DEF TypeOK, Arguments, CloseMoved, Goto, Locations
<1>5. CASE Publish(c)
  BY <1>5 DEF TypeOK, Arguments, Publish, Goto, Locations
<1>6. CASE PublishFails(c)
  BY <1>6, EndsType DEF TypeOK, PublishFails
<1>7. CASE Audit(c)
  <2>1. cmd[c] \in Commands /\ audits \in Seq(Commands)
    BY DEF TypeOK
  <2>2. audits' \in Seq(Commands)
    BY <1>7, <2>1 DEF Audit
  <2> QED
    BY <1>7, <2>2, EndsType DEF TypeOK, Audit
<1>8. CASE AuditFails(c)
  <2>1. cmd[c] \in Commands /\ audits \in Seq(Commands)
    BY DEF TypeOK
  <2>2. audits' \in Seq(Commands)
    BY <1>8, <2>1 DEF AuditFails
  <2> QED
    BY <1>8, <2>2, EndsType DEF TypeOK, AuditFails
<1> QED
  BY <1>1, <1>2, <1>3, <1>4, <1>5, <1>6, <1>7, <1>8 DEF Handler

LEMMA NextType == TypeOK /\ Arguments /\ [Next]_vars => TypeOK' /\ Arguments'
<1> SUFFICES ASSUME TypeOK, Arguments, [Next]_vars PROVE TypeOK' /\ Arguments'
  OBVIOUS
<1>1. CASE MountArrives
  BY <1>1 DEF TypeOK, Arguments, MountArrives
<1>2. CASE Kill
  <2>1. 0 \in Positions /\ NoCommand \in Commands /\ MaxKills \in Nat
    BY ControlAssumption DEF Positions, NoCommand, Commands, AllOps, Switch
  <2>2. TypeOK'
    BY <1>2, <2>1 DEF TypeOK, Kill, Locations, AllOps
  <2>3. Arguments'
    BY <1>2 DEF Arguments, Kill, MotionWork
  <2> QED
    BY <2>2, <2>3
<1>3. CASE UNCHANGED vars
  BY <1>3 DEF TypeOK, Arguments, vars
<1> QED
  BY <1>1, <1>2, <1>3, RequestType, TransactionType, HandlerType DEF Next, Quiet

LEMMA TypesCorrect == Spec => [](TypeOK /\ Arguments)
BY InitType, NextType, PTL DEF Spec

\* Whatever overlaps and fails, every position, switch and log keeps its type: in
\* particular no nudge and no command drives the mount off the circle.
THEOREM TypeCorrect == Spec => []TypeOK
BY TypesCorrect, PTL

-----------------------------------------------------------------------------
(* The connection.  A step keeps a request outside its transaction, opens the  *)
(* transaction, leaves it open, or closes it.                                  *)

LEMMA ConnectionInit == Init => ConnectionInv
BY DEF Init, ConnectionInv, Meeting, SoloKeepsConnection, DisconnectedWhenQuiet, Open

LEMMA OutsideStep ==
  ASSUME TypeOK, ConnectionInv, NEW c \in Clients, NEW location \in Locations \ Open,
         pc[c] \notin Open, Goto(c, location),
         UNCHANGED <<mount, overlapped, leftOpen>>
  PROVE  ConnectionInv'
BY DEF TypeOK, ConnectionInv, Goto, Meeting, SoloKeepsConnection, DisconnectedWhenQuiet

LEMMA OpeningStep ==
  ASSUME TypeOK, ConnectionInv, NEW c \in Clients, NEW location \in {"check", "close"},
         pc[c] = "connect", Goto(c, location), Meets(c), UNCHANGED leftOpen,
         mount'.connected \/ (location = "close" /\ mount' = mount)
  PROVE  ConnectionInv'
<1>1. /\ pc'[c] = location /\ \A d \in Clients \ {c} : pc'[d] = pc[d]
      /\ location \in Open /\ pc[c] \notin Open
  BY DEF TypeOK, Goto, Open
<1>2. overlapped \subseteq overlapped'
      /\ \A d \in Clients \ {c} : pc[d] \in Open => c \in overlapped' /\ d \in overlapped'
  BY DEF Meets
<1>3. Meeting'
  BY <1>1, <1>2 DEF ConnectionInv, Meeting
<1>4. SoloKeepsConnection'
  BY <1>1, <1>2 DEF ConnectionInv, SoloKeepsConnection
<1>5. DisconnectedWhenQuiet'
  BY <1>1 DEF DisconnectedWhenQuiet
<1> QED
  BY <1>3, <1>4, <1>5 DEF ConnectionInv

LEMMA OpenStep ==
  ASSUME TypeOK, ConnectionInv, NEW c \in Clients, NEW location \in Open,
         pc[c] \in Open \ {"close"}, Goto(c, location),
         mount'.connected = mount.connected, UNCHANGED <<overlapped, leftOpen>>
  PROVE  ConnectionInv'
BY DEF TypeOK, ConnectionInv, Goto, Meeting, SoloKeepsConnection, DisconnectedWhenQuiet

LEMMA ClosingStep ==
  ASSUME TypeOK, ConnectionInv, NEW c \in Clients, NEW location \in Locations \ Open,
         pc[c] = "close", Goto(c, location), Disconnect(c)
  PROVE  ConnectionInv'
<1>1. /\ pc'[c] = location /\ \A d \in Clients \ {c} : pc'[d] = pc[d]
      /\ pc[c] \in Open /\ overlapped' = overlapped \ {c}
  BY DEF TypeOK, Goto, Open, Disconnect
<1>3. Meeting'
  BY <1>1 DEF ConnectionInv, Meeting
<1>4. \A d \in Clients \ {c} : pc'[d] \in Open => d \in overlapped'
  BY <1>1 DEF ConnectionInv, Meeting
<1>5. SoloKeepsConnection'
  BY <1>1, <1>4 DEF SoloKeepsConnection
<1>6. leftOpen' \/ mount'.connected = FALSE
  BY DEF TypeOK, Disconnect
<1>7. DisconnectedWhenQuiet'
  BY <1>6 DEF DisconnectedWhenQuiet
<1> QED
  BY <1>3, <1>5, <1>7 DEF ConnectionInv

LEMMA ConnectionNext == TypeOK /\ ConnectionInv /\ [Next]_vars => ConnectionInv'
<1> SUFFICES ASSUME TypeOK, ConnectionInv, [Next]_vars PROVE ConnectionInv'
  OBVIOUS
<1>1. ASSUME NEW c \in Clients, Request(c) PROVE ConnectionInv'
  BY <1>1, OutsideStep DEF Request, Locations, Open
<1>2. ASSUME NEW c \in Clients, Transaction(c) PROVE ConnectionInv'
  <2>1. CASE Connect(c) \/ ConnectFails(c)
    BY <2>1, OpeningStep DEF TypeOK, Connect, ConnectFails, Raise
  <2>2. CASE Connected(c) \/ NotConnected(c) \/ CallFails(c) \/ Refused(c) \/ Read(c)
             \/ Settled(c) \/ SettleTimesOut(c) \/ BlockingSlewReturns(c)
    <3>1. PICK location \in {"work", "close"} : Goto(c, location)
      BY <2>2 DEF Connected, NotConnected, CallFails, Refused, Read, Settled,
         SettleTimesOut, BlockingSlewReturns, Raise
    <3>2. pc[c] \in Open \ {"close"} /\ UNCHANGED <<mount, overlapped, leftOpen>>
      BY <2>2 DEF Connected, NotConnected, CallFails, Refused, Read, Settled,
         SettleTimesOut, BlockingSlewReturns, Working, Open
    <3> QED
      BY <3>1, <3>2, OpenStep DEF Open
  <2>3. CASE StartSlew(c) \/ Sync(c) \/ SetTracking(c)
    <3>1. PICK location \in {"settle", "blocked", "close"} : Obeyed(c, location)
      BY <2>3 DEF StartSlew, Sync, SetTracking, AfterSlewCall
    <3>2. PICK there \in {"settle", "blocked", "close"} : Goto(c, there)
      BY <3>1 DEF Obeyed, Raise
    <3>3. pc[c] \in Open \ {"close"} /\ mount'.connected = mount.connected
      BY <2>3 DEF TypeOK, StartSlew, Sync, SetTracking, Working, Open
    <3> QED
      BY <3>1, <3>2, <3>3, OpenStep DEF Obeyed, Open
  <2> QED
    BY <1>2, <2>1, <2>2, <2>3 DEF Transaction
<1>3. ASSUME NEW c \in Clients, Handler(c) PROVE ConnectionInv'
  <2>1. CASE CloseFailed(c) \/ CloseRead(c) \/ CloseNudgeRead(c) \/ CloseMoved(c)
    <3>1. PICK location \in {"idle", "connect", "publish"} : Goto(c, location)
      BY <2>1 DEF CloseFailed, CloseRead, CloseNudgeRead, CloseMoved, Ends
    <3>2. pc[c] = "close" /\ Disconnect(c)
      BY <2>1 DEF CloseFailed, CloseRead, CloseNudgeRead, CloseMoved
    <3> QED
      BY <3>1, <3>2, ClosingStep DEF Locations, Open
  <2>2. CASE Publish(c) \/ PublishFails(c) \/ Audit(c) \/ AuditFails(c)
    <3>1. PICK location \in {"idle", "audit"} : Goto(c, location)
      BY <2>2 DEF Publish, PublishFails, Audit, AuditFails, Ends
    <3>2. pc[c] \notin Open /\ UNCHANGED <<mount, overlapped, leftOpen>>
      BY <2>2 DEF Publish, PublishFails, Audit, AuditFails, Open
    <3> QED
      BY <3>1, <3>2, OutsideStep DEF Locations, Open
  <2> QED
    BY <1>3, <2>1, <2>2 DEF Handler
<1>4. CASE MountArrives
  BY <1>4 DEF TypeOK, ConnectionInv, MountArrives, Meeting, SoloKeepsConnection,
     DisconnectedWhenQuiet
<1>5. CASE Kill
  BY <1>5 DEF ConnectionInv, Kill, Meeting, SoloKeepsConnection, DisconnectedWhenQuiet, Open
<1>6. CASE UNCHANGED vars
  BY <1>6 DEF ConnectionInv, vars, Meeting, SoloKeepsConnection, DisconnectedWhenQuiet
<1> QED
  BY <1>1, <1>2, <1>3, <1>4, <1>5, <1>6 DEF Next, Quiet

LEMMA ConnectionHolds == Spec => []ConnectionInv
<1>1. TypeOK /\ Arguments /\ ConnectionInv /\ [Next]_vars => ConnectionInv'
  BY ConnectionNext
<1> QED
  BY <1>1, TypesCorrect, ConnectionInit, PTL DEF Spec

\* The finally block of each transaction disconnects for all of them, and still
\* only a transaction that another one met can lose its connection.
THEOREM SoloConnection == Spec => []SoloKeepsConnection
BY ConnectionHolds, PTL DEF ConnectionInv

\* However overlapping transactions end, the last one leaves the mount disconnected.
THEOREM QuietDisconnected == Spec => []DisconnectedWhenQuiet
BY ConnectionHolds, PTL DEF ConnectionInv

-----------------------------------------------------------------------------
(* The records.  A step begins a request, changes no log, appends the request's *)
(* command to one log, or ends the request, perhaps with its audit record.      *)

\* A log before a step and after it, when it may take one command.
LEMMA LogGrows ==
  ASSUME NEW s \in Seq(Commands), NEW x \in Commands, NEW t \in {s, Append(s, x)}
  PROVE  /\ IdsIn(s) \subseteq IdsIn(t) /\ IdsIn(t) \subseteq IdsIn(s) \cup {x.id}
         /\ \A y : Occurs(y, s) => Occurs(y, t)
<1>1. CASE t = s
  BY <1>1
<1>2. CASE t = Append(s, x)
  BY <1>2, LogAppend
<1> QED
  BY <1>1, <1>2

LEMMA RecordInit == Init => RecordInv
<1> SUFFICES ASSUME Init PROVE RecordInv
  OBVIOUS
<1>1. Requests
  BY DEF Init, Requests
<1>2. IdsIn(moves) = {} /\ IdsIn(events) = {} /\ IdsIn(audits) = {} /\ Logs
  BY EmptyLog DEF Init, Logs
<1>3. Logged /\ Acknowledged
  BY <1>2 DEF Logged, Acknowledged
<1>4. Progress
  BY DEF Init, Progress, ProgressOf
<1> QED
  BY <1>1, <1>2, <1>3, <1>4 DEF RecordInv

\* A step of one request leaves the others where they are.
Others(c) ==
  \A d \in Clients \ {c} :
    pc'[d] = pc[d] /\ cmd'[d] = cmd[d] /\ work'[d] = work[d] /\ failed'[d] = failed[d]

\* A step of a request that goes on.
GoesOn(c) ==
  /\ pc[c] # "idle" /\ pc'[c] # "idle" /\ cmd'[c].id = cmd[c].id
  /\ Others(c) /\ UNCHANGED <<outcome, next>>

LEMMA GoingOn ==
  ASSUME Requests, NEW c \in Clients, GoesOn(c)
  PROVE  Requests'
BY DEF Requests, GoesOn, Others

LEMMA Bystander ==
  ASSUME TypeOK, Requests, Progress, NEW c \in Clients, NEW d \in Clients \ {c},
         pc[c] # "idle", Others(c),
         moves' \in {moves, Append(moves, cmd[c])},
         events' \in {events, Append(events, cmd[c])},
         audits' \in {audits, Append(audits, cmd[c])}
  PROVE  ProgressOf(d)'
<1>1. cmd[c] \in Commands
      /\ moves \in Seq(Commands) /\ events \in Seq(Commands) /\ audits \in Seq(Commands)
  BY DEF TypeOK
<1>2. /\ pc'[d] = pc[d] /\ cmd'[d] = cmd[d] /\ work'[d] = work[d] /\ failed'[d] = failed[d]
      /\ ProgressOf(d)
      /\ pc[d] # "idle" => cmd[d].id # cmd[c].id
  BY DEF Others, Progress, Requests
<1>3. /\ IdsIn(moves') \subseteq IdsIn(moves) \cup {cmd[c].id}
      /\ \A y : Occurs(y, moves) => Occurs(y, moves')
  BY <1>1, LogGrows
<1>4. /\ IdsIn(events') \subseteq IdsIn(events) \cup {cmd[c].id}
      /\ \A y : Occurs(y, events) => Occurs(y, events')
  BY <1>1, LogGrows
<1>5. IdsIn(audits') \subseteq IdsIn(audits) \cup {cmd[c].id}
  BY <1>1, LogGrows
<1>6. IdsIn(moves)' = IdsIn(moves') /\ IdsIn(events)' = IdsIn(events')
      /\ IdsIn(audits)' = IdsIn(audits')
  OBVIOUS
<1> QED
  BY <1>2, <1>3, <1>4, <1>5, <1>6 DEF ProgressOf

LEMMA RequestRecord ==
  ASSUME TypeOK, RecordInv, NEW c \in Clients, Request(c)
  PROVE  RecordInv'
<1>1. PICK op \in Ops : \E argument \in ArgumentsOf(op) :
        cmd' = [cmd EXCEPT ![c] = [id |-> next, op |-> op, target |-> argument]]
  BY DEF Request
<1>2. /\ cmd'[c].id = next /\ next' = next + 1 /\ next \in Ids /\ next \in Int
      /\ pc'[c] = "connect" /\ pc[c] = "idle" /\ ~failed'[c]
      /\ \A d \in Clients \ {c} : pc'[d] = pc[d] /\ cmd'[d] = cmd[d] /\ work'[d] = work[d]
                                                     /\ failed'[d] = failed[d]
      /\ UNCHANGED <<moves, events, audits, outcome>>
  BY <1>1, ControlAssumption DEF TypeOK, RecordInv, Requests, Request, Goto, Ids
<1>3. Requests'
  <2>1. \A d \in Clients \ {c} : pc[d] # "idle" => cmd[d].id < next /\ cmd[d].id \in Int
    BY ControlAssumption DEF RecordInv, Requests, Ids
  <2>2. outcome[next] = "none"
    BY <1>2 DEF RecordInv, Requests
  <2>3. \A d \in Clients :
          pc'[d] = "idle" => cmd'[d] = NoCommand /\ work'[d] = "read" /\ ~failed'[d]
    BY <1>2 DEF RecordInv, Requests
  <2>4. \A d \in Clients :
          pc'[d] # "idle" =>
            cmd'[d].id \in Ids /\ cmd'[d].id < next' /\ outcome'[cmd'[d].id] = "none"
    BY <1>2, <2>1, <2>2 DEF RecordInv, Requests
  <2>5. \A d, e \in Clients :
          pc'[d] # "idle" /\ pc'[e] # "idle" /\ cmd'[d].id = cmd'[e].id => d = e
    BY <1>2, <2>1 DEF RecordInv, Requests
  <2>6. \A id \in Ids : id >= next' => outcome'[id] = "none"
    BY <1>2, ControlAssumption DEF RecordInv, Requests, Ids
  <2> QED
    BY <2>3, <2>4, <2>5, <2>6 DEF Requests
<1>4. \A id \in IdsIn(moves) \cup IdsIn(events) \cup IdsIn(audits) :
        id \in Int /\ id \in Ids /\ id < next
  BY ControlAssumption DEF RecordInv, Logged, Ids
<1>5. Logged'
  BY <1>2, <1>4 DEF Logged
<1>6. ProgressOf(c)'
  BY <1>2, <1>4 DEF ProgressOf
<1>7. ASSUME NEW d \in Clients \ {c} PROVE ProgressOf(d)'
  BY <1>2 DEF RecordInv, Progress, ProgressOf
<1>8. Logs' /\ Acknowledged'
  BY <1>2 DEF RecordInv, Logs, Acknowledged
<1> QED
  BY <1>3, <1>5, <1>6, <1>7, <1>8 DEF RecordInv, Progress

\* A step that changes no log.
LEMMA SilentRecord ==
  ASSUME TypeOK, RecordInv, NEW c \in Clients, GoesOn(c),
         UNCHANGED <<moves, events, audits>>, ProgressOf(c)'
  PROVE  RecordInv'
<1>1. Requests'
  BY GoingOn DEF RecordInv
<1>2. ASSUME NEW d \in Clients \ {c} PROVE ProgressOf(d)'
  BY Bystander DEF RecordInv, GoesOn
<1>3. Logged' /\ Logs' /\ Acknowledged'
  BY DEF RecordInv, Logged, Logs, Acknowledged, GoesOn
<1> QED
  BY <1>1, <1>2, <1>3 DEF RecordInv, Progress

\* The mount obeys.
LEMMA ObeyedRecord ==
  ASSUME TypeOK, RecordInv, NEW c \in Clients,
         NEW location \in {"settle", "blocked", "close"},
         pc[c] = "work", work[c] \in MotionWork, Obeyed(c, location)
  PROVE  RecordInv' /\ IdsIn(moves') = IdsIn(moves) \cup {cmd[c].id}
<1>1. cmd[c] \in Commands /\ moves \in Seq(Commands) /\ events \in Seq(Commands)
  BY DEF TypeOK
<1>2. /\ moves' = Append(moves, cmd[c]) /\ UNCHANGED <<cmd, work, events, audits>>
      /\ pc'[c] \in {"settle", "blocked", "close"} /\ GoesOn(c)
      /\ pc'[c] # "close" => ~failed'[c]
  BY DEF TypeOK, RecordInv, Progress, ProgressOf, Obeyed, Raise, Goto, GoesOn, Others
<1>3. /\ cmd[c].id \notin IdsIn(moves) /\ cmd[c].id \notin IdsIn(events)
      /\ cmd[c].id \notin IdsIn(audits) /\ outcome[cmd[c].id] = "none" /\ cmd[c].id < next
      /\ cmd[c].id \in Ids
  BY DEF RecordInv, Progress, ProgressOf, Requests
<1>4. /\ IdsIn(moves') = IdsIn(moves) \cup {cmd[c].id} /\ Once(moves')
      /\ Occurs(cmd[c], moves')
  BY <1>1, <1>2, <1>3, LogAppend DEF RecordInv, Logs
<1>5. Requests'
  BY <1>2, GoingOn DEF RecordInv
<1>6. Logged'
  BY <1>2, <1>3, <1>4 DEF RecordInv, Logged, GoesOn
<1>7. ProgressOf(c)'
  BY <1>2, <1>3, <1>4 DEF ProgressOf
<1>8. ASSUME NEW d \in Clients \ {c} PROVE ProgressOf(d)'
  BY <1>2, Bystander DEF RecordInv, GoesOn
<1>9. Logs'
  BY <1>1, <1>2, <1>4, WithinAppend DEF RecordInv, Logs
<1>10. Acknowledged'
  BY <1>2, <1>3, <1>4 DEF RecordInv, Acknowledged, GoesOn
<1> QED
  BY <1>4, <1>5, <1>6, <1>7, <1>8, <1>9, <1>10 DEF RecordInv, Progress

LEMMA PublishRecord ==
  ASSUME TypeOK, RecordInv, NEW c \in Clients, Publish(c)
  PROVE  RecordInv' /\ IdsIn(events') = IdsIn(events) \cup {cmd[c].id}
<1>1. cmd[c] \in Commands /\ moves \in Seq(Commands) /\ events \in Seq(Commands)
      /\ audits \in Seq(Commands)
  BY DEF TypeOK
<1>2. /\ events' = Append(events, cmd[c]) /\ UNCHANGED <<cmd, work, failed, moves, audits>>
      /\ pc[c] = "publish" /\ pc'[c] = "audit" /\ GoesOn(c)
  BY DEF TypeOK, Publish, Goto, GoesOn, Others
<1>3. /\ Occurs(cmd[c], moves) /\ cmd[c].id \notin IdsIn(events)
      /\ cmd[c].id \notin IdsIn(audits) /\ cmd[c].id < next /\ cmd[c].id \in Ids
      /\ work[c] \notin MotionWork => cmd[c].id \notin IdsIn(moves)
  BY <1>2 DEF RecordInv, Progress, ProgressOf, Requests
<1>4. /\ IdsIn(events') = IdsIn(events) \cup {cmd[c].id} /\ Once(events')
      /\ Occurs(cmd[c], events')
  BY <1>1, <1>2, <1>3, LogAppend DEF RecordInv, Logs
<1>5. Requests'
  BY <1>2, GoingOn DEF RecordInv
<1>6. Logged'
  BY <1>2, <1>3, <1>4 DEF RecordInv, Logged, GoesOn
<1>7. ProgressOf(c)'
  BY <1>2, <1>3, <1>4 DEF RecordInv, Progress, ProgressOf
<1>8. ASSUME NEW d \in Clients \ {c} PROVE ProgressOf(d)'
  BY <1>2, Bystander DEF RecordInv, GoesOn
<1>9. Logs'
  BY <1>1, <1>2, <1>3, <1>4, WithinAppend DEF RecordInv, Logs
<1>10. Acknowledged'
  BY <1>2 DEF RecordInv, Acknowledged, GoesOn
<1> QED
  BY <1>4, <1>5, <1>6, <1>7, <1>8, <1>9, <1>10 DEF RecordInv, Progress

\* The end of a request.
LEMMA EndsRecord ==
  ASSUME TypeOK, RecordInv, NEW c \in Clients, NEW code \in {"ok", "502", "500"},
         pc[c] # "idle", Ends(c, code), UNCHANGED <<moves, events, next>>,
         \/ UNCHANGED audits
         \/ pc[c] = "audit" /\ audits' = Append(audits, cmd[c]),
         code = "ok" /\ cmd[c].id \in IdsIn(moves) => cmd[c].id \in IdsIn(audits')
  PROVE  RecordInv'
<1>1. cmd[c] \in Commands /\ events \in Seq(Commands) /\ audits \in Seq(Commands)
  BY DEF TypeOK
<1>2. /\ cmd[c].id \in Ids /\ cmd[c].id < next /\ next \in Int /\ cmd[c].id \in Int
      /\ outcome'[cmd[c].id] = code
      /\ \A id \in Ids \ {cmd[c].id} : outcome'[id] = outcome[id]
  BY ControlAssumption DEF TypeOK, RecordInv, Requests, Ends, Ids
<1>3. /\ pc'[c] = "idle" /\ cmd'[c] = NoCommand /\ work'[c] = "read" /\ ~failed'[c]
      /\ Others(c)
  BY DEF TypeOK, Ends, Goto, Others
<1>4. Requests'
  BY <1>2, <1>3 DEF RecordInv, Requests, Others
<1>5. /\ IdsIn(audits) \subseteq IdsIn(audits')
      /\ IdsIn(audits') \subseteq IdsIn(audits) \cup {cmd[c].id}
  BY <1>1, LogGrows
<1>6. Logged'
  BY <1>2, <1>5 DEF RecordInv, Logged
<1>7. ASSUME NEW d \in Clients \ {c} PROVE ProgressOf(d)'
  BY <1>3, Bystander DEF RecordInv
<1>8. ProgressOf(c)'
  BY <1>3 DEF ProgressOf
<1>9. Logs'
  <2>1. CASE UNCHANGED audits
    BY <2>1 DEF RecordInv, Logs
  <2>2. CASE pc[c] = "audit" /\ audits' = Append(audits, cmd[c])
    <3>1. Occurs(cmd[c], events) /\ cmd[c].id \notin IdsIn(audits)
      BY <2>2 DEF RecordInv, Progress, ProgressOf
    <3> QED
      BY <1>1, <2>2, <3>1, LogAppend, WithinAppend DEF RecordInv, Logs
  <2> QED
    BY <2>1, <2>2
<1>10. Acknowledged'
  BY <1>2, <1>5 DEF RecordInv, Logged, Acknowledged
<1> QED
  BY <1>4, <1>6, <1>7, <1>8, <1>9, <1>10 DEF RecordInv, Progress

-----------------------------------------------------------------------------
(* The ledger.  Each step of a request is one step of CommandLedger, or none.  *)

\* What a step does to the invariant and to the ledger.
Steps == RecordInv' /\ [Ledger!Next]_Ledger!vars

\* A step that no log and no client notices.
LEMMA Unnoticed ==
  ASSUME UNCHANGED <<moves, events, audits, outcome>>
  PROVE  [Ledger!Next]_Ledger!vars
BY DEF Ledger!vars, IdsIn, Verdict

\* The verdict of the ledger when a request ends.
LEMMA Concluded ==
  ASSUME TypeOK, RecordInv, NEW c \in Clients, NEW code \in {"ok", "502", "500"},
         pc[c] # "idle", Ends(c, code), UNCHANGED <<moves, events>>,
         \/ UNCHANGED audits
         \/ pc[c] = "audit" /\ audits' = Append(audits, cmd[c]),
         code = "ok" /\ cmd[c].id \in IdsIn(moves) => cmd[c].id \in IdsIn(audits')
  PROVE  [Ledger!Next]_Ledger!vars
<1> DEFINE id == cmd[c].id
           answer == Verdict(code)
<1>1. /\ id \in Ids /\ outcome[id] = "none" /\ answer \in {"ok", "error"}
      /\ outcome' = [outcome EXCEPT ![id] = code]
      /\ answer = "ok" <=> code = "ok"
  BY DEF RecordInv, Requests, Ends, Verdict
<1>2. [i \in Ids |-> Verdict(outcome[i])]'
        = [[i \in Ids |-> Verdict(outcome[i])] EXCEPT ![id] = answer]
  BY <1>1 DEF TypeOK
<1>3. [i \in Ids |-> Verdict(outcome[i])][id] = "none"
  BY <1>1 DEF Verdict
<1>4. \/ IdsIn(audits)' = IdsIn(audits)
      \/ /\ id \in IdsIn(events) \ IdsIn(audits)
         /\ IdsIn(audits)' = IdsIn(audits) \cup {id}
  <2>1. CASE UNCHANGED audits
    BY <2>1
  <2>2. CASE pc[c] = "audit" /\ audits' = Append(audits, cmd[c])
    <3>1. cmd[c] \in Commands /\ audits \in Seq(Commands)
      BY DEF TypeOK
    <3>2. Occurs(cmd[c], events) /\ cmd[c].id \notin IdsIn(audits)
      BY <2>2 DEF RecordInv, Progress, ProgressOf
    <3>3. IdsIn(audits') = IdsIn(audits) \cup {cmd[c].id}
      BY <2>2, <3>1, LogAppend
    <3> QED
      BY <3>2, <3>3, OccursId
  <2> QED
    BY <2>1, <2>2
<1>5. IdsIn(moves)' = IdsIn(moves) /\ IdsIn(events)' = IdsIn(events)
      /\ (answer = "ok" /\ id \in IdsIn(moves) => id \in IdsIn(audits)')
  BY <1>1
<1>6. Ledger!Conclude(id, answer)
  BY <1>2, <1>3, <1>4, <1>5 DEF Ledger!Conclude, Ledger!Pending
<1> QED
  BY <1>1, <1>6 DEF Ledger!Next

LEMMA TransactionSteps ==
  ASSUME TypeOK, RecordInv, NEW c \in Clients, Transaction(c)
  PROVE  Steps
<1>1. CASE \/ Connect(c) \/ ConnectFails(c) \/ Connected(c) \/ NotConnected(c) \/ CallFails(c)
           \/ Refused(c) \/ Read(c) \/ Settled(c) \/ SettleTimesOut(c) \/ BlockingSlewReturns(c)
  <2>1. /\ GoesOn(c) /\ UNCHANGED <<cmd, work, moves, events, audits, outcome>>
        /\ pc[c] # "audit" /\ pc'[c] \in {"check", "work", "close"}
    BY <1>1 DEF TypeOK, GoesOn, Others, Connect, ConnectFails, Connected, NotConnected, CallFails,
       Refused, Read, Settled, SettleTimesOut, BlockingSlewReturns, Working, Raise, Goto
  <2>2. /\ pc'[c] # "close" => ~failed'[c] /\ pc[c] \in {"connect", "check"}
        /\ pc'[c] = "close" /\ ~failed'[c] /\ work[c] \in MotionWork =>
             pc[c] \in {"settle", "blocked"}
    BY <1>1 DEF TypeOK, RecordInv, Progress, ProgressOf, MotionWork, Connect, ConnectFails,
       Connected, NotConnected, CallFails, Refused, Read, Settled, SettleTimesOut,
       BlockingSlewReturns, Working, Raise, Goto
  <2>3. ProgressOf(c)'
    BY <2>1, <2>2 DEF RecordInv, Progress, ProgressOf, GoesOn
  <2> QED
    BY <2>1, <2>3, SilentRecord, Unnoticed DEF Steps
<1>2. CASE StartSlew(c) \/ Sync(c) \/ SetTracking(c)
  <2>1. PICK location \in {"settle", "blocked", "close"} : Obeyed(c, location)
    BY <1>2 DEF StartSlew, Sync, SetTracking, AfterSlewCall
  <2>2. pc[c] = "work" /\ work[c] \in MotionWork
    BY <1>2 DEF StartSlew, Sync, SetTracking, Working, MotionWork
  <2>3. RecordInv' /\ IdsIn(moves') = IdsIn(moves) \cup {cmd[c].id}
    BY <2>1, <2>2, ObeyedRecord
  <2>4. cmd[c].id \in Ids /\ outcome[cmd[c].id] = "none" /\ cmd[c].id \notin IdsIn(moves)
    BY <2>2 DEF RecordInv, Requests, Progress, ProgressOf
  <2>5. UNCHANGED <<events, audits, outcome>>
    BY <2>1 DEF Obeyed
  <2>6. Ledger!Move(cmd[c].id)
    BY <2>3, <2>4, <2>5 DEF Ledger!Move, Ledger!Pending, Verdict, IdsIn
  <2> QED
    BY <2>3, <2>4, <2>6 DEF Steps, Ledger!Next
<1> QED
  BY <1>1, <1>2 DEF Transaction

LEMMA HandlerSteps ==
  ASSUME TypeOK, Arguments, RecordInv, NEW c \in Clients, Handler(c)
  PROVE  Steps
<1>1. CASE CloseFailed(c)
  <2>1. cmd[c].op = "status" => cmd[c].id \notin IdsIn(moves)
    BY <1>1 DEF Arguments, CloseFailed, RecordInv, Progress, ProgressOf
  <2>2. pc[c] # "idle" /\ UNCHANGED <<moves, events, audits, next>>
    BY <1>1 DEF CloseFailed
  <2>3. CASE cmd[c].op = "status"
    <3>1. Ends(c, "ok")
      BY <1>1, <2>3 DEF CloseFailed
    <3> QED
      BY <2>1, <2>2, <2>3, <3>1, EndsRecord, Concluded DEF Steps
  <2>4. CASE cmd[c].op # "status"
    <3>1. Ends(c, "502")
      BY <1>1, <2>4 DEF CloseFailed
    <3> QED
      BY <2>2, <3>1, EndsRecord, Concluded DEF Steps
  <2> QED
    BY <2>3, <2>4
<1>2. CASE CloseRead(c)
  <2>1. cmd[c].id \notin IdsIn(moves)
    BY <1>2 DEF Arguments, CloseRead, RecordInv, Progress, ProgressOf
  <2>2. pc[c] # "idle" /\ Ends(c, "ok") /\ UNCHANGED <<moves, events, audits, next>>
    BY <1>2 DEF CloseRead
  <2> QED
    BY <2>1, <2>2, EndsRecord, Concluded DEF Steps
<1>3. CASE CloseNudgeRead(c)
  <2>1. cmd[c] \in Commands
    BY DEF TypeOK
  <2>2. /\ GoesOn(c) /\ UNCHANGED <<moves, events, audits, outcome>>
        /\ pc[c] = "close" /\ ~failed[c] /\ work[c] = "read"
        /\ pc'[c] = "connect" /\ ~failed'[c]
    BY <1>3, <2>1 DEF TypeOK, Commands, CloseNudgeRead, Goto, GoesOn, Others
  <2>3. ProgressOf(c)'
    BY <2>2 DEF RecordInv, Progress, ProgressOf, GoesOn, MotionWork
  <2> QED
    BY <2>2, <2>3, SilentRecord, Unnoticed DEF Steps
<1>4. CASE CloseMoved(c)
  <2>1. /\ GoesOn(c) /\ UNCHANGED <<cmd, work, failed, moves, events, audits, outcome>>
        /\ pc[c] = "close" /\ ~failed[c] /\ work[c] \in MotionWork /\ pc'[c] = "publish"
    BY <1>4 DEF TypeOK, CloseMoved, Goto, GoesOn, Others, MotionWork
  <2>2. ProgressOf(c)'
    BY <2>1 DEF RecordInv, Progress, ProgressOf
  <2> QED
    BY <2>1, <2>2, SilentRecord, Unnoticed DEF Steps
<1>5. CASE Publish(c)
  <2>1. RecordInv' /\ IdsIn(events') = IdsIn(events) \cup {cmd[c].id}
    BY <1>5, PublishRecord
  <2>2. /\ cmd[c].id \in Ids /\ outcome[cmd[c].id] = "none"
        /\ cmd[c].id \in IdsIn(moves) /\ cmd[c].id \notin IdsIn(events)
    BY <1>5, OccursId DEF Publish, RecordInv, Requests, Progress, ProgressOf
  <2>3. UNCHANGED <<moves, audits, outcome>>
    BY <1>5 DEF Publish
  <2>4. Ledger!Publish(cmd[c].id)
    BY <2>1, <2>2, <2>3 DEF Ledger!Publish, Ledger!Pending, Verdict, IdsIn
  <2> QED
    BY <2>1, <2>2, <2>4 DEF Steps, Ledger!Next
<1>6. CASE PublishFails(c)
  <2>1. pc[c] # "idle" /\ Ends(c, "500") /\ UNCHANGED <<moves, events, audits, next>>
    BY <1>6 DEF PublishFails
  <2> QED
    BY <2>1, EndsRecord, Concluded DEF Steps
<1>7. CASE Audit(c)
  <2>1. cmd[c] \in Commands /\ audits \in Seq(Commands)
    BY DEF TypeOK
  <2>2. /\ pc[c] = "audit" /\ audits' = Append(audits, cmd[c])
        /\ Ends(c, "ok") /\ UNCHANGED <<moves, events, next>>
    BY <1>7 DEF Audit
  <2>3. cmd[c].id \in IdsIn(audits')
    BY <2>1, <2>2, LogAppend
  <2> QED
    BY <2>2, <2>3, EndsRecord, Concluded DEF Steps
<1>8. CASE AuditFails(c)
  <2>1. /\ pc[c] = "audit" /\ audits' \in {audits, Append(audits, cmd[c])}
        /\ Ends(c, "500") /\ UNCHANGED <<moves, events, next>>
    BY <1>8 DEF AuditFails
  <2> QED
    BY <2>1, EndsRecord, Concluded DEF Steps
<1> QED
  BY <1>1, <1>2, <1>3, <1>4, <1>5, <1>6, <1>7, <1>8 DEF Handler

LEMMA NextSteps == TypeOK /\ Arguments /\ RecordInv /\ [Next]_vars => Steps
<1> SUFFICES ASSUME TypeOK, Arguments, RecordInv, [Next]_vars PROVE Steps
  OBVIOUS
<1>1. ASSUME NEW c \in Clients, Request(c) PROVE Steps
  BY <1>1, RequestRecord, Unnoticed DEF Steps, Request
<1>2. CASE MountArrives \/ UNCHANGED vars
  <2>1. UNCHANGED <<pc, cmd, work, failed, moves, events, audits, outcome, next>>
    BY <1>2 DEF MountArrives, vars
  <2>2. Requests' /\ Logged' /\ Logs' /\ Acknowledged'
    BY <2>1 DEF RecordInv, Requests, Logged, Logs, Acknowledged
  <2>3. Progress'
    BY <2>1 DEF RecordInv, Progress, ProgressOf
  <2> QED
    BY <2>1, <2>2, <2>3, Unnoticed DEF Steps, RecordInv
<1>3. CASE Kill
  <2>1. /\ UNCHANGED <<moves, events, audits, outcome, next>>
        /\ \A c \in Clients : pc'[c] = "idle" /\ cmd'[c] = NoCommand /\ work'[c] = "read"
                                              /\ ~failed'[c]
    BY <1>3 DEF Kill
  <2>2. Requests' /\ Logged' /\ Logs' /\ Acknowledged' /\ Progress'
    BY <2>1 DEF RecordInv, Requests, Logged, Logs, Acknowledged, Progress, ProgressOf
  <2> QED
    BY <2>1, <2>2, Unnoticed DEF Steps, RecordInv
<1> QED
  BY <1>1, <1>2, <1>3, TransactionSteps, HandlerSteps DEF Next, Quiet

LEMMA RecordHolds == Spec => []RecordInv
<1>1. TypeOK /\ Arguments /\ RecordInv /\ [Next]_vars => RecordInv'
  BY NextSteps DEF Steps
<1> QED
  BY <1>1, TypesCorrect, RecordInit, PTL DEF Spec

\* Whatever overlaps, fails or is killed, each audit record has its event, each
\* event a command the mount obeyed, and no log holds a command twice.
THEOREM TrueRecords == Spec => []RecordsAreTrue
<1>1. RecordInv => RecordsAreTrue
  BY DEF RecordInv, Logs, Within, RecordsAreTrue
<1> QED
  BY <1>1, RecordHolds, PTL

\* No command that moved the mount is reported as a success without its record.
THEOREM AcknowledgedRecorded == Spec => []AcknowledgedIsRecorded
<1>1. RecordInv => AcknowledgedIsRecorded
  BY DEF RecordInv, Acknowledged, AcknowledgedIsRecorded, IdsIn, Recorded
<1> QED
  BY <1>1, RecordHolds, PTL

\* The handlers, the adapter and the mount implement CommandLedger: a command whose
\* client was told how it ended is never obeyed, published or recorded afterwards.
THEOREM LedgerKept == Spec => KeepsLedger
<1>1. Init => Ledger!Init
  BY EmptyLog DEF Init, Ledger!Init, Verdict
<1>2. TypeOK /\ Arguments /\ RecordInv /\ [Next]_vars => [Ledger!Next]_Ledger!vars
  BY NextSteps DEF Steps
<1> QED
  BY <1>1, <1>2, TypesCorrect, RecordHolds, PTL DEF Spec, KeepsLedger, Ledger!Spec

-----------------------------------------------------------------------------
(* Slews.  From its call to the mount to the end of its request, a slew knows where *)
(* the mount is heading, as long as no other motion was obeyed after it.            *)

\* It is on its way to the target, or stands there already.
Heading(c) ==
  pc[c] \in {"settle", "blocked"} =>
    mount.goal = cmd[c].target /\ (~mount.slewing => mount.pos = cmd[c].target)

\* The transaction did not raise: it has found Slewing false, or the call returned.
Arrived(c) ==
  pc[c] \in {"publish", "audit"} \/ (pc[c] = "close" /\ ~failed[c]) =>
    ~mount.slewing /\ mount.pos = cmd[c].target

Slewing(c) == work[c] = "slew" /\ MovedLast(cmd[c].id) => Heading(c) /\ Arrived(c)

\* Only commands that move the mount are sent to it as a slew or a sync.
MotionInv ==
  /\ \A c \in Clients : work[c] \in {"slew", "sync"} => IsMotion(cmd[c])
  /\ \A c \in Clients : Slewing(c)

LEMMA MoveAppended ==
  ASSUME moves \in Seq(Commands), NEW x \in Commands, moves' = Append(moves, x),
         NEW id, id # x.id, MovedLast(id)'
  PROVE  MovedLast(id) /\ ~IsMotion(x)
<1>1. /\ Len(moves) \in Nat /\ Len(moves') = Len(moves) + 1
      /\ \A i \in 1..Len(moves) : moves'[i] = moves[i]
      /\ moves'[Len(moves) + 1] = x
  OBVIOUS
<1>2. PICK i \in 1..Len(moves') :
        /\ moves'[i].id = id /\ IsMotion(moves'[i])
        /\ \A j \in (i + 1)..Len(moves') : ~IsMotion(moves'[j])
  BY DEF MovedLast, IsMotion
<1>3. i \in 1..Len(moves)
  BY <1>1, <1>2
<1>4. ~IsMotion(x)
  BY <1>1, <1>2, <1>3
<1>5. \A j \in (i + 1)..Len(moves) : ~IsMotion(moves[j])
  BY <1>1, <1>2, <1>3
<1> QED
  BY <1>1, <1>2, <1>3, <1>4, <1>5 DEF MovedLast

LEMMA MotionInit == Init => MotionInv
BY DEF Init, MotionInv, Slewing, Heading, Arrived, NoCommand, IsMotion

\* A request whose own step is none of the mount's business.
LEMMA MotionKept ==
  ASSUME TypeOK, MotionInv, NEW d \in Clients, moves' = moves,
         pc'[d] = pc[d], cmd'[d] = cmd[d], work'[d] = work[d], failed'[d] = failed[d],
         mount'.pos = mount.pos, mount'.goal = mount.goal, mount'.slewing = mount.slewing
  PROVE  Slewing(d)'
<1>1. MovedLast(cmd[d].id)' <=> MovedLast(cmd[d].id)
  BY DEF MovedLast
<1> QED
  BY <1>1 DEF MotionInv, Slewing, Heading, Arrived

\* A step that leaves the mount where it is and heads.
Still(c) ==
  /\ Others(c) /\ moves' = moves
  /\ mount'.pos = mount.pos /\ mount'.goal = mount.goal /\ mount'.slewing = mount.slewing

LEMMA MotionStill ==
  ASSUME TypeOK, MotionInv, NEW c \in Clients, Still(c), Slewing(c)',
         work'[c] \in {"slew", "sync"} => cmd'[c].op # "tracking"
  PROVE  MotionInv'
<1>1. ASSUME NEW d \in Clients \ {c} PROVE Slewing(d)'
  BY MotionKept DEF Still, Others
<1>2. \A d \in Clients \ {c} : cmd'[d] = cmd[d] /\ work'[d] = work[d]
  BY DEF Still, Others
<1> QED
  BY <1>1, <1>2 DEF MotionInv, IsMotion

\* The mount obeys c: for every other request its own motion is no longer the last,
\* unless it obeyed no motion.
LEMMA MotionObeyed ==
  ASSUME TypeOK, RecordInv, MotionInv, NEW c \in Clients, NEW location, Obeyed(c, location),
         pc[c] # "idle", Slewing(c)',
         IsMotion(cmd[c]) \/ (/\ mount'.pos = mount.pos /\ mount'.goal = mount.goal
                              /\ mount'.slewing = mount.slewing)
  PROVE  MotionInv'
<1>1. /\ moves' = Append(moves, cmd[c]) /\ cmd' = cmd /\ work' = work /\ Others(c)
      /\ moves \in Seq(Commands) /\ cmd[c] \in Commands
  BY DEF TypeOK, Obeyed, Raise, Goto, Others
<1>2. ASSUME NEW d \in Clients \ {c} PROVE Slewing(d)'
  <2> SUFFICES ASSUME work'[d] = "slew", MovedLast(cmd[d].id)' PROVE Heading(d)' /\ Arrived(d)'
    BY <1>1 DEF Slewing
  <2>1. CASE pc[d] = "idle"
    BY <1>1, <2>1 DEF Others, Heading, Arrived
  <2>2. CASE pc[d] # "idle"
    <3>1. cmd[d].id # cmd[c].id
      BY <2>2 DEF RecordInv, Requests
    <3>2. MovedLast(cmd[d].id) /\ ~IsMotion(cmd[c])
      BY <1>1, <3>1, MoveAppended
    <3>3. Heading(d) /\ Arrived(d)
      BY <1>1, <3>2 DEF MotionInv, Slewing
    <3> QED
      BY <1>1, <3>2, <3>3 DEF Others, Heading, Arrived
  <2> QED
    BY <2>1, <2>2
<1> QED
  BY <1>1, <1>2 DEF MotionInv

LEMMA MotionTransaction ==
  ASSUME TypeOK, RecordInv, MotionInv, NEW c \in Clients, Transaction(c)
  PROVE  MotionInv'
<1>0. /\ work[c] \in {"slew", "sync"} => cmd[c].op # "tracking"
      /\ Slewing(c) /\ pc[c] \notin {"close", "publish", "audit"}
  BY DEF MotionInv, IsMotion, Transaction, Connect, ConnectFails, Connected, NotConnected,
     CallFails, StartSlew, Sync, SetTracking, Refused, Read, Settled, SettleTimesOut,
     BlockingSlewReturns, Working
<1>1. CASE \/ Connect(c) \/ ConnectFails(c) \/ Connected(c) \/ NotConnected(c) \/ CallFails(c)
           \/ Refused(c) \/ Read(c) \/ SettleTimesOut(c)
  <2>1. /\ Still(c) /\ cmd' = cmd /\ work' = work
    BY <1>1 DEF TypeOK, Still, Others, Connect, ConnectFails, Connected, NotConnected, CallFails,
       Refused, Read, SettleTimesOut, Working, Raise, Goto, records
  <2>2. \/ pc'[c] \in {"check", "work"}
        \/ pc'[c] = "close" /\ (failed'[c] \/ work[c] \in {"read", "status"})
    BY <1>1 DEF TypeOK, Connect, ConnectFails, Connected, NotConnected, CallFails,
       Refused, Read, SettleTimesOut, Working, Raise, Goto
  <2>3. Slewing(c)'
    BY <2>1, <2>2 DEF Slewing, Heading, Arrived
  <2> QED
    BY <1>0, <2>1, <2>3, MotionStill
<1>2. CASE Settled(c) \/ BlockingSlewReturns(c)
  <2>1. /\ Still(c) /\ cmd' = cmd /\ work' = work /\ pc'[c] = "close" /\ mount' = mount
        /\ pc[c] \in {"settle", "blocked"} /\ ~mount.slewing /\ moves' = moves
    BY <1>2 DEF TypeOK, Still, Others, Settled, BlockingSlewReturns, Goto, records
  <2>2. MovedLast(cmd[c].id)' <=> MovedLast(cmd[c].id)
    BY <2>1 DEF MovedLast
  <2>3. Slewing(c)'
    BY <1>0, <2>1, <2>2 DEF Slewing, Heading, Arrived
  <2> QED
    BY <1>0, <2>1, <2>3, MotionStill
<1>3. CASE StartSlew(c)
  <2>1. /\ mount' = [mount EXCEPT !.goal = cmd[c].target, !.slewing = TRUE]
        /\ Obeyed(c, AfterSlewCall) /\ work[c] = "slew" /\ pc[c] # "idle"
    BY <1>3 DEF StartSlew, Working
  <2>2. mount'.goal = cmd[c].target /\ mount'.slewing /\ cmd' = cmd
    BY <2>1 DEF TypeOK, Obeyed
  <2>3. pc'[c] \in {"settle", "blocked"} \/ (pc'[c] = "close" /\ failed'[c])
    <3>1. AfterSlewCall \in {"settle", "blocked"}
      BY DEF AfterSlewCall
    <3>2. pc \in [Clients -> Locations] /\ failed \in [Clients -> BOOLEAN]
      BY DEF TypeOK
    <3>3. Goto(c, AfterSlewCall) \/ Raise(c)
      BY <2>1 DEF Obeyed
    <3> QED
      BY <3>1, <3>2, <3>3 DEF Raise, Goto
  <2>4. Slewing(c)'
    BY <2>2, <2>3 DEF Slewing, Heading, Arrived
  <2> QED
    BY <1>0, <2>1, <2>4, MotionObeyed DEF IsMotion
<1>4. CASE Sync(c)
  <2>1. /\ Obeyed(c, "close") /\ work[c] = "sync" /\ pc[c] # "idle" /\ work' = work
    BY <1>4 DEF Sync, Working, Obeyed
  <2>2. Slewing(c)'
    BY <2>1 DEF Slewing
  <2> QED
    BY <1>0, <2>1, <2>2, MotionObeyed DEF IsMotion
<1>5. CASE SetTracking(c)
  <2>1. /\ Obeyed(c, "close") /\ work[c] = "tracking" /\ pc[c] # "idle" /\ work' = work
        /\ mount' = [mount EXCEPT !.tracking = cmd[c].target]
    BY <1>5 DEF SetTracking, Working, Obeyed
  <2>2. Slewing(c)'
    BY <2>1 DEF Slewing
  <2>3. mount'.pos = mount.pos /\ mount'.goal = mount.goal /\ mount'.slewing = mount.slewing
    BY <2>1 DEF TypeOK
  <2> QED
    BY <2>1, <2>2, <2>3, MotionObeyed
<1> QED
  BY <1>1, <1>2, <1>3, <1>4, <1>5 DEF Transaction

LEMMA MotionHandler ==
  ASSUME TypeOK, RecordInv, MotionInv, NEW c \in Clients, Handler(c)
  PROVE  MotionInv'
<1>0. Slewing(c) /\ (work[c] \in {"slew", "sync"} => cmd[c].op # "tracking")
  BY DEF MotionInv, IsMotion
<1>1. ASSUME NEW code, Ends(c, code), moves' = moves,
             mount'.pos = mount.pos, mount'.goal = mount.goal, mount'.slewing = mount.slewing
      PROVE  MotionInv'
  <2>1. Still(c) /\ work'[c] = "read"
    BY <1>1 DEF TypeOK, Still, Others, Ends, Goto
  <2> QED
    BY <2>1, MotionStill DEF Slewing
<1>2. ASSUME Disconnect(c)
      PROVE  mount'.pos = mount.pos /\ mount'.goal = mount.goal /\ mount'.slewing = mount.slewing
  BY <1>2 DEF TypeOK, Disconnect
<1>3. CASE CloseFailed(c) \/ CloseRead(c)
  BY <1>1, <1>2, <1>3 DEF CloseFailed, CloseRead, records
<1>4. CASE CloseNudgeRead(c)
  <2>1. /\ Still(c) /\ pc'[c] = "connect" /\ cmd'[c].op = "nudge"
    BY <1>2, <1>4 DEF TypeOK, Commands, CloseNudgeRead, Still, Others, Goto, records
  <2> QED
    BY <2>1, MotionStill DEF Slewing, Heading, Arrived
<1>5. CASE CloseMoved(c)
  <2>1. /\ Still(c) /\ cmd' = cmd /\ work' = work /\ moves' = moves /\ pc'[c] = "publish"
        /\ pc[c] = "close" /\ ~failed[c]
    BY <1>2, <1>5 DEF TypeOK, CloseMoved, Still, Others, Goto, records
  <2>2. MovedLast(cmd[c].id)' <=> MovedLast(cmd[c].id)
    BY <2>1 DEF MovedLast
  <2>3. Slewing(c)'
    BY <1>0, <2>1, <2>2 DEF Slewing, Heading, Arrived, Still
  <2> QED
    BY <1>0, <2>1, <2>3, MotionStill
<1>6. CASE Publish(c)
  <2>1. /\ Still(c) /\ cmd' = cmd /\ work' = work /\ moves' = moves /\ pc'[c] = "audit"
        /\ pc[c] = "publish"
    BY <1>6 DEF TypeOK, Publish, Still, Others, Goto
  <2>2. MovedLast(cmd[c].id)' <=> MovedLast(cmd[c].id)
    BY <2>1 DEF MovedLast
  <2>3. Slewing(c)'
    BY <1>0, <2>1, <2>2 DEF Slewing, Heading, Arrived, Still
  <2> QED
    BY <1>0, <2>1, <2>3, MotionStill
<1>7. CASE PublishFails(c) \/ Audit(c) \/ AuditFails(c)
  BY <1>1, <1>7 DEF PublishFails, Audit, AuditFails, records
<1> QED
  BY <1>3, <1>4, <1>5, <1>6, <1>7 DEF Handler

LEMMA MotionNext ==
  ASSUME TypeOK, RecordInv, MotionInv, [Next]_vars
  PROVE  MotionInv'
<1>1. ASSUME NEW c \in Clients, Request(c) PROVE MotionInv'
  <2>1. PICK op \in Ops : \E argument \in ArgumentsOf(op) :
          /\ cmd' = [cmd EXCEPT ![c] = [id |-> next, op |-> op, target |-> argument]]
          /\ work' = [work EXCEPT ![c] = FirstWork(op)]
    BY <1>1 DEF Request
  <2>2. cmd'[c].op = op /\ work'[c] = FirstWork(op) /\ Still(c) /\ pc'[c] = "connect"
    BY <1>1, <2>1 DEF TypeOK, Request, Still, Others, Goto, records
  <2>3. work'[c] \in {"slew", "sync"} => cmd'[c].op # "tracking"
    BY <2>2 DEF FirstWork
  <2> QED
    BY <2>2, <2>3, MotionStill DEF Slewing, Heading, Arrived
<1>2. CASE MountArrives
  <2>1. /\ mount.slewing /\ mount'.pos = mount.goal /\ mount'.goal = mount.goal
        /\ ~mount'.slewing /\ UNCHANGED <<pc, cmd, work, failed, moves>>
    BY <1>2 DEF TypeOK, MountArrives, records
  <2>2. ASSUME NEW c \in Clients PROVE Slewing(c)'
    <3>1. MovedLast(cmd[c].id)' <=> MovedLast(cmd[c].id)
      BY <2>1 DEF MovedLast
    <3> QED
      BY <2>1, <3>1 DEF MotionInv, Slewing, Heading, Arrived
  <2> QED
    BY <2>1, <2>2 DEF MotionInv
<1>3. CASE Kill
  BY <1>3 DEF Kill, MotionInv, Slewing
<1>4. CASE UNCHANGED vars
  <2>1. UNCHANGED <<pc, cmd, work, failed, moves, mount>>
    BY <1>4 DEF vars, records
  <2>2. \A c \in Clients : Slewing(c)'
    BY <2>1, MotionKept
  <2> QED
    BY <2>1, <2>2 DEF MotionInv
<1> QED
  BY <1>1, <1>2, <1>3, <1>4, MotionTransaction, MotionHandler DEF Next, Quiet

LEMMA MotionHolds == Spec => []MotionInv
BY MotionInit, MotionNext, TypesCorrect, RecordHolds, PTL DEF Spec

\* A slew that is about to be published and acknowledged is complete, unless the mount
\* has obeyed another motion since: polling Slewing, which may be about the motion of
\* another request, is enough.
THEOREM SlewComplete == Spec => []SlewIsComplete
<1>1. MotionInv => SlewIsComplete
  BY DEF MotionInv, Slewing, Arrived, SlewIsComplete
<1> QED
  BY <1>1, MotionHolds, PTL
=============================================================================
