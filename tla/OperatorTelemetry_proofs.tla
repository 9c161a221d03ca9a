------------------------ MODULE OperatorTelemetry_proofs ------------------------
(* Theorems about OperatorTelemetry, for every number of sockets and pollers,    *)
(* every collection to start with and every snapshot the mount may give.         *)
EXTENDS OperatorTelemetry, TLAPS

\* A query that goes on to the mount has a telescope of the collection in hand, and
\* nobody keeps a frame but to send it.
InHand ==
  \A q \in Queries :
    /\ pc[q] = "live" => held[q] \in docs
    /\ pc[q] # "send" => frame[q] = ErrorFrame

\* The first race is over: nobody is left to insert.
RaceOver == settled # {} => \A q \in Queries : pc[q] # "insert"

SettledInv == RaceOver /\ PrimarySettles

USE DEF page, repository, queries

-----------------------------------------------------------------------------
(* Type correctness. *)

LEMMA DefaultTypes ==
  /\ NoTelescope \in Telescopes /\ DefaultState \in States /\ ErrorFrame \in Frames
  /\ ErrorFrame.type = "error"
<1>1. DefaultState \in States
  BY DEF DefaultState, States
<1>2. NoTelescope \in Telescopes
  BY <1>1 DEF NoTelescope, Telescopes
<1>3. ErrorFrame \in [type : {"error"}] /\ ErrorFrame.type = "error"
  BY DEF ErrorFrame
<1> QED
  BY <1>1, <1>2, <1>3 DEF Frames

LEMMA SnapshotTypes ==
  ASSUME NEW live \in Snapshots, live # Disabled
  PROVE  /\ live \in AllSnapshots /\ live.reachable \in BOOLEAN
         /\ live.reachable => live.connected \in BOOLEAN /\ live.tracking \in BOOLEAN \cup {None}
         /\ ~live.reachable => live.connected = None /\ live.tracking = None /\ live.supports = {}
         /\ live.supports \subseteq {"slew", "sync", "tracking"}
<1>1. live \in AllSnapshots
  BY TelemetryAssumption
<1>2. CASE live \in [reachable : {FALSE}, connected : {None}, tracking : {None}, supports : {{}}]
  BY <1>1, <1>2
<1>3. CASE live \in [reachable : {TRUE}, connected : BOOLEAN, tracking : BOOLEAN \cup {None},
                     supports : SUBSET {"slew", "sync", "tracking"}]
  BY <1>1, <1>3
<1> QED
  BY <1>1, <1>2, <1>3 DEF AllSnapshots

\* The merge of a stored and a live state is a status.
LEMMA MergedTypes ==
  ASSUME NEW telescope \in Telescopes, NEW live \in Snapshots
  PROVE  Status(telescope, live) \in Frames
<1>1. /\ telescope.oid \in Nat /\ telescope.state.tracking \in BOOLEAN
      /\ telescope.state.connection \in {"connected", "disconnected"}
  BY DEF Telescopes, States
<1>2. ConnectionState(telescope.state, live) \in {"connected", "disconnected"}
  BY <1>1 DEF ConnectionState
<1>3. TrackingEnabled(telescope.state, live) \in BOOLEAN
  BY <1>1, SnapshotTypes DEF TrackingEnabled
<1>4. live \in AllSnapshots \cup {Disabled}
  BY TelemetryAssumption
<1>5. (IF live = Disabled THEN {} ELSE live.supports) \in SUBSET {"slew", "sync", "tracking"}
  BY SnapshotTypes
<1>6. Status(telescope, live) \in
        [type : {"telescope_status"}, oid : Nat, tracking_enabled : BOOLEAN,
         connection_state : {"connected", "disconnected"},
         alpaca_live : AllSnapshots \cup {Disabled},
         capabilities : SUBSET {"slew", "sync", "tracking"}]
  BY <1>1, <1>2, <1>3, <1>4, <1>5 DEF Status
<1> QED
  BY <1>6 DEF Frames

\* The types, by the part of the system.
PageType ==
  /\ ref \in Sockets \cup {None}
  /\ ui \in {"off", "connecting", "open", "error"}
  /\ sock \in [Sockets -> {"unused", "connecting", "open", "closing", "closed"}]
  /\ stale \in BOOLEAN
RepositoryType ==
  docs \subseteq Telescopes /\ settled \subseteq docs /\ clock \in [news : 0..MaxNew, millis : Nat]
QueriesType ==
  /\ pc \in [Queries -> Locations]
  /\ held \in [Queries -> Telescopes]
  /\ frame \in [Queries -> Frames]

LEMMA TypeParts ==
  /\ TypeOK <=> PageType /\ RepositoryType /\ QueriesType
  /\ TypeOK' <=> PageType' /\ RepositoryType' /\ QueriesType'
BY DEF TypeOK, PageType, RepositoryType, QueriesType

LEMMA InitType == Init => TypeOK
<1> SUFFICES ASSUME Init PROVE TypeOK
  OBVIOUS
<1>1. PageType
  BY DEF Init, PageType
<1>2. RepositoryType
  <2>1. docs \subseteq Telescopes /\ settled = docs
    BY TelemetryAssumption DEF Init
  <2>2. clock \in [news : 0..MaxNew, millis : Nat]
    BY TelemetryAssumption DEF Init
  <2> QED
    BY <2>1, <2>2 DEF RepositoryType
<1>3. QueriesType
  <2>1. pc \in [Queries -> Locations]
    BY DEF Init, Locations
  <2>2. held \in [Queries -> Telescopes] /\ frame \in [Queries -> Frames]
    BY DefaultTypes DEF Init
  <2> QED
    BY <2>1, <2>2 DEF QueriesType
<1> QED
  BY <1>1, <1>2, <1>3, TypeParts

\* The page's own steps.
PageStep ==
  \/ \E s \in Sockets : Connect(s) \/ Opened(s) \/ Closed(s)
  \/ ConnectThrows \/ Disconnect \/ PageLeft

LEMMA ClosingType ==
  PageType => Closing \in [Sockets -> {"unused", "connecting", "open", "closing", "closed"}]
BY DEF PageType, Closing

LEMMA PageStepType ==
  ASSUME TypeOK, PageStep
  PROVE  TypeOK'
<1>1. PageType /\ RepositoryType /\ QueriesType /\ UNCHANGED <<repository, queries>>
  BY TypeParts DEF PageStep, Connect, Opened, Closed, ConnectThrows, Disconnect, PageLeft
<1>2. RepositoryType' /\ QueriesType'
  BY <1>1 DEF RepositoryType, QueriesType
<1>3. ASSUME NEW s \in Sockets, Connect(s) PROVE PageType'
  BY <1>1, <1>3, ClosingType DEF PageType, Connect
<1>4. ASSUME NEW s \in Sockets, Opened(s) \/ Closed(s) PROVE PageType'
  <2>1. sock' \in [Sockets -> {"unused", "connecting", "open", "closing", "closed"}]
    BY <1>1, <1>4 DEF PageType, Opened, Closed
  <2>2. ref' \in Sockets \cup {None} /\ ui' \in {"off", "connecting", "open", "error"}
    BY <1>1, <1>4 DEF PageType, Opened, Closed
  <2>3. stale' \in BOOLEAN
    BY <1>1, <1>4 DEF PageType, Opened, Closed
  <2> QED
    BY <2>1, <2>2, <2>3 DEF PageType
<1>5. ASSUME ConnectThrows \/ Disconnect PROVE PageType'
  <2>1. sock' = Closing /\ ref' = None /\ ui' \in {"error", "off"} /\ stale' = stale
    BY <1>5 DEF ConnectThrows, Disconnect
  <2>2. stale' \in BOOLEAN
    BY <1>1, <2>1, Zenon DEF PageType
  <2>3. sock' \in [Sockets -> {"unused", "connecting", "open", "closing", "closed"}]
    BY <1>1, <2>1, ClosingType
  <2> QED
    BY <2>1, <2>2, <2>3 DEF PageType
<1>6. ASSUME PageLeft PROVE PageType'
  <2>1. sock' \in [Sockets -> {"unused", "connecting", "open", "closing", "closed"}]
    BY <1>6 DEF PageLeft
  <2>2. ref' = None /\ ui' = "off" /\ stale' = stale
    BY <1>6 DEF PageLeft
  <2>3. stale' \in BOOLEAN
    BY <1>1, <2>2, Zenon DEF PageType
  <2> QED
    BY <2>1, <2>2, <2>3 DEF PageType
<1>7. PageType'
  BY <1>3, <1>4, <1>5, <1>6 DEF PageStep
<1> QED
  BY <1>2, <1>7, TypeParts

\* Inserting a telescope, or failing to: the collection grows by it at most.
LEMMA MaybeInsertedType ==
  ASSUME TypeOK, NEW q \in Queries, docs' \in {docs, docs \cup {held[q]}}, Settles(q)
  PROVE  docs' \subseteq Telescopes /\ docs \subseteq docs' /\ settled' \subseteq docs'
<1>1. docs' \subseteq Telescopes /\ docs \subseteq docs' /\ settled \subseteq docs'
  BY DEF TypeOK
<1>2. settled' = settled \/ settled' = Primary'
  BY DEF Settles
<1>3. Primary' \subseteq docs'
  BY DEF Primary
<1> QED
  BY <1>1, <1>2, <1>3

LEMMA QueryStepType ==
  ASSUME TypeOK, NEW q \in Queries, QueryStep(q)
  PROVE  TypeOK'
<1>1. PageType /\ RepositoryType /\ QueriesType /\ UNCHANGED page
  BY TypeParts DEF QueryStep, Found, NotFound, New, Insert, QueryFails, Snapshot, Send
<1>2. PageType'
  BY <1>1 DEF PageType
<1>3. pc' \in [Queries -> Locations]
  BY <1>1 DEF QueriesType, Locations, QueryStep, Found, NotFound, New, Insert, QueryFails,
              Snapshot, Send, Goto
<1>4. CASE Found(q)
  <2>1. PICK t \in Primary : held' = [held EXCEPT ![q] = t]
    BY <1>4 DEF Found
  <2>2. t \in Telescopes
    BY <1>1 DEF RepositoryType, Primary
  <2>3. QueriesType'
    BY <1>1, <1>3, <1>4, <2>1, <2>2 DEF QueriesType, Found
  <2> QED
    BY <1>1, <1>2, <1>4, <2>3, TypeParts DEF Found, RepositoryType
<1>5. CASE NotFound(q)
  <2>1. PICK millis \in {clock.millis, clock.millis + 1} :
          clock' = [news |-> clock.news + 1, millis |-> millis]
    BY <1>5 DEF NotFound, New
  <2>2. /\ clock' \in [news : 0..MaxNew, millis : Nat]
        /\ clock'.news \in Nat /\ clock'.millis \in Nat
    BY <1>1, <1>5, <2>1, TelemetryAssumption DEF RepositoryType, NotFound
  <2>3. [oid |-> clock'.news, created |-> clock'.millis, state |-> DefaultState] \in Telescopes
    BY <2>2, DefaultTypes DEF Telescopes
  <2>4. QueriesType'
    BY <1>1, <1>3, <1>5, <2>3 DEF QueriesType, NotFound, New
  <2>5. RepositoryType'
    BY <1>1, <1>5, <2>2 DEF RepositoryType, NotFound, New
  <2> QED
    BY <1>2, <2>4, <2>5, TypeParts
<1>6. CASE Insert(q) \/ QueryFails(q)
  <2>1. docs' \in {docs, docs \cup {held[q]}} /\ Settles(q) /\ clock' = clock /\ frame' = frame
    BY <1>6 DEF Insert, QueryFails, MaybeInserted
  <2>2. RepositoryType'
    BY <1>1, <2>1, MaybeInsertedType DEF RepositoryType
  <2>3. held' \in [Queries -> Telescopes]
    BY <1>1, <1>6, DefaultTypes DEF QueriesType, Insert, QueryFails, MaybeInserted
  <2>4. QueriesType'
    BY <1>1, <1>3, <2>1, <2>3 DEF QueriesType
  <2> QED
    BY <1>2, <2>2, <2>4, TypeParts
<1>7. CASE Snapshot(q)
  <2>1. PICK live \in Snapshots : frame' = [frame EXCEPT ![q] = Status(held[q], live)]
    BY <1>7 DEF Snapshot
  <2>2. held[q] \in Telescopes
    BY <1>1 DEF QueriesType
  <2>3. Status(held[q], live) \in Frames
    BY <2>2, MergedTypes
  <2>4. QueriesType'
    BY <1>1, <1>3, <1>7, <2>1, <2>3, DefaultTypes DEF QueriesType, Snapshot
  <2> QED
    BY <1>1, <1>2, <1>7, <2>4, TypeParts DEF Snapshot, RepositoryType
<1>8. CASE Send(q)
  <2>1. QueriesType'
    BY <1>1, <1>3, <1>8, DefaultTypes DEF QueriesType, Send, Forget
  <2> QED
    BY <1>1, <1>2, <1>8, <2>1, TypeParts DEF Send, RepositoryType
<1> QED
  BY <1>4, <1>5, <1>6, <1>7, <1>8 DEF QueryStep

LEMMA NextType == TypeOK /\ [Next]_vars => TypeOK'
<1> SUFFICES ASSUME TypeOK, [Next]_vars PROVE TypeOK'
  OBVIOUS
<1>1. ASSUME NEW s \in Sockets, Accept(s) \/ SendFails(s) PROVE TypeOK'
  <2>1. PageType /\ RepositoryType /\ QueriesType /\ UNCHANGED <<page, repository, held>>
    BY <1>1, TypeParts DEF Accept, SendFails, Forget
  <2>2. QueriesType'
    <3>1. pc' \in [Queries -> Locations]
      BY <1>1, <2>1 DEF QueriesType, Locations, Accept, SendFails, Goto
    <3>2. frame' \in [Queries -> Frames]
      BY <1>1, <2>1, DefaultTypes DEF QueriesType, Accept, SendFails, Forget
    <3> QED
      BY <2>1, <3>1, <3>2 DEF QueriesType
  <2> QED
    BY <2>1, <2>2, TypeParts DEF PageType, RepositoryType
<1>2. CASE UNCHANGED vars
  BY <1>2 DEF TypeOK, vars, Primary
<1> QED
  BY <1>1, <1>2, PageStepType, QueryStepType DEF Next, PageStep

\* Page, collection, queries and frames keep their types: in particular every merge of
\* a stored and a live state is a complete status.
THEOREM TypeCorrect == Spec => []TypeOK
BY InitType, NextType, PTL DEF Spec

-----------------------------------------------------------------------------
(* What queries have in hand. *)

LEMMA MovedTo ==
  ASSUME TypeOK, NEW q \in Queries, NEW location, Goto(q, location)
  PROVE  pc'[q] = location /\ \A p \in Queries \ {q} : pc'[p] = pc[p]
BY DEF TypeOK, Goto

\* The contract between a snapshot and what is made of it.
LEMMA MergeSound ==
  ASSUME NEW telescope \in Telescopes, NEW live \in Snapshots
  PROVE  Contract(Status(telescope, live)) /\ Status(telescope, live).oid = telescope.oid
<1>1. /\ Status(telescope, live).alpaca_live = live
      /\ Status(telescope, live).oid = telescope.oid
      /\ Status(telescope, live).connection_state = ConnectionState(telescope.state, live)
      /\ Status(telescope, live).tracking_enabled = TrackingEnabled(telescope.state, live)
      /\ live # Disabled => Status(telescope, live).capabilities = live.supports
  BY DEF Status
<1>2. CASE live = Disabled
  BY <1>1, <1>2 DEF Contract
<1>3. CASE live # Disabled
  <2>1. CASE ~live.reachable
    BY <1>1, <1>3, <2>1, SnapshotTypes DEF Contract, ConnectionState
  <2>2. CASE live.reachable
    <3>1. live.connected \in BOOLEAN /\ live.connected # None
      BY <1>3, <2>2, SnapshotTypes, TelemetryAssumption
    <3>2. CASE live.connected = TRUE
      BY <1>1, <1>3, <2>2, <3>1, <3>2 DEF Contract, ConnectionState, TrackingEnabled
    <3>3. CASE live.connected = FALSE
      BY <1>1, <1>3, <2>2, <3>1, <3>3 DEF Contract, ConnectionState, TrackingEnabled
    <3> QED
      BY <3>1, <3>2, <3>3
  <2> QED
    BY <1>3, <2>1, <2>2, SnapshotTypes
<1> QED
  BY <1>2, <1>3

SoundInv == InHand /\ StatusIsSound

\* A step of one query leaves the others' hands and frames alone.
LEMMA OthersSound ==
  ASSUME SoundInv, NEW q \in Queries, docs \subseteq docs',
         \A p \in Queries \ {q} : pc'[p] = pc[p] /\ held'[p] = held[p] /\ frame'[p] = frame[p],
         pc'[q] = "live" => held'[q] \in docs',
         pc'[q] # "send" => frame'[q] = ErrorFrame,
         pc'[q] = "send" /\ frame'[q].type = "telescope_status" =>
           Contract(frame'[q]) /\ \E t \in docs' : t.oid = frame'[q].oid
  PROVE  SoundInv'
<1>1. InHand'
  BY DEF SoundInv, InHand
<1>2. StatusIsSound'
  BY DEF SoundInv, StatusIsSound
<1> QED
  BY <1>1, <1>2 DEF SoundInv

LEMMA QueryStepSound ==
  ASSUME TypeOK, SoundInv, NEW q \in Queries, QueryStep(q)
  PROVE  SoundInv'
<1>0. /\ held \in [Queries -> Telescopes] /\ frame \in [Queries -> Frames]
      /\ pc \in [Queries -> Locations]
  BY DEF TypeOK
<1>1. CASE Found(q)
  <2>1. PICK t \in Primary : held' = [held EXCEPT ![q] = t]
    BY <1>1 DEF Found
  <2>2. /\ pc'[q] = "live" /\ pc[q] = "tick" /\ docs' = docs /\ frame' = frame /\ t \in docs
        /\ \A p \in Queries \ {q} : pc'[p] = pc[p]
    BY <1>1, MovedTo DEF Found, Primary
  <2> QED
    BY <1>0, <2>1, <2>2, OthersSound DEF SoundInv, InHand
<1>2. CASE NotFound(q)
  <2>1. /\ pc'[q] = "insert" /\ pc[q] = "tick" /\ docs' = docs /\ frame' = frame
        /\ \A p \in Queries \ {q} : pc'[p] = pc[p] /\ held'[p] = held[p]
    BY <1>0, <1>2, MovedTo DEF NotFound, New
  <2> QED
    BY <2>1, OthersSound DEF SoundInv, InHand
<1>3. CASE Insert(q)
  <2>1. /\ pc'[q] = "live" /\ pc[q] = "insert" /\ docs' = docs \cup {held[q]}
        /\ UNCHANGED <<frame, held>>
        /\ \A p \in Queries \ {q} : pc'[p] = pc[p]
    BY <1>3, MovedTo DEF Insert
  <2> QED
    BY <2>1, OthersSound DEF SoundInv, InHand
<1>4. CASE QueryFails(q)
  <2>1. /\ pc'[q] = "send" /\ pc[q] # "send" /\ docs \subseteq docs' /\ frame' = frame
        /\ \A p \in Queries \ {q} : pc'[p] = pc[p] /\ held'[p] = held[p]
    BY <1>0, <1>4, MovedTo DEF QueryFails, MaybeInserted
  <2>2. frame'[q].type # "telescope_status"
    BY <2>1, DefaultTypes DEF SoundInv, InHand
  <2> QED
    BY <2>1, <2>2, OthersSound
<1>5. CASE Snapshot(q)
  <2>1. PICK live \in Snapshots : frame' = [frame EXCEPT ![q] = Status(held[q], live)]
    BY <1>5 DEF Snapshot
  <2>2. /\ pc'[q] = "send" /\ pc[q] = "live" /\ docs' = docs
        /\ \A p \in Queries \ {q} : pc'[p] = pc[p] /\ held'[p] = held[p]
    BY <1>0, <1>5, MovedTo DEF Snapshot
  <2>3. held[q] \in docs /\ held[q] \in Telescopes
    BY <1>0, <2>2 DEF SoundInv, InHand
  <2>4. Contract(Status(held[q], live)) /\ Status(held[q], live).oid = held[q].oid
    BY <2>3, MergeSound
  <2>5. frame'[q] = Status(held[q], live) /\ \A p \in Queries \ {q} : frame'[p] = frame[p]
    BY <1>0, <2>1
  <2> QED
    BY <2>2, <2>3, <2>4, <2>5, OthersSound
<1>6. CASE Send(q)
  <2>1. /\ pc'[q] = "tick" /\ docs' = docs /\ held' = held /\ frame'[q] = ErrorFrame
        /\ \A p \in Queries \ {q} : pc'[p] = pc[p] /\ frame'[p] = frame[p]
    BY <1>0, <1>6, MovedTo DEF Send, Forget
  <2> QED
    BY <2>1, OthersSound
<1> QED
  BY <1>1, <1>2, <1>3, <1>4, <1>5, <1>6 DEF QueryStep

LEMMA SoundStep == TypeOK /\ SoundInv /\ [Next]_vars => SoundInv'
<1> SUFFICES ASSUME TypeOK, SoundInv, [Next]_vars PROVE SoundInv'
  OBVIOUS
<1>1. CASE UNCHANGED <<docs, pc, held, frame>>
  BY <1>1 DEF SoundInv, InHand, StatusIsSound
<1>2. ASSUME NEW s \in Sockets, Accept(s) \/ SendFails(s) PROVE SoundInv'
  <2>0. s \in Queries
    BY DEF Queries
  <2>1. /\ pc'[s] \in {"tick", "off"} /\ pc[s] \in {"new", "send"}
        /\ docs' = docs /\ held' = held /\ (pc[s] = "new" => frame' = frame)
        /\ \A p \in Queries \ {s} : pc'[p] = pc[p]
    BY <1>2, <2>0, MovedTo DEF Accept, SendFails, Forget
  <2>2. /\ pc[s] = "send" => frame'[s] = ErrorFrame
        /\ \A p \in Queries \ {s} : frame'[p] = frame[p]
    BY <1>2, <2>0 DEF TypeOK, Accept, SendFails, Forget
  <2> QED
    BY <2>0, <2>1, <2>2, OthersSound DEF SoundInv, InHand
<1>3. CASE PageStep \/ UNCHANGED vars
  <2>1. UNCHANGED <<docs, pc, held, frame>>
    BY <1>3 DEF vars, PageStep, Connect, Opened, Closed, ConnectThrows, Disconnect, PageLeft
  <2> QED
    BY <1>1, <2>1
<1> QED
  BY <1>2, <1>3, QueryStepSound DEF Next, PageStep

\* Every status about to be sent, whatever stored and live state it was merged of,
\* keeps the contract, and its telescope is one of the collection.
THEOREM StatusSound == Spec => []StatusIsSound
<1>1. Init => SoundInv
  BY DEF Init, SoundInv, InHand, StatusIsSound
<1>2. SoundInv => StatusIsSound
  BY DEF SoundInv
<1> QED
  BY <1>1, <1>2, TypeCorrect, SoundStep, PTL DEF Spec

-----------------------------------------------------------------------------
(* The race to create the telescope. *)

LEMMA SettledStep == TypeOK /\ SettledInv /\ [Next]_vars => SettledInv'
<1> SUFFICES ASSUME TypeOK, SettledInv, [Next]_vars PROVE SettledInv'
  OBVIOUS
<1>0. pc \in [Queries -> Locations] /\ settled \subseteq docs /\ Sockets \subseteq Queries
  BY DEF TypeOK, Queries
<1>1. CASE UNCHANGED <<docs, settled>> /\ \A p \in Queries : pc'[p] = "insert" => pc[p] = "insert"
  <2>1. Primary' = Primary
    BY <1>1 DEF Primary
  <2> QED
    BY <1>1, <2>1 DEF SettledInv, RaceOver, PrimarySettles
<1>2. ASSUME NEW q \in Queries, Insert(q) \/ QueryFails(q) PROVE SettledInv'
  <2>1. /\ Settles(q) /\ pc'[q] \in {"live", "send"}
        /\ pc[q] # "insert" => docs' = docs
        /\ \A p \in Queries \ {q} : pc'[p] = pc[p]
    BY <1>2, MovedTo DEF Insert, QueryFails, MaybeInserted
  <2>2. CASE settled # {}
    <3>1. docs' = docs /\ settled' = settled /\ \A p \in Queries : pc[p] # "insert"
      BY <2>1, <2>2 DEF Settles, SettledInv, RaceOver
    <3> QED
      BY <1>1, <2>1, <3>1
  <2>3. CASE settled = {}
    <3>1. CASE docs' # {} /\ \A p \in Queries \ {q} : pc[p] # "insert"
      <4>1. settled' = Primary'
        BY <2>1, <2>3, <3>1 DEF Settles
      <4>2. \A p \in Queries : pc'[p] # "insert"
        BY <2>1, <3>1
      <4> QED
        BY <4>1, <4>2 DEF SettledInv, RaceOver, PrimarySettles
    <3>2. CASE ~(docs' # {} /\ \A p \in Queries \ {q} : pc[p] # "insert")
      <4>1. settled' = {}
        BY <2>1, <2>3, <3>2 DEF Settles
      <4> QED
        BY <4>1 DEF SettledInv, RaceOver, PrimarySettles
    <3> QED
      BY <3>1, <3>2
  <2> QED
    BY <2>2, <2>3
<1>3. ASSUME NEW q \in Queries, NotFound(q) PROVE SettledInv'
  <2>1. docs = {} /\ settled' = settled
    BY <1>3 DEF NotFound, New
  <2>2. settled' = {}
    BY <1>0, <2>1
  <2> QED
    BY <2>2 DEF SettledInv, RaceOver, PrimarySettles
<1>4. ASSUME NEW q \in Queries, Found(q) \/ Snapshot(q) \/ Send(q) PROVE SettledInv'
  BY <1>1, <1>4, MovedTo DEF Found, Snapshot, Send
<1>5. ASSUME NEW s \in Sockets, Accept(s) \/ SendFails(s) PROVE SettledInv'
  BY <1>0, <1>1, <1>5, MovedTo DEF Accept, SendFails
<1>6. CASE PageStep \/ UNCHANGED vars
  <2>1. UNCHANGED <<docs, settled, pc>>
    BY <1>6 DEF vars, PageStep, Connect, Opened, Closed, ConnectThrows, Disconnect, PageLeft
  <2> QED
    BY <1>1, <2>1
<1> QED
  BY <1>2, <1>3, <1>4, <1>5, <1>6 DEF Next, QueryStep, PageStep

\* Once the last insert of the first race is done, the telescopes find_one may return
\* are settled for good, however many queries had raced.
THEOREM RaceSettles == Spec => []PrimarySettles
<1>1. Init => SettledInv
  <2> SUFFICES ASSUME Init PROVE SettledInv
    OBVIOUS
  <2>1. RaceOver
    BY DEF Init, RaceOver
  <2>2. Primary = settled
    <3>1. settled = docs /\ (docs = {} \/ \E record \in OldRecords : docs = {record})
      BY DEF Init
    <3>2. \A record \in OldRecords : record.created \in Nat
      BY TelemetryAssumption DEF Telescopes
    <3>3. \A t \in docs : \A u \in docs : t = u /\ t.created \in Nat
      BY <3>1, <3>2
    <3>4. Primary = docs
      BY <3>3 DEF Primary
    <3> QED
      BY <3>1, <3>4
  <2> QED
    BY <2>1, <2>2 DEF SettledInv, PrimarySettles
<1>2. SettledInv => PrimarySettles
  BY DEF SettledInv
<1> QED
  BY <1>1, <1>2, TypeCorrect, SettledStep, PTL DEF Spec

-----------------------------------------------------------------------------
(* The page's connection and the sessions. *)

LEMMA PageControlStep == TypeOK /\ PageInControl /\ [Next]_vars => PageInControl'
<1> SUFFICES ASSUME TypeOK, PageInControl, [Next]_vars PROVE PageInControl'
  OBVIOUS
<1>0. sock \in [Sockets -> {"unused", "connecting", "open", "closing", "closed"}]
      /\ None \notin Sockets
  BY TelemetryAssumption DEF TypeOK
<1>1. CASE UNCHANGED page
  BY <1>1 DEF PageInControl, Live
<1> SUFFICES ASSUME ~stale' PROVE \A t \in Sockets : Live(t)' => ref' = t /\ ui' # "off"
  BY DEF PageInControl
<1>2. \A t \in Sockets : ~stale /\ Closing[t] \in {"connecting", "open"} => FALSE
  BY <1>0 DEF PageInControl, Closing, Live
<1>3. ASSUME NEW s \in Sockets, Connect(s)
      PROVE  \A t \in Sockets : Live(t)' => ref' = t /\ ui' # "off"
  BY <1>0, <1>2, <1>3 DEF Connect, Live, Closing
<1>4. ASSUME NEW s \in Sockets, Opened(s)
      PROVE  \A t \in Sockets : Live(t)' => ref' = t /\ ui' # "off"
  BY <1>0, <1>4 DEF Opened, Live, PageInControl
<1>5. ASSUME NEW s \in Sockets, Closed(s)
      PROVE  \A t \in Sockets : Live(t)' => ref' = t /\ ui' # "off"
  <2>1. ~stale /\ ref \in {s, None} /\ sock' = [sock EXCEPT ![s] = "closed"]
    BY <1>5 DEF Closed
  <2>2. \A t \in Sockets : Live(t) => t = s
    BY <1>0, <2>1 DEF PageInControl
  <2> QED
    BY <1>0, <2>1, <2>2 DEF Live
<1>6. CASE ConnectThrows \/ Disconnect
  BY <1>2, <1>6 DEF ConnectThrows, Disconnect, Live
<1>7. CASE PageLeft
  BY <1>7 DEF PageLeft, Live
<1>8. CASE ~PageStep
  <2>1. UNCHANGED page
    BY <1>8 DEF Next, vars, PageStep, Accept, SendFails, QueryStep, Found, NotFound, New, Insert,
                QueryFails, Snapshot, Send
  <2> QED
    BY <1>1, <2>1 DEF PageInControl
<1> QED
  BY <1>3, <1>4, <1>5, <1>6, <1>7, <1>8 DEF PageStep

\* Until a close event clears the socket after the one it is about, every live socket is
\* the one the page would close.
THEOREM PageControls == Spec => []PageInControl
<1>1. Init => PageInControl
  BY DEF Init, PageInControl, Live
<1> QED
  BY <1>1, TypeCorrect, PageControlStep, PTL DEF Spec

\* Neither MongoDB nor the mount ends a session whose socket is open.
THEOREM StreamsSurvive == Spec => StreamSurvives
<1>1. ASSUME TypeOK, [Next]_vars, NEW s \in Sockets, pc[s] \notin {"new", "off"}, sock[s] = "open"
      PROVE  pc'[s] # "off"
  <2>0. pc \in [Queries -> Locations] /\ Sockets \subseteq Queries /\ s \in Queries
    BY <1>1 DEF TypeOK, Queries
  <2>1. ASSUME NEW q \in Queries, QueryStep(q) PROVE pc'[s] # "off"
    BY <1>1, <2>0, <2>1 DEF QueryStep, Found, NotFound, New, Insert, QueryFails, Snapshot, Send,
                            Goto
  <2>2. ASSUME NEW t \in Sockets, Accept(t) \/ SendFails(t) PROVE pc'[s] # "off"
    BY <1>1, <2>0, <2>2 DEF Accept, SendFails, Goto
  <2>3. CASE PageStep \/ UNCHANGED vars
    BY <1>1, <2>3 DEF vars, PageStep, Connect, Opened, Closed, ConnectThrows, Disconnect, PageLeft
  <2> QED
    BY <1>1, <2>1, <2>2, <2>3 DEF Next, PageStep
<1>2. TypeOK /\ [Next]_vars =>
        \A s \in Sockets : pc[s] \notin {"new", "off"} /\ sock[s] = "open" => pc'[s] # "off"
  BY <1>1
<1>3. TypeOK /\ [Next]_vars =>
        [\A s \in Sockets : pc[s] \notin {"new", "off"} /\ sock[s] = "open" => pc'[s] # "off"]_vars
  BY <1>2
<1> QED
  BY <1>3, TypeCorrect, PTL DEF Spec, StreamSurvives
=============================================================================
