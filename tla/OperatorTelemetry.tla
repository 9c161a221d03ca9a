--------------------------- MODULE OperatorTelemetry ---------------------------
(***************************************************************************)
(* The operator page's WebSocket (frontend/src/App.tsx), its session in    *)
(* the backend (ws_operator_telemetry in handlers.py), and the status      *)
(* query both this session and GET /telescopes/status make: the telescope  *)
(* record found or created in MongoDB, merged with a live snapshot of the  *)
(* mount (logic/queries/telescope.py).                                     *)
(*                                                                         *)
(* The page keeps one socket in wsRef, but the close event of a socket     *)
(* arrives later than its close() and clears wsRef whatever it holds by    *)
(* then.  The session never reads: it learns that its client has gone when *)
(* it sends.  Two queries may both find no record and both create one;     *)
(* find_one then takes one with the earliest created_at, which MongoDB     *)
(* keeps in milliseconds only.                                             *)
(***************************************************************************)
EXTENDS Integers

CONSTANTS
  Sockets,    \* the WebSockets the page opens, one after the other: 1..n
  Pollers,    \* clients of GET /telescopes/status
  OldRecords, \* the records the collection may start with
  Snapshots,  \* what read_live_telescope_snapshot may return
  Disabled,   \* its answer, always, when Alpaca polling is off
  None,       \* no socket; a property the driver did not report
  MaxNew      \* bound: telescopes created

\* The stored part of a status: the default of a new Telescope, or what a setter of
\* the entity left.
States == [connection : {"connected", "disconnected"}, tracking : BOOLEAN]
DefaultState == [connection |-> "disconnected", tracking |-> FALSE]

Telescopes == [oid : Nat, created : Nat, state : States]

AllSnapshots ==
  [reachable : {FALSE}, connected : {None}, tracking : {None}, supports : {{}}] \cup
  [reachable : {TRUE}, connected : BOOLEAN, tracking : BOOLEAN \cup {None},
   supports : SUBSET {"slew", "sync", "tracking"}]

ASSUME TelemetryAssumption ==
  /\ Sockets \subseteq Nat \ {0}
  /\ Pollers \cap Sockets = {}
  /\ OldRecords \subseteq Telescopes
  /\ Snapshots = {Disabled} \/ Snapshots \subseteq AllSnapshots
  /\ Disabled \notin AllSnapshots
  /\ None \notin Sockets /\ None \notin BOOLEAN
  /\ MaxNew \in Nat

VARIABLES
  ref,      \* wsRef: the socket the page would close, or None
  ui,       \* wsUi: "off", "connecting", "open" or "error"
  sock,     \* readyState of each socket: "unused", "connecting", ...
  stale,    \* a close event has cleared wsRef of another socket (history)
  docs,     \* the telescope collection
  clock,    \* [news, millis]: telescopes constructed, current millisecond
  settled,  \* the primary when the last insert of the first race was done (history)
  pc,       \* where each session and poller is
  held,     \* the telescope its query has in hand
  frame     \* the status or error it is about to send

page == <<ref, ui, sock, stale>>
repository == <<docs, clock, settled>>
queries == <<pc, held, frame>>
vars == <<page, repository, queries>>

Queries == Sockets \cup Pollers

\* "new": not accepted; "tick": asleep until the next query, or a poller between two
\* requests; "insert", "live": in the query; "send"; "off": the session has ended.
Locations == {"new", "tick", "insert", "live", "send", "off"}

NoTelescope == [oid |-> 0, created |-> 0, state |-> DefaultState]
ErrorFrame == [type |-> "error"]

Init ==
  /\ ref = None /\ ui = "off"
  /\ sock = [s \in Sockets |-> "unused"] /\ stale = FALSE
  /\ docs \in {{}} \cup {{record} : record \in OldRecords}
  /\ clock = [news |-> 0, millis |-> 1]
  /\ settled = docs
  /\ pc = [q \in Queries |-> IF q \in Sockets THEN "new" ELSE "tick"]
  /\ held = [q \in Queries |-> NoTelescope]
  /\ frame = [q \in Queries |-> ErrorFrame]

-----------------------------------------------------------------------------
(* The page. *)

Live(s) == sock[s] \in {"connecting", "open"}

\* close() of the socket in wsRef, if any.
Closing == [s \in Sockets |-> IF s = ref /\ Live(s) THEN "closing" ELSE sock[s]]

\* Mutant of Connect: the socket before it is forgotten, not closed.
ConnectOver(s) ==
  /\ ui # "connecting"
  /\ sock[s] = "unused" /\ \A t \in Sockets : t < s => sock[t] # "unused"
  /\ sock' = [sock EXCEPT ![s] = "connecting"]
  /\ ref' = s /\ ui' = "connecting"
  /\ UNCHANGED <<stale, repository, queries>>

\* The button is disabled while connecting only.
Connect(s) ==
  /\ ui # "connecting"
  /\ sock[s] = "unused" /\ \A t \in Sockets : t < s => sock[t] # "unused"
  /\ sock' = [Closing EXCEPT ![s] = "connecting"]
  /\ ref' = s /\ ui' = "connecting"
  /\ UNCHANGED <<stale, repository, queries>>

\* new WebSocket() raises: an API base that is no URL, or mixed content.
ConnectThrows ==
  /\ ui # "connecting"
  /\ sock' = Closing
  /\ ref' = None /\ ui' = "error"
  /\ UNCHANGED <<stale, repository, queries>>

Disconnect ==
  /\ sock' = Closing
  /\ ref' = None /\ ui' = "off"
  /\ UNCHANGED <<stale, repository, queries>>

\* onopen, for whichever socket it is.
Opened(s) ==
  /\ sock[s] = "connecting" /\ pc[s] # "new"
  /\ sock' = [sock EXCEPT ![s] = "open"]
  /\ ui' = "open"
  /\ UNCHANGED <<ref, stale, repository, queries>>

\* onclose, after a close() or when the connection drops.
Closed(s) ==
  /\ Live(s) \/ sock[s] = "closing"
  /\ sock' = [sock EXCEPT ![s] = "closed"]
  /\ ref' = None /\ ui' = "off"
  /\ stale' = (stale \/ ref \notin {s, None})
  /\ UNCHANGED <<repository, queries>>

\* The page is left: the browser closes all its sockets, no handler runs any more.
PageLeft ==
  /\ sock' = [s \in Sockets |-> IF sock[s] = "unused" THEN "unused" ELSE "closed"]
  /\ ref' = None /\ ui' = "off"
  /\ UNCHANGED <<stale, repository, queries>>

-----------------------------------------------------------------------------
(* The telescope repository and the status query. *)

Goto(q, location) == pc' = [pc EXCEPT ![q] = location]

\* After two seconds: find_one(sort=[('created_at', 1)]): ties are resolved either way.
Primary == {t \in docs : \A u \in docs : t.created <= u.created}

Found(q) ==
  /\ pc[q] = "tick"
  /\ \E t \in Primary : held' = [held EXCEPT ![q] = t]
  /\ Goto(q, "live")
  /\ UNCHANGED <<page, repository, frame>>

\* Telescope(): an oid of its own, created now.
New(q) ==
  /\ \E millis \in {clock.millis, clock.millis + 1} :
       clock' = [news |-> clock.news + 1, millis |-> millis]
  /\ held' = [held EXCEPT ![q] = [oid |-> clock'.news, created |-> clock'.millis,
                                  state |-> DefaultState]]
  /\ Goto(q, "insert")
  /\ UNCHANGED <<page, docs, settled, frame>>

\* Mutant of NotFound: a new telescope for every query.
NotFoundAtAll(q) ==
  /\ pc[q] = "tick" /\ clock.news < MaxNew
  /\ New(q)

NotFound(q) ==
  /\ pc[q] = "tick" /\ docs = {} /\ clock.news < MaxNew
  /\ New(q)

Settles(q) ==
  settled' = IF settled = {} /\ docs' # {} /\ \A p \in Queries \ {q} : pc[p] # "insert"
               THEN Primary' ELSE settled

\* save_primary: update_one({'oid': ...}, upsert=True)
Insert(q) ==
  /\ pc[q] = "insert"
  /\ docs' = docs \cup {held[q]}
  /\ Settles(q)
  /\ Goto(q, "live")
  /\ UNCHANGED <<page, clock, held, frame>>

\* A failed insert may have been applied.
MaybeInserted(q) ==
  /\ docs' \in {docs} \cup (IF pc[q] = "insert" THEN {docs \cup {held[q]}} ELSE {})
  /\ Settles(q)
  /\ held' = [held EXCEPT ![q] = NoTelescope]

\* Mutant of QueryFails: the exception leaves the loop.
QueryFailsAndEnds(q) ==
  /\ pc[q] \in {"tick", "insert", "live"}
  /\ MaybeInserted(q)
  /\ Goto(q, "off")
  /\ UNCHANGED <<page, clock, frame>>

\* MongoDB fails, or anything else raises up to the validation of the status by its
\* schema: an error frame, or a 5xx answer.
QueryFails(q) ==
  /\ pc[q] \in {"tick", "insert", "live"}
  /\ MaybeInserted(q)
  /\ Goto(q, "send")
  /\ UNCHANGED <<page, clock, frame>>

\* _status_connection_state
ConnectionState(stored, live) ==
  IF live = Disabled \/ (live.reachable /\ live.connected = None) THEN stored.connection
  ELSE IF live.reachable /\ live.connected THEN "connected" ELSE "disconnected"

\* Mutant of TrackingEnabled: the stored flag of a disconnected mount is kept.
TrackingEnabledStored(stored, live) ==
  IF live = Disabled THEN stored.tracking
  ELSE IF live.tracking # None THEN live.tracking ELSE stored.tracking

\* Mutant of TrackingEnabled: what the driver reports is passed on as it is.
TrackingEnabledRaw(stored, live) ==
  IF live = Disabled \/ ~live.reachable THEN stored.tracking ELSE live.tracking

\* _status_tracking_enabled
TrackingEnabled(stored, live) ==
  IF live = Disabled \/ ~live.reachable THEN stored.tracking
  ELSE IF live.connected = FALSE THEN FALSE
  ELSE IF live.connected = TRUE /\ live.tracking # None THEN live.tracking ELSE stored.tracking

Status(telescope, live) ==
  [type |-> "telescope_status", oid |-> telescope.oid,
   connection_state |-> ConnectionState(telescope.state, live),
   tracking_enabled |-> TrackingEnabled(telescope.state, live),
   alpaca_live |-> live,
   capabilities |-> IF live = Disabled THEN {} ELSE live.supports]

\* read_live_telescope_snapshot and the merge.
Snapshot(q) ==
  /\ pc[q] = "live"
  /\ \E live \in Snapshots :
       frame' = [frame EXCEPT ![q] = Status(held[q], live)]
  /\ held' = [held EXCEPT ![q] = NoTelescope]
  /\ Goto(q, "send")
  /\ UNCHANGED <<page, repository>>

-----------------------------------------------------------------------------
(* The session, and the pollers. *)

\* accept() and the hello message.
Accept(s) ==
  /\ pc[s] = "new" /\ sock[s] \in {"connecting", "closing"}
  /\ Goto(s, "tick")
  /\ UNCHANGED <<page, repository, held, frame>>

Forget(q) == frame' = [frame EXCEPT ![q] = ErrorFrame] /\ UNCHANGED held

\* The frame leaves, towards a client that may be closing; a poller has its answer.
Send(q) ==
  /\ pc[q] = "send" /\ (q \in Sockets => sock[q] # "closed")
  /\ Goto(q, "tick") /\ Forget(q)
  /\ UNCHANGED <<page, repository>>

\* Mutant of SendFails: the error handler swallows the disconnect as well.
SendFailsRetried(s) ==
  /\ pc[s] = "send" /\ sock[s] \in {"closing", "closed"}
  /\ Goto(s, "tick") /\ Forget(s)
  /\ UNCHANGED <<page, repository>>

\* WebSocketDisconnect ends the session.
SendFails(s) ==
  /\ pc[s] = "send" /\ sock[s] \in {"closing", "closed"}
  /\ Goto(s, "off") /\ Forget(s)
  /\ UNCHANGED <<page, repository>>

QueryStep(q) ==
  Found(q) \/ NotFound(q) \/ Insert(q) \/ QueryFails(q) \/ Snapshot(q) \/ Send(q)

Next ==
  \/ \E s \in Sockets : Connect(s) \/ Opened(s) \/ Closed(s) \/ Accept(s) \/ SendFails(s)
  \/ ConnectThrows
  \/ Disconnect
  \/ PageLeft
  \/ \E q \in Queries : QueryStep(q)

Spec == Init /\ [][Next]_vars

\* A session goes on but for its snapshot, which needs a thread of the shared pool
\* (SnapshotsEnd): the event loop runs it, MongoDB's driver has timeouts.  A closing
\* socket gets its close event.
Fairness ==
  \A s \in Sockets :
    /\ WF_vars((pc[s] # "live" /\ QueryStep(s)) \/ SendFails(s))
    /\ WF_vars(sock[s] = "closing" /\ Closed(s))

FairSpec == Spec /\ Fairness

-----------------------------------------------------------------------------
(* Properties. *)

Frames ==
  [type : {"error"}] \cup
  [type : {"telescope_status"}, oid : Nat, tracking_enabled : BOOLEAN,
   connection_state : {"connected", "disconnected"},
   alpaca_live : AllSnapshots \cup {Disabled},
   capabilities : SUBSET {"slew", "sync", "tracking"}]

TypeOK ==
  /\ ref \in Sockets \cup {None}
  /\ ui \in {"off", "connecting", "open", "error"}
  /\ sock \in [Sockets -> {"unused", "connecting", "open", "closing", "closed"}]
  /\ stale \in BOOLEAN
  /\ docs \subseteq Telescopes
  /\ settled \subseteq docs
  /\ clock \in [news : 0..MaxNew, millis : Nat]
  /\ pc \in [Queries -> Locations]
  /\ held \in [Queries -> Telescopes]
  /\ frame \in [Queries -> Frames]

\* The contract of telescope_status_contract.py, and what MCP clients rely on: a
\* mount that cannot be reached offers no capability.
Contract(status) ==
  LET live == status.alpaca_live
  IN  live # Disabled =>
        /\ ~live.reachable => status.connection_state = "disconnected" /\ status.capabilities = {}
        /\ live.reachable /\ live.connected =>
             /\ status.connection_state = "connected"
             /\ live.tracking # None => status.tracking_enabled = live.tracking
        /\ live.reachable /\ ~live.connected =>
             status.connection_state = "disconnected" /\ ~status.tracking_enabled

\* Every status about to be sent, from whatever stored state and snapshot it was
\* merged, keeps the contract of telescope_status_contract.py and is about a telescope
\* that is in the collection, also when several queries created one at once.
StatusIsSound ==
  \A q \in Queries :
    pc[q] = "send" /\ frame[q].type = "telescope_status" =>
      /\ Contract(frame[q])
      /\ \E t \in docs : t.oid = frame[q].oid

\* Queries that raced to create the telescope may each have answered with their own;
\* but when the last insert of that race is done, the records find_one may return are
\* settled for good - several of them only if they were created in one millisecond.
PrimarySettles == settled # {} => Primary = settled

\* The page is in control of its connection until a close event hits the socket after
\* the one it is about: up to then every live socket is the one Disconnect would
\* close, and the page does not show "off" while a socket is live.
PageInControl ==
  ~stale => \A s \in Sockets : Live(s) => ref = s /\ ui # "off"

\* Neither MongoDB nor the mount can end a session: as long as its socket is open it
\* goes on.
StreamSurvives ==
  [][\A s \in Sockets :
       pc[s] \notin {"new", "off"} /\ sock[s] = "open" => pc'[s] # "off"]_vars

\* Each snapshot gets a thread and ends: its calls have timeouts, but the pool it
\* shares with lookups that have none may be full of those (McpContext).
SnapshotsEnd == \A s \in Sockets : []<>(pc[s] # "live")

\* A session does not outlive its socket for ever, whatever fails in its queries.  It
\* may go on sending to a socket that is closing, but a send after the close event
\* ends it.  Only a snapshot that never gets a thread keeps it.
SessionEnds ==
  SnapshotsEnd => \A s \in Sockets :
    sock[s] \in {"closing", "closed"} ~> pc[s] \in {"new", "off"}
==============================================================================
