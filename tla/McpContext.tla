------------------------------ MODULE McpContext ------------------------------
(***************************************************************************)
(* The MCP context endpoint, which collects a telescope status, a catalog  *)
(* position, an ephemeris and a weather observation and turns whatever     *)
(* fails into a warning, and the endpoints that ask one of the last three  *)
(* alone (application/api/telescope/handlers.py, with the query handlers   *)
(* and the adapters behind them).                                          *)
(*                                                                         *)
(* All of them share one event loop and one thread pool.  A snapshot of    *)
(* the mount waits for its thread however long that takes; a catalog       *)
(* lookup is given up after a timeout, but a thread that runs it keeps     *)
(* running it; an ephemeris is computed on the event loop itself, and      *)
(* nothing else runs meanwhile, no timeout either.                         *)
(***************************************************************************)
EXTENDS Naturals, Sequences, FiniteSets, SequencesExt

CONSTANTS
  Clients,      \* clients of the API, one request at a time each
  Workers,      \* threads of the default executor
  Configs,      \* the settings considered
  Requests,     \* the requests considered
  None,         \* no client, no result
  MaxAbandoned  \* bound: abandoned lookups, beyond which no request is made

AllConfigs == [alpaca : BOOLEAN, catalog : BOOLEAN, ephemeris : BOOLEAN,
               weather : {"none", "no_key", "openweather"}]

\* A designation may be blank, an ephemeris body lack its obstime_utc_iso, and a
\* latitude its longitude; an endpoint of one source has all it needs.
AllRequests ==
  [kind : {"context"}, catalog : {"no", "yes"}, ephemeris : {"no", "no_obstime", "yes"},
   weather : {"no", "partial", "yes"}] \cup
  [kind : {"catalog"}, catalog : {"blank", "yes"}, ephemeris : {"no"}, weather : {"no"}] \cup
  [kind : {"ephemeris"}, catalog : {"no"}, ephemeris : {"yes"}, weather : {"no"}] \cup
  [kind : {"weather"}, catalog : {"no"}, ephemeris : {"no"}, weather : {"yes"}]

ASSUME ContextAssumption ==
  /\ None \notin Clients /\ None \notin {"ok", "unresolved"}
  /\ Workers \in Nat \ {0}
  /\ Configs \subseteq AllConfigs
  /\ Requests \subseteq AllRequests /\ Requests # {}
  /\ MaxAbandoned \in Nat

VARIABLES
  config,    \* the settings
  pc,        \* where the request of each client is
  request,   \* its parameters
  found,     \* the sources that have answered it
  warnings,  \* [source, why] for those that could not
  code,      \* its status code, or "none"
  pool,      \* submitted jobs, oldest first: [for, kind]; the first Workers run
  answer     \* what its job in the pool returned, not yet taken up, or None

vars == <<config, pc, request, found, warnings, code, pool, answer>>

\* A coroutine at one of these has the event loop until it awaits something.
Synchronous == {"to_catalog", "to_ephemeris", "computing", "to_weather"}
Awaiting    == {"status", "snapshot", "catalog", "weather"}

LoopFree(c) == \A d \in Clients \ {c} : pc[d] \notin Synchronous

Init ==
  /\ config \in Configs
  /\ pc = [c \in Clients |-> "idle"]
  /\ request \in [Clients -> {CHOOSE r \in Requests : TRUE}]
  /\ found = [c \in Clients |-> {}] /\ warnings = [c \in Clients |-> <<>>]
  /\ code = [c \in Clients |-> "none"]
  /\ pool = <<>> /\ answer = [c \in Clients |-> None]

-----------------------------------------------------------------------------
(* Requests and how a source ends. *)

Abandoned == {i \in DOMAIN pool : pool[i].for = None}

First == [context |-> "status", catalog |-> "to_catalog",
          ephemeris |-> "to_ephemeris", weather |-> "to_weather"]
After == [status |-> "to_catalog", catalog |-> "to_ephemeris",
          ephemeris |-> "to_weather", weather |-> "idle"]

\* Mutant of Ask: the warnings of the request before are still there.
AskAgain(c) ==
  /\ pc[c] = "idle" /\ LoopFree(c) /\ Cardinality(Abandoned) <= MaxAbandoned
  /\ \E r \in Requests :
       /\ request' = [request EXCEPT ![c] = r]
       /\ pc' = [pc EXCEPT ![c] = First[r.kind]]
  /\ found' = [found EXCEPT ![c] = {}]
  /\ code' = [code EXCEPT ![c] = "none"]
  /\ UNCHANGED <<config, warnings, pool, answer>>

Ask(c) ==
  /\ pc[c] = "idle" /\ LoopFree(c) /\ Cardinality(Abandoned) <= MaxAbandoned
  /\ \E r \in Requests :
       /\ request' = [request EXCEPT ![c] = r]
       /\ pc' = [pc EXCEPT ![c] = First[r.kind]]
  /\ found' = [found EXCEPT ![c] = {}]
  /\ warnings' = [warnings EXCEPT ![c] = <<>>]
  /\ code' = [code EXCEPT ![c] = "none"]
  /\ UNCHANGED <<config, pool, answer>>

\* What an endpoint of one source answers an exception with.
HttpCode == [disabled |-> "503", timeout |-> "504", unresolved |-> "404",
             unsupported |-> "400", unavailable |-> "502"]

\* On to the next source, or the reply of an endpoint of one source.
Goes(c, source, single) ==
  LET next == IF request[c].kind = "context" THEN After[source] ELSE "idle"
  IN  /\ pc' = [pc EXCEPT ![c] = next]
      /\ code' = [code EXCEPT ![c] =
                    IF request[c].kind # "context" THEN single
                    ELSE IF next = "idle" THEN "200" ELSE "none"]
      /\ UNCHANGED <<config, request>>

Finds(c, source) ==
  /\ found' = [found EXCEPT ![c] = @ \cup {source}]
  /\ Goes(c, source, "200") /\ UNCHANGED warnings

\* Mutant of Warns: an unresolved designation is no reason to warn.
WarnsSelectively(c, source, why) ==
  /\ warnings' = IF why = "unresolved" THEN warnings
                 ELSE [warnings EXCEPT ![c] = Append(@, [source |-> source, why |-> why])]
  /\ Goes(c, source, IF why \in DOMAIN HttpCode THEN HttpCode[why] ELSE "none")
  /\ UNCHANGED found

\* A warning of the context; an error of the other endpoints.
Warns(c, source, why) ==
  /\ warnings' = [warnings EXCEPT ![c] = Append(@, [source |-> source, why |-> why])]
  /\ Goes(c, source, IF why \in DOMAIN HttpCode THEN HttpCode[why] ELSE "none")
  /\ UNCHANGED found

Skips(c, source) == Goes(c, source, "none") /\ UNCHANGED <<found, warnings>>

Moves(c, location) ==
  pc' = [pc EXCEPT ![c] = location] /\ UNCHANGED <<config, request, found, warnings, code>>

\* asyncio.to_thread
Submits(c, kind) == pool' = Append(pool, [for |-> c, kind |-> kind]) /\ UNCHANGED answer

NoPool == UNCHANGED <<pool, answer>>

Collects(c) == answer' = [answer EXCEPT ![c] = None] /\ UNCHANGED pool

-----------------------------------------------------------------------------
(* The status, of the context endpoint only. *)

\* Without Alpaca there is no snapshot to wait for.
Status(c) ==
  /\ pc[c] = "status"
  /\ \/ Warns(c, "status", "infra_unavailable") /\ NoPool
     \/ ~config.alpaca /\ Finds(c, "status") /\ NoPool
     \/ config.alpaca /\ Moves(c, "snapshot") /\ Submits(c, "snapshot")

\* An unreachable mount is a snapshot as well.
SnapshotTaken(c) ==
  pc[c] = "snapshot" /\ answer[c] # None /\ Finds(c, "status") /\ Collects(c)

-----------------------------------------------------------------------------
(* The catalog: resolve_common_name. *)

LookUp(c) ==
  LET asked == request[c].catalog
  IN  /\ pc[c] = "to_catalog"
      /\ \/ asked = "no" /\ Skips(c, "catalog") /\ NoPool
         \/ asked # "no" /\ ~config.catalog /\ Warns(c, "catalog", "disabled") /\ NoPool
         \/ asked = "blank" /\ config.catalog /\ Warns(c, "catalog", "unresolved") /\ NoPool
         \/ asked = "yes" /\ config.catalog /\ Moves(c, "catalog") /\ Submits(c, "lookup")

LookupReturns(c) ==
  /\ pc[c] = "catalog"
  /\ \/ answer[c] = "ok" /\ Finds(c, "catalog")
     \/ answer[c] = "unresolved" /\ Warns(c, "catalog", "unresolved")
  /\ Collects(c)

\* Mutant of GivenUp: a lookup that still waits for a thread stays in the pool.
GivenUpLater(c) == [i \in DOMAIN pool |-> IF pool[i].for = c THEN [pool[i] EXCEPT !.for = None]
                                          ELSE pool[i]]

\* The cancelled future of a job: one that waits for a thread never runs, one that runs
\* goes on for nobody.
GivenUp(c) ==
  LET Queued(i) == i > Workers /\ pool[i].for = c
  IN  IF \E i \in DOMAIN pool : Queued(i)
        THEN RemoveAt(pool, CHOOSE i \in DOMAIN pool : Queued(i))
        ELSE GivenUpLater(c)

\* Mutant of LookupTimesOut: the timeout starts with the thread.
LookupTimesOutRunning(c) ==
  /\ pc[c] = "catalog" /\ \A i \in DOMAIN pool : pool[i].for = c => i <= Workers
  /\ Warns(c, "catalog", "timeout")
  /\ pool' = GivenUp(c) /\ answer' = [answer EXCEPT ![c] = None]

\* wait_for: also when the result has arrived while the event loop was held up.
LookupTimesOut(c) ==
  /\ pc[c] = "catalog"
  /\ Warns(c, "catalog", "timeout")
  /\ pool' = GivenUp(c) /\ answer' = [answer EXCEPT ![c] = None]

-----------------------------------------------------------------------------
(* The ephemeris: apparent_equatorial, on the event loop. *)

Ephemeris(c) ==
  LET asked == request[c].ephemeris
  IN  /\ pc[c] = "to_ephemeris"
      /\ \/ asked = "no" /\ Skips(c, "ephemeris")
         \/ asked = "no_obstime" /\ Warns(c, "ephemeris", "missing_obstime")
         \/ asked = "yes" /\ ~config.ephemeris /\ Warns(c, "ephemeris", "disabled")
         \/ asked = "yes" /\ config.ephemeris /\ Moves(c, "computing")
      /\ NoPool

\* A body or an instant it does not know, or a kernel that cannot be loaded.
Computed(c) ==
  /\ pc[c] = "computing"
  /\ Finds(c, "ephemeris") \/ Warns(c, "ephemeris", "unsupported")
  /\ NoPool

-----------------------------------------------------------------------------
(* The weather: fetch_current_observation. *)

Weather(c) ==
  LET asked == request[c].weather
  IN  /\ pc[c] = "to_weather"
      /\ \/ asked = "no" /\ Skips(c, "weather")
         \/ asked = "partial" /\ Warns(c, "weather", "incomplete_coordinates")
         \/ asked = "yes" /\ config.weather = "none" /\ Warns(c, "weather", "disabled")
         \/ asked = "yes" /\ config.weather = "no_key" /\ Warns(c, "weather", "unavailable")
         \/ asked = "yes" /\ config.weather = "openweather" /\ Moves(c, "weather")
      /\ NoPool

\* The request fails or times out, the response is refused or not JSON - or it is JSON
\* of another shape than _normalize_payload expects, which no handler catches.
Observed(c) ==
  /\ pc[c] = "weather"
  /\ \/ Finds(c, "weather") \/ Warns(c, "weather", "unavailable")
     \/ /\ pc' = [pc EXCEPT ![c] = "idle"] /\ code' = [code EXCEPT ![c] = "500"]
        /\ UNCHANGED <<config, request, found, warnings>>
  /\ NoPool

-----------------------------------------------------------------------------
(* The thread pool. *)

Results == [snapshot |-> {"ok"}, lookup |-> {"ok", "unresolved"}]

ThreadEnds(i) ==
  /\ i \in DOMAIN pool /\ i <= Workers
  /\ pool' = RemoveAt(pool, i)
  /\ \E result \in Results[pool[i].kind] :
       answer' = [c \in Clients |-> IF c = pool[i].for THEN result ELSE answer[c]]
  /\ UNCHANGED <<config, pc, request, found, warnings, code>>

Coroutine(c) ==
  /\ LoopFree(c)
  /\ \/ Status(c) \/ SnapshotTaken(c) \/ LookUp(c) \/ LookupReturns(c) \/ LookupTimesOut(c)
     \/ Ephemeris(c) \/ Computed(c) \/ Weather(c) \/ Observed(c)

Next ==
  \/ \E c \in Clients : Ask(c) \/ Coroutine(c)
  \/ \E i \in 1..Workers : ThreadEnds(i)

Spec == Init /\ [][Next]_vars

\* The event loop runs what is ready in turn; MongoDB, the weather request and the calls
\* to the driver have timeouts.  A lookup (from_name) may never end.
Fairness ==
  \A c \in Clients :
    /\ SF_vars(Coroutine(c))
    /\ WF_vars(\E i \in 1..Workers :
                 /\ i \in DOMAIN pool /\ pool[i] = [for |-> c, kind |-> "snapshot"]
                 /\ ThreadEnds(i))

FairSpec == Spec /\ Fairness

-----------------------------------------------------------------------------
(* Properties. *)

Sources == {"status", "catalog", "ephemeris", "weather"}
Reasons == DOMAIN HttpCode \cup {"infra_unavailable", "missing_obstime", "incomplete_coordinates"}

TypeOK ==
  /\ config \in AllConfigs
  /\ pc \in [Clients -> {"idle"} \cup Synchronous \cup Awaiting]
  /\ request \in [Clients -> AllRequests]
  /\ found \in [Clients -> SUBSET Sources]
  /\ warnings \in [Clients -> Seq([source : Sources, why : Reasons])]
  /\ \A c \in Clients : Len(warnings[c]) <= Cardinality(Sources)
  /\ code \in [Clients -> {"none", "200", "500"} \cup {HttpCode[why] : why \in DOMAIN HttpCode}]
  /\ pool \in Seq([for : Clients \cup {None}, kind : {"snapshot", "lookup"}])
  /\ answer \in [Clients -> {None, "ok", "unresolved"}]

Asked(r) ==
  {source \in Sources :
     \/ source = "status" /\ r.kind = "context"
     \/ source = "catalog" /\ r.catalog # "no"
     \/ source = "ephemeris" /\ r.ephemeris # "no"
     \/ source = "weather" /\ r.weather # "no"}

Warned(c) == {warnings[c][i].source : i \in DOMAIN warnings[c]}

\* The context degrades source by source: its reply has, for every source it was asked
\* for and no other, either a target or one warning, whatever failed, timed out or was
\* abandoned before.  Nothing but the weather, the last source, can fail it as a whole,
\* and then every other source had been dealt with.
ContextDegrades ==
  \A c \in Clients :
    code[c] # "none" =>
      LET dealt == found[c] \cup Warned(c)
      IN  /\ found[c] \cap Warned(c) = {}
          /\ Len(warnings[c]) = Cardinality(Warned(c))
          /\ IF code[c] = "500"
               THEN dealt = Asked(request[c]) \ {"weather"} /\ request[c].weather = "yes"
               ELSE /\ dealt = Asked(request[c])
                    /\ request[c].kind # "context" => (code[c] = "200" <=> found[c] # {})

\* The pool works for those that wait: a queued job is one somebody awaits, so that
\* abandoned lookups hold threads but never a place in the queue; every request at an
\* await has either its one job in the pool or that job's result; and nothing that was
\* abandoned is left to be taken for the answer of a later request.
PoolServesWaiting ==
  /\ \A i \in DOMAIN pool : i > Workers => pool[i].for # None
  /\ \A i \in Abandoned : pool[i].kind = "lookup"
  /\ \A c \in Clients :
       LET mine == {i \in DOMAIN pool : pool[i].for = c}
       IN  IF pc[c] \in {"snapshot", "catalog"}
             THEN /\ Cardinality(mine) = IF answer[c] = None THEN 1 ELSE 0
                  /\ \A i \in mine : pool[i].kind = "snapshot" <=> pc[c] = "snapshot"
             ELSE mine = {} /\ answer[c] = None

\* Ephemeris computations end; not all threads are stuck in lookups for ever.
LoopComesFree    == []<>(\A c \in Clients : pc[c] # "computing")
ThreadsComeFree  == []<>(\E i \in 1..Workers :
                          i \in DOMAIN pool => pool[i].kind = "snapshot")

\* As long as no ephemeris computation holds the event loop for ever, a request leaves
\* its catalog lookup even if all threads are stuck in lookups; and unless they are, it
\* is answered.
RequestsEnd ==
  LoopComesFree =>
    /\ \A c \in Clients : pc[c] = "catalog" ~> pc[c] # "catalog"
    /\ ThreadsComeFree => \A c \in Clients : pc[c] # "idle" ~> pc[c] = "idle"
==============================================================================
