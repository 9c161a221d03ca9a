----------------------------- MODULE HardwareSmoke -----------------------------
(***************************************************************************)
(* The operator's preflight script (scripts/hardware_smoke_runner.py)      *)
(* against the telescope endpoints, while others poll the status.          *)
(*                                                                         *)
(* The script makes one HTTP call after the other: read-only checks, then, *)
(* if asked and not gated, a slew, a sync and a tracking command.  Every   *)
(* outcome of a call becomes a result and the next call follows.  A call   *)
(* is given up after 20 s; the backend knows nothing of it and goes on     *)
(* with the transaction, which the next calls then meet: a slew alone may  *)
(* take minutes.  The server side is TelescopeControl; MCP clients that    *)
(* ask for an execution plan make status queries as well.                  *)
(***************************************************************************)
EXTENDS TelescopeControl, McpPlan

CONSTANTS
  Setups,       \* the command lines and backend tokens considered
  Target,       \* the position of the slew and the sync
  MaxMishaps,   \* bound: calls given up, not getting through or without MongoDB
  MaxOthers     \* bound: status queries of others

AllOptions == [validation_only : BOOLEAN, include_commands : BOOLEAN,
               override : BOOLEAN, strict : BOOLEAN, token : ClientTokens,
               configured : ServerTokens]

ASSUME SmokeAssumption ==
  /\ Setups \subseteq AllOptions
  /\ Target \in Positions
  /\ MaxMishaps \in Nat /\ MaxOthers \in Nat

VARIABLES
  options,     \* the command line, and the COMMAND_AUTH_TOKEN of the backend
  phase,       \* "reads", "commands", "report" or "done"
  todo,        \* the checks still to make
  waiting,     \* the request whose answer is awaited, or 0
  green,       \* every check made so far has passed
  acks,        \* [op, code, id] of the command checks made
  exit,        \* the exit code
  mishaps,     \* calls that went wrong on the way so far
  others,      \* status queries of others so far
  reports,     \* the capability flags status queries were answered with (history)
  met          \* commands whose transaction met another one (history)

runner  == <<options, phase, todo, waiting, green, acks, exit, mishaps>>
answers == <<reports, met>>
smokeVars == <<vars, runner, others, answers>>

-----------------------------------------------------------------------------
\* Endpoints whose payload is a constant, one that passes the script's assertions.
StaticChecks == {"readiness", "smoke_plan", "validation_plan", "overview"}
PlanChecks   == {"bootstrap", "execution_plan"}
StatusChecks == {"status", "capabilities"}
CommandOps   == {"slew", "sync", "tracking"}

ReadOnlyChecks(o) ==
  <<"readiness">> \o
  (IF o.validation_only THEN <<>> ELSE <<"smoke_plan">>) \o
  <<"validation_plan", "overview", "bootstrap", "execution_plan",
    "status", "capabilities", "audit">>

CommandChecks == <<"slew", "sync", "tracking">>

\* The hardware/readiness payload is a constant.
RequiresRealTelescopeNow == FALSE

SmokeInit ==
  /\ Init
  /\ options \in Setups
  /\ phase = "reads" /\ todo = ReadOnlyChecks(options)
  /\ waiting = 0 /\ green = TRUE /\ acks = <<>> /\ exit = "none" /\ mishaps = 0
  /\ others = 0
  /\ reports = {}
  /\ met = {}

-----------------------------------------------------------------------------
(* The backend. *)

\* The flags of _snapshot_from_driver: CanSlew, CanSync and CanSetTracking.
Reported(snapshotFailed) ==
  IF snapshotFailed THEN DefaultDisabled
  ELSE {f \in Flags : \/ f = "supports_slew" /\ "slew" \in mount.can
                      \/ f = "supports_sync" /\ "sync" \in mount.can
                      \/ f = "supports_tracking" /\ "tracking" \in mount.can}

StatusEnding  == {c \in Clients : pc[c] = "close" /\ cmd[c].op = "status"}
CommandEnding == {c \in Clients : pc[c] = "close" /\ cmd[c].op # "status"}

\* A step of a request; its last one answers it.
Serve(c) ==
  /\ Transaction(c) \/ Handler(c)
  /\ reports' = reports \cup {Reported(failed[d]) : d \in {c} \cap StatusEnding}
  /\ met' = met \cup {cmd[d].id : d \in {c} \cap overlapped \cap CommandEnding}
  /\ UNCHANGED <<runner, others>>

\* list_command_audits: the newest records first.
AuditListing(limit) ==
  LET n == IF limit < Len(audits) THEN limit ELSE Len(audits)
  IN  [i \in 1..n |-> audits[Len(audits) + 1 - i]]

\* The dashboard, or an MCP client that asks for a plan.
OtherAsks(c) ==
  /\ others < MaxOthers
  /\ Request(c) /\ cmd'[c].op = "status"
  /\ others' = others + 1
  /\ UNCHANGED <<runner, answers>>

-----------------------------------------------------------------------------
(* The script. *)

\* The check the script is at, none of it having been sent yet.
At(checks) == todo # <<>> /\ waiting = 0 /\ Head(todo) \in checks

\* Mutant of Concludes: the newest result is put first.
ConcludesNewestFirst(code) ==
  /\ green' = (green /\ code = "200")
  /\ acks' = IF phase = "reads" THEN acks
             ELSE <<[op |-> Head(todo), code |-> code, id |-> waiting]>> \o acks
  /\ todo' = Tail(todo)
  /\ waiting' = 0
  /\ UNCHANGED <<options, phase, exit>>

\* _run_check: whatever became of the call is a result.
Concludes(code) ==
  /\ green' = (green /\ code = "200")
  /\ acks' = IF phase = "reads" THEN acks
             ELSE Append(acks, [op |-> Head(todo), code |-> code, id |-> waiting])
  /\ todo' = Tail(todo)
  /\ waiting' = 0
  /\ UNCHANGED <<options, phase, exit>>

\* Endpoints that touch no device; the audit listing needs MongoDB.
StaticCheck ==
  /\ At(StaticChecks \cup {"audit"}) /\ Concludes("200")
  /\ UNCHANGED <<vars, mishaps, others, answers>>

Mishap == mishaps < MaxMishaps /\ mishaps' = mishaps + 1

\* A repository raises, before any snapshot: no listing, no status, a plan all the same.
RecordsUnavailable ==
  /\ Mishap
  /\ \/ At(PlanChecks) /\ Concludes("200")
     \/ At(StatusChecks \cup {"audit"}) /\ Concludes("503")
  /\ UNCHANGED <<vars, others, answers>>

Sends(c, op, argument) ==
  /\ Request(c) /\ cmd'[c].op = op /\ cmd'[c].target = argument
  /\ waiting' = next
  /\ UNCHANGED <<options, phase, todo, green, acks, exit, mishaps, others, answers>>

StatusCheck(c) ==
  /\ At(PlanChecks \cup StatusChecks)
  /\ Sends(c, "status", 0)

CommandCheck(c) ==
  /\ At(CommandOps) /\ TokenAccepted(options.configured, options.token)
  /\ Sends(c, Head(todo), IF Head(todo) = "tracking" THEN 1 ELSE Target)

Unauthorized ==
  /\ At(CommandOps) /\ ~TokenAccepted(options.configured, options.token)
  /\ Concludes("401")
  /\ UNCHANGED <<vars, mishaps, others, answers>>

\* Mutant of CodeOf: the outcome is reported as it is.
CodeOfRaw(verdict) == verdict

CodeOf(verdict) == IF verdict = "ok" THEN "200" ELSE verdict

Answered ==
  /\ waiting # 0 /\ outcome[waiting] # "none"
  /\ Concludes(CodeOf(outcome[waiting]))
  /\ UNCHANGED <<vars, mishaps, others, answers>>

\* The call does not get through, or 20 s pass without an answer.
Lost ==
  /\ todo # <<>> /\ Mishap
  /\ Concludes("error")
  /\ UNCHANGED <<vars, others, answers>>

\* A readiness check that failed counts as "not required" as well.
Gated == ~RequiresRealTelescopeNow /\ ~options.override

\* After the read-only checks.
Gate ==
  /\ phase = "reads" /\ todo = <<>>
  /\ \/ ~options.include_commands
        /\ phase' = "report" /\ UNCHANGED <<todo, green>>
     \/ /\ options.include_commands /\ Gated
        /\ phase' = "report" /\ green' = FALSE /\ UNCHANGED todo
     \/ /\ options.include_commands /\ ~Gated
        /\ phase' = "commands" /\ todo' = CommandChecks /\ UNCHANGED green
  /\ UNCHANGED <<options, waiting, acks, exit, mishaps, vars, others, answers>>

\* Mutant of ExitCode: the last check decides.
ExitCodeOfLast ==
  IF options.strict /\ acks # <<>> /\ acks[Len(acks)].code # "200" THEN "1" ELSE "0"

ExitCode == IF options.strict /\ ~green THEN "1" ELSE "0"

\* Report and notes are written and the script ends.
Report ==
  /\ todo = <<>> /\ phase \in {"commands", "report"}
  /\ phase' = "done" /\ exit' = ExitCode
  /\ UNCHANGED <<options, todo, waiting, green, acks, mishaps, vars, others, answers>>

\* The script is done and the requests it left behind have ended.
Ended ==
  /\ phase = "done" /\ \A c \in Clients : pc[c] = "idle"
  /\ ~mount.slewing
  /\ UNCHANGED smokeVars

SmokeNext ==
  \/ \E c \in Clients : Serve(c) \/ StatusCheck(c) \/ CommandCheck(c) \/ OtherAsks(c)
  \/ MountArrives /\ UNCHANGED <<runner, others, answers>>
  \/ StaticCheck
  \/ RecordsUnavailable
  \/ Unauthorized
  \/ Answered
  \/ Lost
  \/ Gate
  \/ Report
  \/ Ended

SmokeSpec == SmokeInit /\ [][SmokeNext]_smokeVars

-----------------------------------------------------------------------------
(* Properties. *)

Checks == StaticChecks \cup PlanChecks \cup StatusChecks \cup CommandOps \cup {"audit"}

SmokeTypeOK ==
  /\ TypeOK
  /\ options \in AllOptions
  /\ phase \in {"reads", "commands", "report", "done"}
  /\ todo \in Seq(Checks) /\ waiting \in Ids \cup {0}
  /\ green \in BOOLEAN
  /\ acks \in Seq([op : CommandOps, id : Ids \cup {0},
                     code : {"200", "401", "500", "502", "error"}])
  /\ exit \in {"none", "0", "1"}
  /\ mishaps \in 0..MaxMishaps /\ others \in 0..MaxOthers
  /\ reports \subseteq SUBSET Flags /\ met \subseteq Ids

\* "It executes only read-only checks unless --include-commands is explicitly set"
\* (hardware_smoke_runner.py:6): the mount obeys nothing unless commands were asked
\* for, the readiness gate was overridden, and the script knows the token of a
\* backend that checks one - however its calls are lost or overtaken.
MotionIsAuthorized ==
  moves # <<>> =>
    /\ options.include_commands /\ options.override
    /\ options.configured = "secret" => options.token = "secret"

Passed(i) == acks[i].code = "200"

\* What the report calls passed did happen, in the order it says: of two passed checks
\* the command of the earlier one stands before that of the later one both in what the
\* mount obeyed and in the audit records.
PassedInOrder ==
  \A log \in {moves, audits} : \A i, j \in {k \in 1..Len(acks) : Passed(k)} :
    i <= j => \E p, q \in 1..Len(log) :
                /\ p <= q /\ (p = q => i = j)
                /\ log[p].id = acks[i].id /\ log[q].id = acks[j].id

\* The evidence of a strict command run that ends with exit code 0 is complete: the
\* newest audit records are its three commands and the mount stands tracking at the
\* target, though status queries of others connected and disconnected it all along.
GreenRunIsClean ==
  exit = "0" /\ options.strict /\ options.include_commands =>
    LET listing == AuditListing(10)
    IN  /\ [i \in 1..Len(listing) |-> listing[i].op] = <<"tracking", "sync", "slew">>
        /\ mount.pos = Target /\ mount.tracking = 1 /\ ~mount.slewing

Supports(tool) ==
  CASE tool \in {Slew, Nudge} -> mount.can \cap {"slew_async", "slew"} # {}
    [] tool = SyncTool        -> "sync" \in mount.can
    [] tool = Tracking        -> "tracking" \in mount.can

\* A plan never sends its reader into a command the adapter refuses for want of a
\* capability, whatever became of the snapshot it was made from and whichever plan is
\* asked for; a step is left out only if disabled, and the others keep their order.
PlanIsSafe ==
  \A supports \in reports : \A mode \in Modes : \A includeDisabled \in BOOLEAN :
    LET plan == ExecutionPlan(mode, includeDisabled, supports)
        Offers(tool) == \E i \in 1..Len(plan) : plan[i].tool = tool
    IN  /\ \A i \in 1..Len(plan) :
             plan[i].enabled /\ plan[i].tool \in CommandTools => Supports(plan[i].tool)
        /\ \A i, j \in 1..Len(plan) : i < j => plan[i].step < plan[j].step
        /\ \A tool \in CommandTools :
             RequiredCapability(tool) \subseteq supports => Offers(tool)

ToolOps(tools) ==
  {op \in CommandOps :
     \/ op = "slew" /\ Slew \in tools
     \/ op = "sync" /\ SyncTool \in tools
     \/ op = "tracking" /\ Tracking \in tools}

Missing(op) ==
  \/ op = "slew" /\ mount.can \cap {"slew_async", "slew"} = {}
  \/ op # "slew" /\ op \notin mount.can

\* With a sound mount and network, a command check that fails with a driver error
\* (502) before any other command check failed has one of two causes: the mount lacks
\* the capability, or another transaction - of another user, or of a check the script
\* had given up - met it.  A command check is refused (401) only if the manifest says
\* that its tool needs the token.
FirstFailureHasCause ==
  \A i \in 1..Len(acks) :
    /\ acks[i].code = "502" /\ (\A j \in 1..(i - 1) : Passed(j)) =>
         Missing(acks[i].op) \/ acks[i].id \in met
    /\ acks[i].code = "401" => acks[i].op \in ToolOps(ManifestTokenTools(options.configured))
==============================================================================
