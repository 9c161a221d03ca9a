-------------------------------- MODULE McpPlan --------------------------------
(***************************************************************************)
(* The MCP surface of the HTTP API (application/api/telescope/handlers.py) *)
(* as operators: the tool manifest, the effective manifest gated by the    *)
(* capabilities of a status query, the execution plan, and the token gate  *)
(* of the command endpoints.  Descriptions, purposes and the planning      *)
(* guide are text without effect.                                          *)
(***************************************************************************)
EXTENDS Integers, Sequences

Slew     == "telescope.slew_icrs"
SyncTool == "telescope.sync_icrs"
Tracking == "telescope.set_tracking"
Nudge    == "telescope.nudge_equatorial"

CommandTools == {Slew, SyncTool, Tracking, Nudge}
ReadTools ==
  {"telescope.get_status", "telescope.get_context", "telescope.get_site_weather",
   "telescope.get_mount_icrs_equatorial", "telescope.get_command_audit",
   "model.enqueue_inference", "model.get_inference_status",
   "model.wait_inference_result", "model.enqueue_and_wait_inference"}
Tools == CommandTools \cup ReadTools

\* The flags of TelescopeCapabilitiesSchema.
Flags == {"supports_slew", "supports_sync", "supports_tracking"}

RequiredCapability(tool) ==
  CASE tool \in {Slew, Nudge} -> {"supports_slew"}
    [] tool = SyncTool        -> {"supports_sync"}
    [] tool = Tracking        -> {"supports_tracking"}
    [] OTHER                  -> {}

-----------------------------------------------------------------------------
(* COMMAND_AUTH_TOKEN: unset or empty, only blanks, or a secret; and what a    *)
(* client sends in X-Command-Token.                                            *)

ServerTokens == {"unset", "blank", "secret"}
ClientTokens == {"none", "secret", "wrong"}

\* Mutant of TokenAccepted: a request without the header is not compared.
TokenAcceptedIfAbsent(configured, given) ==
  configured \in {"unset", "blank"} \/ given \in {"none", configured}

\* _require_command_auth, which takes a blank token for none.
TokenAccepted(configured, given) ==
  configured \in {"unset", "blank"} \/ given = configured

\* bool(config.command_auth_token), which does not.
TokenAnnounced(configured) == configured # "unset"

\* The tools of a manifest that requires the token.
ManifestTokenTools(configured) == IF TokenAnnounced(configured) THEN CommandTools ELSE {}

-----------------------------------------------------------------------------
(* Plans. *)

\* The capability flags when there is no status: none.
DefaultDisabled == {}

\* Mutant of EnabledTools: the flags of a manifest without status are all set.
EnabledToolsByDefault(supports) ==
  {tool \in Tools : supports = {} \/ RequiredCapability(tool) \subseteq supports}

\* The effective manifest, given the flags of the status query.
EnabledTools(supports) == {tool \in Tools : RequiredCapability(tool) \subseteq supports}

Modes == {"async", "sync"}

\* The order of the steps before any of them is left out.
BaselineFlow(mode) ==
  <<"telescope.get_status", "telescope.get_context", "telescope.get_site_weather">> \o
  (IF mode = "sync"
     THEN <<"model.enqueue_and_wait_inference">>
     ELSE <<"model.enqueue_inference", "model.get_inference_status",
            "model.wait_inference_result">>) \o
  <<"telescope.get_command_audit", "telescope.get_mount_icrs_equatorial",
    Nudge, Slew, SyncTool, Tracking>>

PlanStep(mode, supports, i) ==
  LET tool == BaselineFlow(mode)[i]
  IN  [step |-> i, tool |-> tool, enabled |-> tool \in EnabledTools(supports)]

\* include_disabled_commands = false leaves a disabled command out.
WithStep(plan, s, includeDisabled) ==
  IF includeDisabled \/ s.enabled \/ s.tool \notin CommandTools THEN Append(plan, s) ELSE plan

\* A plan keeps the numbers of the baseline.  Its last four steps are the commands, the
\* only ones that can be left out.
ExecutionPlan(mode, includeDisabled, supports) ==
  LET n == Len(BaselineFlow(mode))
      Step(i) == PlanStep(mode, supports, i)
      Then(plan, i) == WithStep(plan, Step(i), includeDisabled)
  IN  Then(Then(Then(Then([i \in 1..(n - 4) |-> Step(i)], n - 3), n - 2), n - 1), n)

==============================================================================
