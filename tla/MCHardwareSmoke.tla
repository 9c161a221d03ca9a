---------------------------- MODULE MCHardwareSmoke ----------------------------
(* An instance of HardwareSmoke for TLC. *)
EXTENDS HardwareSmoke, TLC

\* Server slots are interchangeable.
Symmetry == Permutations(Clients)

CommandRun ==
  [validation_only |-> TRUE, include_commands |-> TRUE, override |-> TRUE,
   strict |-> TRUE, token |-> "secret", configured |-> "secret"]

\* A command run with the token, one without it, one against a backend with a blank
\* token, one that is gated by readiness, and a dry run.
MCSetups ==
  {CommandRun,
   [CommandRun EXCEPT !.token = "none"],
   [CommandRun EXCEPT !.configured = "blank", !.token = "none", !.strict = FALSE],
   [CommandRun EXCEPT !.override = FALSE],
   [CommandRun EXCEPT !.include_commands = FALSE, !.validation_only = FALSE]}
==============================================================================
