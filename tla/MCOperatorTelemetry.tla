-------------------------- MODULE MCOperatorTelemetry --------------------------
(* An instance of OperatorTelemetry for TLC. *)
EXTENDS OperatorTelemetry

MCSockets == 1..2

\* One old record, with a state an entity setter may have left.
MCOldRecords ==
  {[oid |-> 9, created |-> 0, state |-> [connection |-> "connected", tracking |-> TRUE]]}

\* Unreachable; linked and tracking or not; reachable but not connected.
MCSnapshots ==
  {[reachable |-> FALSE, connected |-> None, tracking |-> None, supports |-> {}],
   [reachable |-> TRUE, connected |-> TRUE, tracking |-> FALSE, supports |-> {"slew"}],
   [reachable |-> TRUE, connected |-> FALSE, tracking |-> None, supports |-> {"slew"}]}
==============================================================================
