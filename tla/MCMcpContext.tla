----------------------------- MODULE MCMcpContext -----------------------------
(* An instance of McpContext for TLC. *)
EXTENDS McpContext

\* Everything on; everything off or without its key.
MCConfigs ==
  {[alpaca |-> TRUE, catalog |-> TRUE, ephemeris |-> TRUE, weather |-> "openweather"],
   [alpaca |-> FALSE, catalog |-> FALSE, ephemeris |-> FALSE, weather |-> "none"],
   [alpaca |-> TRUE, catalog |-> TRUE, ephemeris |-> FALSE, weather |-> "no_key"]}

\* Contexts with everything and with the parameters incomplete, and the catalog alone.
MCRequests ==
  {[kind |-> "context", catalog |-> "yes", ephemeris |-> "yes", weather |-> "yes"],
   [kind |-> "context", catalog |-> "no", ephemeris |-> "no_obstime", weather |-> "partial"],
   [kind |-> "catalog", catalog |-> "yes", ephemeris |-> "no", weather |-> "no"],
   [kind |-> "catalog", catalog |-> "blank", ephemeris |-> "no", weather |-> "no"],
   [kind |-> "ephemeris", catalog |-> "no", ephemeris |-> "yes", weather |-> "no"],
   [kind |-> "weather", catalog |-> "no", ephemeris |-> "no", weather |-> "yes"]}
==============================================================================
