--------------------------- MODULE InferenceLedger ---------------------------
(***************************************************************************)
(* What the inference round trip promises, whatever is lost, repeated,     *)
(* reordered or restarted: results are produced of accepted requests only, *)
(* the record of a request is one of its own results and never disappears, *)
(* and a client is given the record as it stands, once.                    *)
(***************************************************************************)
CONSTANTS
  Requests,  \* request ids
  Results,   \* results, each with the id of its request
  NoResult   \* no record, no answer

VARIABLES
  accepted,  \* requests a client got a 200 for
  produced,  \* results published so far
  store,     \* the record of each request
  answer     \* what the client waiting for it was given

vars == <<accepted, produced, store, answer>>

Init ==
  /\ accepted = {} /\ produced = {}
  /\ store = [r \in Requests |-> NoResult]
  /\ answer = [r \in Requests |-> NoResult]

Accept(r) ==
  /\ r \notin accepted
  /\ accepted' = accepted \cup {r}
  /\ UNCHANGED <<produced, store, answer>>

\* One result, or the several a producer flushes when it stops.
Produce ==
  /\ produced \subseteq produced'
  /\ \A result \in produced' \ produced : result \in Results /\ result.id \in accepted
  /\ UNCHANGED <<accepted, store, answer>>

Record(result) ==
  /\ result \in produced
  /\ store' = [store EXCEPT ![result.id] = result]
  /\ UNCHANGED <<accepted, produced, answer>>

Answer(r) ==
  /\ store[r] # NoResult /\ answer[r] = NoResult
  /\ answer' = [answer EXCEPT ![r] = store[r]]
  /\ UNCHANGED <<accepted, produced, store>>

Next ==
  \/ \E r \in Requests : Accept(r) \/ Answer(r)
  \/ Produce
  \/ \E result \in produced : Record(result)

Spec == Init /\ [][Next]_vars
=============================================================================
