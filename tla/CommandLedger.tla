---------------------------- MODULE CommandLedger ----------------------------
(***************************************************************************)
(* What telescope commands promise, whatever overlaps, fails or times out: *)
(* the mount obeys a command at most once, an event is published only of a *)
(* command it obeyed, a record is written only of a published one, a       *)
(* moved command is reported as a success only with its record, and after  *)
(* the verdict nothing more happens to the command.                        *)
(***************************************************************************)
CONSTANT Ids  \* the commands

VARIABLES
  moved,      \* commands the mount obeyed
  published,  \* commands with an event
  recorded,   \* commands with an audit record
  verdict     \* what the client was told: "none", "ok" or "error"

vars == <<moved, published, recorded, verdict>>

Init ==
  /\ moved = {} /\ published = {} /\ recorded = {}
  /\ verdict = [id \in Ids |-> "none"]

Pending(id) == verdict[id] = "none"

Move(id) ==
  /\ Pending(id) /\ id \notin moved
  /\ moved' = moved \cup {id}
  /\ UNCHANGED <<published, recorded, verdict>>

Publish(id) ==
  /\ Pending(id) /\ id \in moved \ published
  /\ published' = published \cup {id}
  /\ UNCHANGED <<moved, recorded, verdict>>

\* The verdict, with the record of a published command or without it.
Conclude(id, answer) ==
  /\ Pending(id)
  /\ verdict' = [verdict EXCEPT ![id] = answer]
  /\ \/ UNCHANGED recorded
     \/ id \in published \ recorded /\ recorded' = recorded \cup {id}
  /\ answer = "ok" /\ id \in moved => id \in recorded'
  /\ UNCHANGED <<moved, published>>

Next ==
  \E id \in Ids :
    \/ Move(id)
    \/ Publish(id)
    \/ \E answer \in {"ok", "error"} : Conclude(id, answer)

Spec == Init /\ [][Next]_vars
=============================================================================
