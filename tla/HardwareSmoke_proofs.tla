-------------------------- MODULE HardwareSmoke_proofs --------------------------
(* Theorems about HardwareSmoke, for every command line, every mount and target, *)
(* any number of overlapping requests and any number of calls that go wrong.     *)
EXTENDS HardwareSmoke, TelescopeControl_proofs, McpPlan_proofs

\* The server side by itself behaves as TelescopeControl, so that what is proved of
\* the one holds in the other: the script is one of its clients.
THEOREM ServerIsControl == SmokeSpec => Spec
<1>1. SmokeInit => Init
  BY DEF SmokeInit
<1>2. [SmokeNext]_smokeVars => [Next]_vars
  <2> SUFFICES ASSUME [SmokeNext]_smokeVars PROVE [Next]_vars
    OBVIOUS
  <2>1. ASSUME NEW c \in Clients, Serve(c) \/ StatusCheck(c) \/ CommandCheck(c) \/ OtherAsks(c)
        PROVE  Next
    BY <2>1 DEF Serve, StatusCheck, CommandCheck, OtherAsks, Sends, Next
  <2>2. CASE MountArrives
    BY <2>2 DEF Next
  <2>3. CASE StaticCheck \/ RecordsUnavailable \/ Unauthorized \/ Answered \/ Lost
    BY <2>3 DEF StaticCheck, RecordsUnavailable, Unauthorized, Answered, Lost
  <2>4. CASE Gate \/ Report \/ Ended \/ UNCHANGED smokeVars
    BY <2>4 DEF Gate, Report, Ended, smokeVars
  <2> QED
    BY <2>1, <2>2, <2>3, <2>4 DEF SmokeNext
<1> QED
  BY <1>1, <1>2, PTL DEF SmokeSpec, Spec

\* What is known of the server.
ServerInv == TypeOK /\ Arguments /\ ConnectionInv /\ RecordInv /\ MotionInv

LEMMA ServerHolds == SmokeSpec => []ServerInv
<1>1. Spec => []ServerInv
  BY TypesCorrect, ConnectionHolds, RecordHolds, MotionHolds, PTL DEF ServerInv
<1> QED
  BY <1>1, ServerIsControl, PTL

-----------------------------------------------------------------------------
(* Steps of the server, as far as the script can tell. *)

\* A step of a request that is on its way; its last one gives the answer.
LEMMA ServerStep ==
  ASSUME ServerInv, NEW c \in Clients, Transaction(c) \/ Handler(c)
  PROVE  /\ pc[c] # "idle" /\ Others(c) /\ next' = next
         /\ pc'[c] # "idle" => cmd'[c].id = cmd[c].id /\ cmd'[c].op = cmd[c].op
         /\ moves' = moves \/ (moves' = Append(moves, cmd[c]) /\ work[c] \in MotionWork)
         /\ audits' = audits \/ (audits' = Append(audits, cmd[c]) /\ pc[c] = "audit")
<1>0. TypeOK
  BY DEF ServerInv
<1>1. CASE Transaction(c)
  <2>1. /\ pc[c] # "idle" /\ Others(c) /\ next' = next /\ cmd' = cmd /\ audits' = audits
    BY <1>0, <1>1 DEF TypeOK, Others, Transaction, Connect, ConnectFails, Connected, NotConnected,
       CallFails, StartSlew, Sync, SetTracking, Refused, Read, Settled, SettleTimesOut,
       BlockingSlewReturns, Obeyed, Working, Raise, Goto, records, counts
  <2>2. moves' = moves \/ (moves' = Append(moves, cmd[c]) /\ work[c] \in MotionWork)
    BY <1>1 DEF Transaction, Connect, ConnectFails, Connected, NotConnected,
       CallFails, StartSlew, Sync, SetTracking, Refused, Read, Settled, SettleTimesOut,
       BlockingSlewReturns, Obeyed, Working, records, MotionWork
  <2> QED
    BY <2>1, <2>2
<1>2. CASE Handler(c)
  <2>1. /\ pc[c] # "idle" /\ Others(c) /\ next' = next /\ moves' = moves
    BY <1>0, <1>2 DEF TypeOK, Others, Handler, CloseFailed, CloseRead, CloseNudgeRead, CloseMoved,
       Publish, PublishFails, Audit, AuditFails, Ends, Goto, records, counts
  <2>2. pc'[c] # "idle" => cmd'[c].id = cmd[c].id /\ cmd'[c].op = cmd[c].op
    BY <1>0, <1>2 DEF TypeOK, Commands, Handler, CloseFailed, CloseRead, CloseNudgeRead, CloseMoved,
       Publish, PublishFails, Audit, AuditFails, Ends, Goto
  <2>3. audits' = audits \/ (audits' = Append(audits, cmd[c]) /\ pc[c] = "audit")
    BY <1>2 DEF Handler, CloseFailed, CloseRead, CloseNudgeRead, CloseMoved,
       Publish, PublishFails, Audit, AuditFails, records
  <2> QED
    BY <2>1, <2>2, <2>3
<1> QED
  BY <1>1, <1>2

LEMMA ServerAnswer ==
  ASSUME ServerInv, NEW c \in Clients, Transaction(c) \/ Handler(c), outcome' # outcome
  PROVE  /\ pc'[c] = "idle" /\ cmd[c].id \in Ids
         /\ \A id \in Ids \ {cmd[c].id} : outcome'[id] = outcome[id]
         /\ outcome'[cmd[c].id] = "ok" =>
              cmd[c].op \in {"read", "status"} \/ Audit(c)
         /\ outcome'[cmd[c].id] = "502" => CloseFailed(c)
<1>0. TypeOK /\ Requests
  BY DEF ServerInv, RecordInv
<1>1. \/ CloseFailed(c) \/ CloseRead(c) \/ PublishFails(c) \/ Audit(c) \/ AuditFails(c)
  BY DEF Transaction, Connect, ConnectFails, Connected, NotConnected, CallFails, StartSlew, Sync,
     SetTracking, Refused, Read, Settled, SettleTimesOut, BlockingSlewReturns, Obeyed,
     Handler, CloseNudgeRead, CloseMoved, Publish
<1>2. /\ pc[c] # "idle" /\ \E code \in {"ok", "500", "502"} :
         /\ Ends(c, code)
         /\ code = "ok" => cmd[c].op \in {"read", "status"} \/ Audit(c)
         /\ code = "502" => CloseFailed(c)
  BY <1>1 DEF CloseFailed, CloseRead, PublishFails, Audit, AuditFails
<1>3. cmd[c].id \in Ids
  BY <1>0, <1>2 DEF Requests
<1> QED
  BY <1>0, <1>2, <1>3 DEF TypeOK, Ends, Goto

LEMMA RequestMade ==
  ASSUME TypeOK, NEW c \in Clients, Request(c)
  PROVE  /\ pc[c] = "idle" /\ pc'[c] = "connect" /\ Others(c) /\ cmd'[c].id = next
         /\ next \in Ids /\ next' = next + 1 /\ failed' = failed
         /\ UNCHANGED <<mount, moves, events, audits, outcome, overlapped>>
<1>1. PICK op \in Ops : \E argument \in ArgumentsOf(op) :
        cmd' = [cmd EXCEPT ![c] = [id |-> next, op |-> op, target |-> argument]]
  BY DEF Request
<1>2. cmd'[c].id = next /\ \A d \in Clients \ {c} : cmd'[d] = cmd[d]
  BY <1>1 DEF TypeOK
<1>3. \A d \in Clients \ {c} : work'[d] = work[d]
  BY DEF TypeOK, Request
<1>4. next \in Ids
  BY ControlAssumption DEF TypeOK, Request, Ids
<1> QED
  BY <1>2, <1>3, <1>4 DEF TypeOK, Request, Others, Goto, records

-----------------------------------------------------------------------------
(* The course of the script. *)

AckCodes == {"200", "401", "500", "502", "error"}
Ack == [op : CommandOps, id : Ids \cup {0}, code : AckCodes]

ScriptTypes ==
  /\ options \in AllOptions
  /\ phase \in {"reads", "commands", "report", "done"}
  /\ todo \in Seq(Checks) /\ waiting \in Ids \cup {0}
  /\ green \in BOOLEAN
  /\ acks \in Seq(Ack)
  /\ exit \in {"none", "0", "1"}
  /\ mishaps \in 0..MaxMishaps /\ others \in 0..MaxOthers
  /\ reports \subseteq SUBSET Flags /\ met \subseteq Ids

\* Read-only checks first, then the command checks in their order, if at all.
Course ==
  /\ phase = "reads" => acks = <<>> /\ \A i \in 1..Len(todo) : todo[i] \notin CommandOps
  /\ phase = "commands" =>
       /\ options.include_commands /\ options.override /\ Len(acks) + Len(todo) = 3
       /\ \A i \in 1..Len(todo) : todo[i] = CommandChecks[Len(acks) + i]
  /\ phase = "report" => acks = <<>>
  /\ phase \in {"report", "done"} => todo = <<>>
  /\ Len(acks) <= 3 /\ \A i \in 1..Len(acks) : acks[i].op = CommandChecks[i]
  /\ waiting < next /\ (todo = <<>> => waiting = 0)

LEMMA ThreeCommands ==
  /\ Len(CommandChecks) = 3 /\ CommandChecks[1] = "slew" /\ CommandChecks[2] = "sync"
  /\ CommandChecks[3] = "tracking" /\ CommandChecks \in Seq(Checks)
  /\ \A i \in 1..3 : CommandChecks[i] \in CommandOps
BY DEF CommandChecks, CommandOps, Checks

LEMMA NextCheck ==
  ASSUME ScriptTypes, Course, todo # <<>>
  PROVE  /\ Len(todo) \in Nat \ {0} /\ Head(todo) = todo[1] /\ Head(todo) \in Checks
         /\ phase \in {"reads", "commands"}
         /\ phase = "reads" => Head(todo) \notin CommandOps
         /\ phase = "commands" => /\ Len(acks) < 3 /\ Head(todo) = CommandChecks[Len(acks) + 1]
                                  /\ Head(todo) \in CommandOps
<1>1. todo \in Seq(Checks) /\ acks \in Seq(Ack)
  BY DEF ScriptTypes
<1>2. Len(todo) \in Nat \ {0} /\ Head(todo) = todo[1] /\ Head(todo) \in Checks /\ Len(acks) \in Nat
  BY <1>1
<1>3. phase \in {"reads", "commands"}
  BY DEF ScriptTypes, Course
<1>4. phase = "reads" => Head(todo) \notin CommandOps
  BY <1>2 DEF Course
<1>5. ASSUME phase = "commands"
      PROVE  Len(acks) < 3 /\ Head(todo) = CommandChecks[Len(acks) + 1] /\ Head(todo) \in CommandOps
  <2>1. Len(acks) < 3 /\ Head(todo) = CommandChecks[Len(acks) + 1]
    BY <1>2, <1>5 DEF Course
  <2> QED
    BY <1>2, <2>1, ThreeCommands
<1> QED
  BY <1>2, <1>3, <1>4, <1>5

Concluding == StaticCheck \/ RecordsUnavailable \/ Unauthorized \/ Answered \/ Lost

\* What became of a call: of a command, an answer, a refusal or an error.
LEMMA Conclusions ==
  ASSUME ServerInv, ScriptTypes, Course, Concluding
  PROVE  /\ todo # <<>> /\ UNCHANGED <<vars, others, answers>> /\ mishaps' \in 0..MaxMishaps
         /\ \E code :
              /\ Concludes(code)
              /\ phase = "commands" =>
                   \/ code = "error"
                   \/ code = "401" /\ waiting = 0 /\ options.configured = "secret"
                   \/ /\ waiting # 0 /\ code = CodeOf(outcome[waiting])
                      /\ outcome[waiting] \in {"ok", "502", "500"}
<1>1. mishaps' \in 0..MaxMishaps
  BY SmokeAssumption DEF ScriptTypes, Concluding, StaticCheck, RecordsUnavailable, Unauthorized,
     Answered, Lost, Mishap
<1>2. todo # <<>> /\ UNCHANGED <<vars, others, answers>>
  BY DEF Course, Concluding, StaticCheck, RecordsUnavailable, Unauthorized,
     Answered, Lost, Mishap, At
<1>3. phase = "commands" => Head(todo) \in CommandOps
  BY <1>2, NextCheck
<1>4. CASE StaticCheck
  <2>1. Concludes("200") /\ phase # "commands"
    BY <1>3, <1>4 DEF StaticCheck, At, StaticChecks, CommandOps
  <2> QED
    BY <1>1, <1>2, <2>1
<1>5. CASE RecordsUnavailable
  <2>1. Concludes("200") \/ Concludes("503")
    BY <1>5 DEF RecordsUnavailable
  <2>2. phase # "commands"
    BY <1>3, <1>5 DEF RecordsUnavailable, At, PlanChecks, StatusChecks, CommandOps
  <2> QED
    BY <1>1, <1>2, <2>1, <2>2
<1>6. CASE Unauthorized
  <2>1. options.configured = "secret"
    BY <1>6 DEF Unauthorized, TokenAccepted, ScriptTypes, AllOptions, ServerTokens
  <2>2. Concludes("401") /\ waiting = 0
    BY <1>6 DEF Unauthorized, At
  <2> QED
    BY <1>1, <1>2, <2>1, <2>2
<1>7. CASE Answered
  <2> DEFINE code == CodeOf(outcome[waiting])
  <2>1. Concludes(code) /\ waiting # 0 /\ outcome[waiting] # "none"
    BY <1>7 DEF Answered
  <2>2. outcome[waiting] \in {"ok", "502", "500"}
    BY <2>1 DEF ScriptTypes, ServerInv, TypeOK
  <2> QED
    BY <1>1, <1>2, <2>1, <2>2
<1>8. CASE Lost
  <2>1. Concludes("error")
    BY <1>8 DEF Lost
  <2> QED
    BY <1>1, <1>2, <2>1
<1> QED
  BY <1>4, <1>5, <1>6, <1>7, <1>8 DEF Concluding

\* A conclusion takes the check from the list and, of a command, adds to the results.
LEMMA TodoShrinks ==
  ASSUME ScriptTypes, todo # <<>>, todo' = Tail(todo)
  PROVE  /\ todo' \in Seq(Checks) /\ Len(todo') \in Nat /\ Len(todo) = Len(todo') + 1
         /\ \A i \in 1..Len(todo') : todo'[i] = todo[i + 1]
<1>1. todo \in Seq(Checks)
  BY DEF ScriptTypes
<1> QED
  BY <1>1

LEMMA AcksGrow ==
  ASSUME acks \in Seq(Ack), NEW a \in Ack, acks' = Append(acks, a)
  PROVE  /\ acks' \in Seq(Ack) /\ Len(acks) \in Nat /\ Len(acks') = Len(acks) + 1
         /\ \A i \in 1..Len(acks) : acks'[i] = acks[i]
         /\ acks'[Len(acks) + 1] = a
OBVIOUS

ThisAck(code) == [op |-> Head(todo), code |-> code, id |-> waiting]

LEMMA Acked ==
  ASSUME ScriptTypes, Course, NEW code \in AckCodes, Concludes(code), todo # <<>>,
         phase = "commands"
  PROVE  /\ acks' \in Seq(Ack) /\ Len(acks) \in Nat /\ Len(acks') = Len(acks) + 1
         /\ \A i \in 1..Len(acks) : acks'[i] = acks[i]
         /\ acks'[Len(acks) + 1] = ThisAck(code)
         /\ ThisAck(code).op = CommandChecks[Len(acks) + 1] /\ ThisAck(code).op = Head(todo)
         /\ ThisAck(code).code = code /\ ThisAck(code).id = waiting
<1>1. Head(todo) \in CommandOps /\ Head(todo) = CommandChecks[Len(acks) + 1]
  BY NextCheck
<1>2. ThisAck(code) \in Ack /\ acks \in Seq(Ack)
  BY <1>1 DEF ThisAck, Ack, ScriptTypes
<1>3. acks' = Append(acks, ThisAck(code))
  BY DEF Concludes, ThisAck
<1>4. /\ ThisAck(code).op = Head(todo)
      /\ ThisAck(code).code = code /\ ThisAck(code).id = waiting
  BY DEF ThisAck
<1> HIDE DEF ThisAck
<1> QED
  BY <1>1, <1>2, <1>3, <1>4, AcksGrow

LEMMA CourseConcludes ==
  ASSUME ServerInv, ScriptTypes, Course, Concluding
  PROVE  ScriptTypes' /\ Course'
<1>1. /\ todo # <<>> /\ UNCHANGED <<vars, others, answers>> /\ mishaps' \in 0..MaxMishaps
      /\ next' = next
  BY Conclusions DEF vars, counts
<1>2. PICK code :
        /\ Concludes(code)
        /\ phase = "commands" =>
             \/ code = "error"
             \/ code = "401" /\ waiting = 0 /\ options.configured = "secret"
             \/ /\ waiting # 0 /\ code = CodeOf(outcome[waiting])
                /\ outcome[waiting] \in {"ok", "502", "500"}
  BY Conclusions
<1>3. phase = "commands" => code \in AckCodes
  BY <1>2 DEF AckCodes, CodeOf
<1>4. /\ todo' = Tail(todo) /\ waiting' = 0 /\ UNCHANGED <<options, phase, exit>>
      /\ green' \in BOOLEAN
  <2>1. todo' = Tail(todo) /\ waiting' = 0 /\ UNCHANGED <<options, phase, exit>>
    BY <1>2 DEF Concludes
  <2>2. green' \in BOOLEAN
    BY <1>2, Zenon DEF Concludes
  <2> QED
    BY <2>1, <2>2
<1>5. /\ todo' \in Seq(Checks) /\ Len(todo') \in Nat /\ Len(todo) = Len(todo') + 1
      /\ \A i \in 1..Len(todo') : todo'[i] = todo[i + 1]
  BY <1>1, <1>4, TodoShrinks
<1>6. CASE phase = "commands"
  <2>1. /\ acks' \in Seq(Ack) /\ Len(acks) \in Nat /\ Len(acks') = Len(acks) + 1
        /\ \A i \in 1..Len(acks) : acks'[i] = acks[i]
        /\ acks'[Len(acks) + 1].op = CommandChecks[Len(acks) + 1]
    BY <1>1, <1>2, <1>3, <1>6, Acked
  <2>2. ScriptTypes'
    BY <1>1, <1>4, <1>5, <2>1 DEF ScriptTypes, answers
  <2>3. /\ Len(acks) + Len(todo) = 3 /\ Len(acks) < 3
        /\ options.include_commands /\ options.override
        /\ \A i \in 1..Len(todo) : todo[i] = CommandChecks[Len(acks) + i]
        /\ \A i \in 1..Len(acks) : acks[i].op = CommandChecks[i]
    BY <1>1, <1>6, NextCheck DEF Course
  <2>4. ASSUME NEW i \in 1..Len(todo') PROVE todo'[i] = CommandChecks[Len(acks') + i]
    <3>1. i + 1 \in 1..Len(todo) /\ Len(acks) + (i + 1) = Len(acks') + i
      BY <1>5, <2>1
    <3>2. todo'[i] = todo[i + 1] /\ todo[i + 1] = CommandChecks[Len(acks) + (i + 1)]
      BY <1>5, <2>3, <3>1
    <3> QED
      BY <3>1, <3>2
  <2>5. Len(acks') + Len(todo') = 3 /\ Len(acks') <= 3
    BY <1>5, <2>1, <2>3
  <2>6. \A i \in 1..Len(acks') : acks'[i].op = CommandChecks[i]
    BY <2>1, <2>3
  <2>7. waiting' < next'
    BY <1>1, <1>4 DEF ServerInv, TypeOK
  <2> QED
    BY <1>4, <1>6, <2>2, <2>3, <2>4, <2>5, <2>6, <2>7 DEF Course
<1>7. CASE phase # "commands"
  <2>1. phase = "reads" /\ acks' = acks /\ acks = <<>> /\ \A i \in 1..Len(todo) : todo[i] \notin CommandOps
    <3>1. phase = "reads"
      BY <1>1, <1>7, NextCheck
    <3> QED
      BY <1>2, <3>1 DEF Concludes, Course
  <2>2. ScriptTypes'
    BY <1>1, <1>4, <1>5, <2>1 DEF ScriptTypes, answers
  <2>3. \A i \in 1..Len(todo') : todo'[i] \notin CommandOps
    BY <1>5, <2>1
  <2>4. waiting' < next'
    BY <1>1, <1>4 DEF ServerInv, TypeOK
  <2> QED
    BY <1>4, <2>1, <2>2, <2>3, <2>4 DEF Course
<1> QED
  BY <1>6, <1>7

\* Serve, a request of others and a call of the script leave the course as it is.
LEMMA CourseKept ==
  ASSUME ScriptTypes, Course, UNCHANGED <<options, phase, todo, green, acks, exit>>,
         waiting' \in Ids \cup {0}, waiting' < next', todo = <<>> => waiting' = 0,
         mishaps' \in 0..MaxMishaps, others' \in 0..MaxOthers,
         reports' \subseteq SUBSET Flags, met' \subseteq Ids
  PROVE  ScriptTypes' /\ Course'
<1>1. ScriptTypes'
  BY DEF ScriptTypes
<1>2. Course'
  BY DEF Course
<1> QED
  BY <1>1, <1>2

LEMMA ServeCourse ==
  ASSUME ServerInv, ScriptTypes, Course, NEW c \in Clients, Serve(c)
  PROVE  ScriptTypes' /\ Course'
<1>1. /\ UNCHANGED <<options, phase, todo, green, acks, exit, waiting, mishaps, others>>
      /\ next' = next
  BY ServerStep DEF Serve, runner
<1>2. met' \subseteq Ids
  <2>1. \A d \in CommandEnding : cmd[d].id \in Ids
    BY DEF ServerInv, RecordInv, Requests, CommandEnding
  <2> QED
    BY <2>1 DEF Serve, ScriptTypes
<1>3. reports' \subseteq SUBSET Flags
  <2> DEFINE new == {Reported(failed[d]) : d \in {c} \cap StatusEnding}
  <2>1. \A snapshotFailed : Reported(snapshotFailed) \subseteq Flags
    BY DEF Reported, DefaultDisabled
  <2>2. new \subseteq SUBSET Flags
    BY <2>1
  <2>3. reports' = reports \cup new /\ reports \subseteq SUBSET Flags
    BY DEF Serve, ScriptTypes
  <2> QED
    BY <2>2, <2>3
<1> QED
  BY <1>1, <1>2, <1>3, CourseKept DEF ScriptTypes, Course

LEMMA RequestCourse ==
  ASSUME ServerInv, ScriptTypes, Course, NEW c \in Clients,
         StatusCheck(c) \/ CommandCheck(c) \/ OtherAsks(c)
  PROVE  ScriptTypes' /\ Course'
<1>1. Request(c) /\ UNCHANGED <<options, phase, todo, green, acks, exit, mishaps, answers>>
  BY DEF StatusCheck, CommandCheck, OtherAsks, Sends, runner
<1>2. next \in Ids /\ next' = next + 1
  BY <1>1, RequestMade DEF ServerInv
<1>3. others' \in 0..MaxOthers
  BY SmokeAssumption DEF ScriptTypes, StatusCheck, CommandCheck, OtherAsks, Sends
<1>4. waiting' = next \/ waiting' = waiting
  BY DEF StatusCheck, CommandCheck, OtherAsks, Sends, runner
<1>5. todo = <<>> => waiting' = 0
  BY DEF StatusCheck, CommandCheck, OtherAsks, Sends, runner, At, Course
<1>6. waiting' < next' /\ waiting' \in Ids \cup {0}
  BY <1>2, <1>4 DEF ScriptTypes, Course, Ids
<1>7. reports' \subseteq SUBSET Flags /\ met' \subseteq Ids
  BY <1>1 DEF answers, ScriptTypes
<1> QED
  BY <1>1, <1>3, <1>5, <1>6, <1>7, CourseKept DEF ScriptTypes

LEMMA GateCourse ==
  ASSUME ServerInv, ScriptTypes, Course, Gate \/ Report
  PROVE  ScriptTypes' /\ Course'
<1>1. /\ UNCHANGED <<options, waiting, acks, mishaps, others, answers>> /\ next' = next
      /\ todo = <<>>
  BY DEF Gate, Report, vars, counts
<1>2. CASE Gate
  <2>1. acks = <<>> /\ Len(acks) = 0 /\ waiting = 0 /\ waiting < next
    BY <1>2 DEF Gate, Course
  <2>2. CASE phase' = "report" /\ todo' = <<>>
    BY <1>1, <1>2, <2>1, <2>2 DEF Gate, ScriptTypes, Course, answers
  <2>3. CASE /\ phase' = "commands" /\ todo' = CommandChecks /\ green' = green
             /\ options.include_commands /\ options.override
    <3>1. ScriptTypes'
      BY <1>1, <1>2, <2>3, ThreeCommands DEF Gate, ScriptTypes, answers
    <3>2. todo' # <<>>
      BY <2>3, ThreeCommands
    <3> QED
      BY <1>1, <2>1, <2>3, <3>1, <3>2, ThreeCommands DEF Course
  <2> QED
    BY <1>1, <1>2, <2>2, <2>3 DEF Gate, Gated, RequiresRealTelescopeNow
<1>3. CASE Report
  <2>1. phase' = "done" /\ todo' = todo /\ green' = green /\ exit' \in {"0", "1"}
    BY <1>3 DEF Report, ExitCode
  <2> QED
    BY <1>1, <2>1 DEF ScriptTypes, Course, answers
<1> QED
  BY <1>2, <1>3

\* A step of neither the script nor the server.
Idles == /\ MountArrives \/ Ended \/ UNCHANGED smokeVars
         /\ UNCHANGED <<runner, others, answers>>
         /\ UNCHANGED <<pc, cmd, work, failed, next, moves, events, audits, outcome, overlapped>>

\* The steps of the script and of the server, in the groups the proofs go by.
LEMMA SmokeSteps ==
  ASSUME [SmokeNext]_smokeVars
  PROVE  \/ \E c \in Clients : Serve(c)
         \/ \E c \in Clients : StatusCheck(c) \/ CommandCheck(c) \/ OtherAsks(c)
         \/ Concluding
         \/ Gate \/ Report
         \/ Idles
<1>1. CASE MountArrives /\ UNCHANGED <<runner, others, answers>>
  BY <1>1 DEF MountArrives, Idles, records, counts
<1>2. CASE Ended \/ UNCHANGED smokeVars
  BY <1>2 DEF Ended, smokeVars, vars, records, counts, Idles
<1> QED
  BY <1>1, <1>2 DEF SmokeNext, Concluding

LEMMA CourseNext ==
  ASSUME ServerInv, ScriptTypes, Course, [SmokeNext]_smokeVars
  PROVE  ScriptTypes' /\ Course'
<1>1. CASE Idles
  BY <1>1 DEF Idles, runner, answers, ScriptTypes, Course
<1> QED
  BY <1>1, SmokeSteps, ServeCourse, RequestCourse, CourseConcludes, GateCourse

LEMMA CourseInit == SmokeInit => ScriptTypes /\ Course
<1> SUFFICES ASSUME SmokeInit PROVE ScriptTypes /\ Course
  OBVIOUS
<1>1. /\ options \in AllOptions /\ phase = "reads" /\ todo = ReadOnlyChecks(options)
      /\ waiting = 0 /\ green = TRUE /\ acks = <<>> /\ exit = "none" /\ mishaps = 0 /\ others = 0
      /\ reports = {} /\ met = {} /\ next = 1
  BY SmokeAssumption DEF SmokeInit, Init
<1>2. todo \in Seq(Checks \ CommandOps) /\ todo # <<>>
  <2>1. CASE options.validation_only
    BY <1>1, <2>1 DEF ReadOnlyChecks, Checks, CommandOps, StaticChecks, PlanChecks, StatusChecks
  <2>2. CASE ~options.validation_only
    BY <1>1, <2>2 DEF ReadOnlyChecks, Checks, CommandOps, StaticChecks, PlanChecks, StatusChecks
  <2> QED
    BY <2>1, <2>2
<1>3. todo \in Seq(Checks) /\ \A i \in 1..Len(todo) : todo[i] \notin CommandOps
  BY <1>2
<1>4. acks \in Seq(Ack) /\ Len(acks) = 0
  BY <1>1
<1> QED
  BY <1>1, <1>2, <1>3, <1>4, SmokeAssumption DEF ScriptTypes, Course

CourseInv == ServerInv /\ ScriptTypes /\ Course

LEMMA CourseHolds == SmokeSpec => []CourseInv
BY ServerHolds, CourseInit, CourseNext, PTL DEF SmokeSpec, CourseInv

\* Type correctness of the script and its backend: among others, that the results of
\* command checks have codes that only command checks can have.
THEOREM SmokeTypeCorrect == SmokeSpec => []SmokeTypeOK
<1>1. CourseInv => SmokeTypeOK
  BY DEF CourseInv, ServerInv, ScriptTypes, SmokeTypeOK, Ack, AckCodes
<1> QED
  BY <1>1, CourseHolds, PTL

-----------------------------------------------------------------------------
(* Authorization. *)

Authorized ==
  /\ options.include_commands /\ options.override
  /\ options.configured = "secret" => options.token = "secret"

\* Not only what the mount obeyed was authorized, but every command on its way to it.
AuthInv ==
  /\ moves # <<>> => Authorized
  /\ \A c \in Clients : pc[c] # "idle" /\ cmd[c].op # "status" => Authorized

LEMMA AuthNext ==
  ASSUME CourseInv, AuthInv, [SmokeNext]_smokeVars
  PROVE  AuthInv'
<1>0. ServerInv /\ ScriptTypes /\ Course /\ TypeOK
  BY DEF CourseInv, ServerInv
<1>1. ASSUME NEW c \in Clients, Serve(c) PROVE AuthInv'
  <2>1. UNCHANGED options
    BY <1>1 DEF Serve, runner
  <2>2. /\ pc[c] # "idle" /\ Others(c)
        /\ pc'[c] # "idle" => cmd'[c].op = cmd[c].op
        /\ moves' = moves \/ work[c] \in MotionWork
    BY <1>0, <1>1, ServerStep DEF Serve
  <2>3. work[c] \in MotionWork => cmd[c].op # "status"
    BY <1>0 DEF ServerInv, Arguments
  <2> QED
    BY <2>1, <2>2, <2>3 DEF AuthInv, Authorized, Others
<1>2. ASSUME NEW c \in Clients, StatusCheck(c) \/ CommandCheck(c) \/ OtherAsks(c) PROVE AuthInv'
  <2>1. Request(c) /\ UNCHANGED options
    BY <1>2 DEF StatusCheck, CommandCheck, OtherAsks, Sends, runner
  <2>2. Others(c) /\ moves' = moves
    BY <1>0, <2>1, RequestMade
  <2>3. cmd'[c].op # "status" => Authorized
    <3>1. CASE StatusCheck(c) \/ OtherAsks(c)
      BY <3>1 DEF StatusCheck, OtherAsks, Sends
    <3>2. CASE CommandCheck(c)
      <4>1. phase = "commands"
        BY <1>0, <3>2, NextCheck DEF CommandCheck, At
      <4>2. TokenAccepted(options.configured, options.token)
        BY <3>2 DEF CommandCheck
      <4> QED
        BY <1>0, <4>1, <4>2 DEF Course, TokenAccepted, Authorized
    <3> QED
      BY <1>2, <3>1, <3>2
  <2> QED
    BY <2>1, <2>2, <2>3 DEF AuthInv, Authorized, Others
<1>3. CASE Concluding
  <2>1. UNCHANGED <<vars, options>>
    BY <1>0, <1>3, Conclusions DEF Concludes
  <2> QED
    BY <2>1 DEF AuthInv, Authorized, vars, records
<1>4. CASE Gate \/ Report
  BY <1>4 DEF Gate, Report, AuthInv, Authorized, vars, records
<1>5. CASE Idles
  BY <1>5 DEF Idles, runner, AuthInv, Authorized
<1> QED
  BY <1>1, <1>2, <1>3, <1>4, <1>5, SmokeSteps

\* Whatever is lost, given up or overtaken, the mount obeys nothing unless commands were
\* asked for, the readiness gate was overridden and a token that is checked was known.
THEOREM MotionAuthorized == SmokeSpec => []MotionIsAuthorized
<1>1. SmokeInit => AuthInv
  BY DEF SmokeInit, Init, AuthInv
<1>2. AuthInv => MotionIsAuthorized
  BY DEF AuthInv, Authorized, MotionIsAuthorized
<1> QED
  BY <1>1, <1>2, AuthNext, CourseHolds, PTL DEF SmokeSpec

-----------------------------------------------------------------------------
(* The order of what the report calls passed. *)

Precedes(x, y, log) ==
  \E p, q \in 1..Len(log) : p < q /\ log[p].id = x /\ log[q].id = y

\* A log, given the results a and the request w whose answer is awaited: what passed is
\* in it, one before the other, and w, once it is in it, after all of them.
Ordered(log, a, w) ==
  \A i \in 1..Len(a) : a[i].code = "200" =>
    /\ a[i].id \in IdsIn(log)
    /\ \A j \in 1..Len(a) : i < j /\ a[j].code = "200" => Precedes(a[i].id, a[j].id, log)
    /\ w # 0 /\ w \in IdsIn(log) => Precedes(a[i].id, w, log)

\* The command awaited is the one of the check; its success is a record.
Awaited ==
  phase = "commands" /\ waiting # 0 =>
    /\ \A c \in Clients : pc[c] # "idle" /\ cmd[c].id = waiting => cmd[c].op = Head(todo)
    /\ outcome[waiting] = "ok" => waiting \in IdsIn(audits)

OrderInv == Ordered(moves, acks, waiting) /\ Ordered(audits, acks, waiting) /\ Awaited

LEMMA WithinIds ==
  ASSUME NEW s, NEW t, Within(s, t)
  PROVE  IdsIn(s) \subseteq IdsIn(t)
<1>1. ASSUME NEW i \in 1..Len(s) PROVE s[i].id \in IdsIn(t)
  <2>1. Occurs(s[i], t)
    BY DEF Within
  <2> QED
    BY <2>1, OccursId
<1> QED
  BY <1>1 DEF IdsIn

LEMMA OrderedGrows ==
  ASSUME NEW log \in Seq(Commands), NEW x \in Commands, NEW log2 \in {log, Append(log, x)},
         NEW a, NEW w, Ordered(log, a, w)
  PROVE  Ordered(log2, a, w)
<1>1. CASE log2 = log
  BY <1>1
<1>2. CASE log2 = Append(log, x)
  <2>1. /\ Len(log) \in Nat /\ Len(log2) = Len(log) + 1 /\ log2[Len(log) + 1] = x
        /\ \A p \in 1..Len(log) : log2[p] = log[p]
    BY <1>2
  <2>2. \A y, z : Precedes(y, z, log) => Precedes(y, z, log2)
    BY <2>1 DEF Precedes
  <2>3. IdsIn(log) \subseteq IdsIn(log2) /\ IdsIn(log2) \subseteq IdsIn(log) \cup {x.id}
    BY LogGrows
  <2>4. \A y \in IdsIn(log) : Precedes(y, x.id, log2)
    BY <2>1 DEF Precedes, IdsIn
  <2> QED
    BY <2>2, <2>3, <2>4 DEF Ordered
<1> QED
  BY <1>1, <1>2

\* A result of what was awaited.
LEMMA OrderedAcked ==
  ASSUME NEW log, NEW w, Ordered(log, acks, w),
         acks \in Seq(Ack), acks' \in Seq(Ack), Len(acks') = Len(acks) + 1,
         \A i \in 1..Len(acks) : acks'[i] = acks[i],
         acks'[Len(acks) + 1].code = "200" =>
           w # 0 /\ acks'[Len(acks) + 1].id = w /\ w \in IdsIn(log)
  PROVE  Ordered(log, acks', 0)
<1>1. Len(acks) \in Nat
  OBVIOUS
<1>2. \A i \in 1..Len(acks') : i \in 1..Len(acks) \/ i = Len(acks) + 1
  BY <1>1
<1> QED
  BY <1>1, <1>2 DEF Ordered

LEMMA ServeOrder ==
  ASSUME CourseInv, OrderInv, NEW c \in Clients, Serve(c)
  PROVE  OrderInv'
<1>0. /\ ServerInv /\ TypeOK /\ ScriptTypes /\ Course
      /\ cmd[c] \in Commands /\ moves \in Seq(Commands) /\ audits \in Seq(Commands)
  BY DEF CourseInv, ServerInv, TypeOK
<1>1. /\ Transaction(c) \/ Handler(c)
      /\ UNCHANGED <<phase, todo, acks, waiting>>
  BY DEF Serve, runner
<1>2. /\ pc[c] # "idle" /\ Others(c)
      /\ pc'[c] # "idle" => cmd'[c].id = cmd[c].id /\ cmd'[c].op = cmd[c].op
      /\ moves' \in {moves, Append(moves, cmd[c])} /\ audits' \in {audits, Append(audits, cmd[c])}
  BY <1>0, <1>1, ServerStep
<1>3. Ordered(moves', acks, waiting) /\ Ordered(audits', acks, waiting)
  BY <1>0, <1>2, OrderedGrows DEF OrderInv
<1>4. ASSUME phase = "commands", waiting # 0
      PROVE  /\ \A d \in Clients : pc'[d] # "idle" /\ cmd'[d].id = waiting => cmd'[d].op = Head(todo)
             /\ outcome'[waiting] = "ok" => waiting \in IdsIn(audits')
  <2>1. \A d \in Clients : pc'[d] # "idle" /\ cmd'[d].id = waiting => cmd'[d].op = Head(todo)
    BY <1>2, <1>4 DEF OrderInv, Awaited, Others
  <2>2. ASSUME outcome'[waiting] = "ok" PROVE waiting \in IdsIn(audits')
    <3>1. CASE outcome'[waiting] = outcome[waiting]
      <4>1. IdsIn(audits) \subseteq IdsIn(audits')
        BY <1>0, <1>2, LogGrows
      <4> QED
        BY <1>4, <2>2, <3>1, <4>1 DEF OrderInv, Awaited
    <3>2. CASE outcome'[waiting] # outcome[waiting]
      <4>1. waiting \in Ids
        BY <1>0, <1>4 DEF ScriptTypes
      <4>2. waiting = cmd[c].id /\ (cmd[c].op \in {"read", "status"} \/ Audit(c))
        BY <1>0, <1>1, <2>2, <3>2, <4>1, ServerAnswer
      <4>3. cmd[c].op \in CommandOps
        <5>1. todo # <<>>
          BY <1>0, <1>4 DEF Course
        <5> QED
          BY <1>0, <1>2, <1>4, <4>2, <5>1, NextCheck DEF OrderInv, Awaited
      <4>4. audits' = Append(audits, cmd[c])
        BY <4>2, <4>3 DEF CommandOps, Audit
      <4> QED
        BY <1>0, <4>2, <4>4, LogAppend
    <3> QED
      BY <3>1, <3>2
  <2> QED
    BY <2>1, <2>2
<1> QED
  BY <1>1, <1>3, <1>4 DEF OrderInv, Awaited

LEMMA RequestOrder ==
  ASSUME CourseInv, OrderInv, NEW c \in Clients,
         StatusCheck(c) \/ CommandCheck(c) \/ OtherAsks(c)
  PROVE  OrderInv'
<1>0. /\ ServerInv /\ TypeOK /\ ScriptTypes /\ Course /\ Requests /\ Logged
  BY DEF CourseInv, ServerInv, RecordInv
<1>1. Request(c) /\ UNCHANGED <<phase, todo, acks>>
  BY DEF StatusCheck, CommandCheck, OtherAsks, Sends, runner
<1>2. /\ pc[c] = "idle" /\ Others(c) /\ cmd'[c].id = next /\ next \in Ids
      /\ UNCHANGED <<moves, audits, outcome>>
  BY <1>0, <1>1, RequestMade
<1>3. /\ next \notin IdsIn(moves) /\ next \notin IdsIn(audits) /\ outcome[next] = "none"
      /\ \A d \in Clients : pc[d] # "idle" => cmd[d].id # next
  BY <1>0, <1>2 DEF Requests, Logged, TypeOK
<1>4. \/ waiting' = waiting
      \/ waiting' = next /\ (phase = "commands" => cmd'[c].op = Head(todo))
  <2>1. CASE StatusCheck(c)
    <3>1. phase # "commands"
      BY <1>0, <2>1, NextCheck DEF StatusCheck, At, PlanChecks, StatusChecks, CommandOps
    <3> QED
      BY <2>1, <3>1 DEF StatusCheck, Sends
  <2> QED
    BY <2>1 DEF CommandCheck, OtherAsks, Sends, runner
<1>5. Ordered(moves', acks', waiting') /\ Ordered(audits', acks', waiting')
  BY <1>1, <1>2, <1>3, <1>4 DEF OrderInv, Ordered
<1>6. Awaited'
  <2>1. CASE waiting' = waiting
    <3>1. waiting # next
      BY <1>0 DEF Course, ScriptTypes, TypeOK
    <3> QED
      BY <1>1, <1>2, <2>1, <3>1 DEF OrderInv, Awaited, Others
  <2>2. CASE waiting' = next /\ (phase = "commands" => cmd'[c].op = Head(todo))
    BY <1>1, <1>2, <1>3, <2>2 DEF Awaited, Others
  <2> QED
    BY <1>4, <2>1, <2>2
<1> QED
  BY <1>5, <1>6 DEF OrderInv

LEMMA ConcludingOrder ==
  ASSUME CourseInv, OrderInv, Concluding
  PROVE  OrderInv'
<1>0. ServerInv /\ ScriptTypes /\ Course
  BY DEF CourseInv
<1>1. todo # <<>> /\ moves' = moves /\ audits' = audits
  BY <1>0, Conclusions DEF vars, records
<1>2. PICK code :
        /\ Concludes(code)
        /\ phase = "commands" =>
             \/ code = "error"
             \/ code = "401" /\ waiting = 0 /\ options.configured = "secret"
             \/ /\ waiting # 0 /\ code = CodeOf(outcome[waiting])
                /\ outcome[waiting] \in {"ok", "502", "500"}
  BY <1>0, Conclusions
<1>3. waiting' = 0
  BY <1>2 DEF Concludes
<1>4. CASE phase = "commands"
  <2>1. code \in AckCodes
    BY <1>2, <1>4 DEF AckCodes, CodeOf
  <2>2. /\ acks' \in Seq(Ack) /\ acks \in Seq(Ack) /\ Len(acks') = Len(acks) + 1
        /\ \A i \in 1..Len(acks) : acks'[i] = acks[i]
        /\ acks'[Len(acks) + 1].code = code /\ acks'[Len(acks) + 1].id = waiting
    BY <1>0, <1>1, <1>2, <1>4, <2>1, Acked DEF ScriptTypes
  <2>3. code = "200" => waiting # 0 /\ waiting \in IdsIn(audits) /\ waiting \in IdsIn(moves)
    <3>1. code = "200" => waiting # 0 /\ waiting \in IdsIn(audits)
      BY <1>2, <1>4 DEF CodeOf, OrderInv, Awaited
    <3>2. IdsIn(audits) \subseteq IdsIn(moves)
      <4>1. Within(audits, events) /\ Within(events, moves)
        BY <1>0 DEF ServerInv, RecordInv, Logs
      <4> QED
        BY <4>1, WithinIds
    <3> QED
      BY <3>1, <3>2
  <2>4. /\ acks'[Len(acks) + 1].code = "200" =>
             waiting # 0 /\ acks'[Len(acks) + 1].id = waiting /\ waiting \in IdsIn(moves)
        /\ acks'[Len(acks) + 1].code = "200" =>
             waiting # 0 /\ acks'[Len(acks) + 1].id = waiting /\ waiting \in IdsIn(audits)
    BY <2>2, <2>3
  <2>5. Ordered(moves, acks, waiting) /\ Ordered(audits, acks, waiting)
    BY DEF OrderInv
  <2>6. Ordered(moves, acks', 0)
    BY <2>2, <2>4, <2>5, OrderedAcked
  <2>7. Ordered(audits, acks', 0)
    BY <2>2, <2>4, <2>5, OrderedAcked
  <2> QED
    BY <1>1, <1>3, <2>6, <2>7 DEF OrderInv, Awaited
<1>5. CASE phase # "commands"
  <2>1. acks' = acks
    BY <1>0, <1>1, <1>2, <1>5, NextCheck DEF Concludes
  <2> QED
    BY <1>1, <1>3, <2>1 DEF OrderInv, Awaited, Ordered
<1> QED
  BY <1>4, <1>5

LEMMA OrderNext ==
  ASSUME CourseInv, OrderInv, [SmokeNext]_smokeVars
  PROVE  OrderInv'
<1>1. CASE Gate \/ Report
  <2>1. UNCHANGED <<moves, audits, acks, waiting>> /\ waiting = 0
    BY <1>1 DEF CourseInv, Course, Gate, Report, vars, records
  <2> QED
    BY <2>1 DEF OrderInv, Awaited, Ordered
<1>2. CASE Idles
  BY <1>2 DEF Idles, runner, OrderInv, Awaited, Ordered
<1> QED
  BY <1>1, <1>2, SmokeSteps, ServeOrder, RequestOrder, ConcludingOrder

LEMMA OrderHolds == SmokeSpec => []OrderInv
<1>1. SmokeInit => OrderInv
  BY DEF SmokeInit, Init, OrderInv, Ordered, Awaited
<1> QED
  BY <1>1, OrderNext, CourseHolds, PTL DEF SmokeSpec

\* What the report calls passed stands, in the order of the script, in what the mount
\* obeyed and in the audit records.
THEOREM PassedOrdered == SmokeSpec => []PassedInOrder
<1>1. CourseInv /\ OrderInv => PassedInOrder
  <2> SUFFICES ASSUME CourseInv, OrderInv, NEW log \in {moves, audits},
                      NEW i \in {k \in 1..Len(acks) : Passed(k)},
                      NEW j \in {k \in 1..Len(acks) : Passed(k)}, i <= j
               PROVE  \E p, q \in 1..Len(log) :
                        /\ p <= q /\ (p = q => i = j)
                        /\ log[p].id = acks[i].id /\ log[q].id = acks[j].id
    BY DEF PassedInOrder
  <2>1. Ordered(log, acks, waiting) /\ acks[i].code = "200" /\ acks[j].code = "200"
    BY DEF OrderInv, Passed
  <2>2. Len(log) \in Nat
    BY DEF CourseInv, ServerInv, TypeOK
  <2>3. CASE i = j
    <3>1. PICK p \in 1..Len(log) : log[p].id = acks[i].id
      BY <2>1 DEF Ordered, IdsIn
    <3> QED
      BY <2>2, <2>3, <3>1
  <2>4. CASE i # j
    <3>1. Precedes(acks[i].id, acks[j].id, log)
      BY <2>1, <2>4 DEF Ordered
    <3>2. PICK p, q \in 1..Len(log) : p < q /\ log[p].id = acks[i].id /\ log[q].id = acks[j].id
      BY <3>1 DEF Precedes
    <3> QED
      BY <2>2, <3>2
  <2> QED
    BY <2>3, <2>4
<1> QED
  BY <1>1, OrderHolds, CourseHolds, PTL

-----------------------------------------------------------------------------
(* The causes of failures. *)

\* The mount and the network are sound: no call raises but for what the mount cannot
\* do, and no slew takes longer than the deadline.
Sound == Faults \cap {"connect", "call", "timeout"} = {}

AnyFailed == \E i \in 1..Len(acks) : ~Passed(i)
LeftBehind(op) == \E i \in 1..Len(acks) : acks[i].op = op /\ ~Passed(i)

\* A request is the one whose answer is awaited.
Attended(c) == phase = "commands" /\ cmd[c].id = waiting

\* Requests are for a status or of the script, which has at most left them behind.
Sent ==
  \A c \in Clients : pc[c] # "idle" =>
    /\ work[c] = cmd[c].op /\ cmd[c].op \in CommandOps \cup {"status"}
    /\ cmd[c].op \in CommandOps => Attended(c) \/ LeftBehind(cmd[c].op)

\* The transaction of c is one that slews, or has raised.
Turning(c) == pc[c] # "idle" /\ (pc[c] \in {"settle", "blocked"} \/ failed[c])

\* The mount slews for the slew that is awaited, or one that did not pass.
SlewAccounted ==
  mount.slewing =>
    \/ LeftBehind("slew")
    \/ /\ phase = "commands" /\ waiting # 0 /\ Head(todo) = "slew"
       /\ \/ outcome[waiting] \in {"502", "500"}
          \/ \E c \in Clients : cmd[c].id = waiting /\ Turning(c)

Caused ==
  /\ \A c \in Clients : pc[c] # "idle" /\ failed[c] /\ cmd[c].op \in CommandOps =>
       Missing(cmd[c].op) \/ c \in overlapped \/ AnyFailed
  /\ phase = "commands" /\ waiting # 0 /\ outcome[waiting] = "502" =>
       Missing(Head(todo)) \/ waiting \in met \/ AnyFailed
  /\ \A i \in 1..Len(acks) : acks[i].code = "502" =>
       Missing(acks[i].op) \/ acks[i].id \in met \/ \E j \in 1..(i - 1) : ~Passed(j)
  /\ \A i \in 1..Len(acks) : acks[i].code = "401" => options.configured = "secret"

SentInv == Sent /\ SlewAccounted

\* Only two things make a transaction raise when mount and network are sound.
LEMMA WhyFailed ==
  ASSUME Sound, ServerInv, NEW c \in Clients, Transaction(c) \/ Handler(c),
         pc'[c] # "idle", failed'[c]
  PROVE  NotConnected(c) \/ Refused(c)
<1>1. TypeOK /\ (pc[c] # "close" => ~failed[c])
  <2>1. pc[c] = "idle" => ~failed[c]
    BY DEF ServerInv, RecordInv, Requests
  <2> QED
    BY <2>1 DEF ServerInv, RecordInv, Progress, ProgressOf
<1>2. CASE Transaction(c)
  <2>1. ~ConnectFails(c) /\ ~CallFails(c) /\ ~SettleTimesOut(c)
    BY DEF Sound, ConnectFails, CallFails, SettleTimesOut
  <2>2. CASE StartSlew(c) \/ Sync(c) \/ SetTracking(c)
    <3>1. \E location : Obeyed(c, location)
      BY <2>2 DEF StartSlew, Sync, SetTracking
    <3>2. failed' = failed
      BY <3>1 DEF Obeyed, Sound
    <3> QED
      BY <1>1, <2>2, <3>2 DEF StartSlew, Sync, SetTracking, Working
  <2>3. CASE Connect(c) \/ Connected(c) \/ Read(c) \/ Settled(c) \/ BlockingSlewReturns(c)
    BY <1>1, <2>3 DEF Connect, Connected, Read, Working, Settled, BlockingSlewReturns
  <2> QED
    BY <1>2, <2>1, <2>2, <2>3 DEF Transaction
<1>3. CASE Handler(c)
  <2>1. pc'[c] = "idle" \/ ~failed'[c]
    BY <1>1, <1>3 DEF TypeOK, Handler, CloseFailed, CloseRead, CloseNudgeRead, CloseMoved, Publish,
       PublishFails, Audit, AuditFails, Ends, Goto
  <2> QED
    BY <2>1
<1> QED
  BY <1>2, <1>3

\* A slew begins with StartSlew and, as long as the mount slews, its transaction ends
\* in no other way than by raising.
LEMMA WhySlewing ==
  ASSUME ServerInv, NEW c \in Clients, Transaction(c) \/ Handler(c), mount'.slewing
  PROVE  /\ mount.slewing \/ (StartSlew(c) /\ Turning(c)')
         /\ mount.slewing /\ Turning(c) => Turning(c)' \/ CloseFailed(c)
<1>1. TypeOK /\ (pc[c] # "close" => ~failed[c])
  <2>1. pc[c] = "idle" => ~failed[c]
    BY DEF ServerInv, RecordInv, Requests
  <2> QED
    BY <2>1 DEF ServerInv, RecordInv, Progress, ProgressOf
<1>2. CASE StartSlew(c)
  <2>1. Turning(c)'
    <3>1. AfterSlewCall \in {"settle", "blocked"}
      BY DEF AfterSlewCall
    <3>2. Goto(c, AfterSlewCall) \/ Raise(c)
      BY <1>2 DEF StartSlew, Obeyed
    <3>3. pc \in [Clients -> Locations] /\ failed \in [Clients -> BOOLEAN]
      BY <1>1 DEF TypeOK
    <3> QED
      BY <3>1, <3>2, <3>3 DEF Raise, Goto, Turning
  <2> QED
    BY <1>2, <2>1
<1>3. CASE ~StartSlew(c)
  <2>1. mount.slewing
    BY <1>1, <1>3 DEF TypeOK, Transaction, Connect, ConnectFails, Connected, NotConnected,
       CallFails, Sync, SetTracking, Refused, Read, Settled, SettleTimesOut,
       BlockingSlewReturns, Handler, CloseFailed, CloseRead, CloseNudgeRead, CloseMoved, Publish,
       PublishFails, Audit, AuditFails, Disconnect
  <2>2. ASSUME Turning(c) PROVE Turning(c)' \/ CloseFailed(c)
    <3>1. CASE pc[c] \in {"settle", "blocked"}
      <4>1. NotConnected(c) \/ CallFails(c) \/ SettleTimesOut(c)
        BY <1>3, <2>1, <3>1 DEF Transaction, Connect, ConnectFails, Connected, Sync, SetTracking,
           Refused, Read, Working, Settled, BlockingSlewReturns, Handler, CloseFailed, CloseRead,
           CloseNudgeRead, CloseMoved, Publish, PublishFails, Audit, AuditFails
      <4>2. Raise(c)
        BY <4>1 DEF NotConnected, CallFails, SettleTimesOut
      <4> QED
        BY <1>1, <4>2 DEF TypeOK, Raise, Goto, Turning
    <3>2. CASE pc[c] = "close" /\ failed[c]
      BY <1>3, <3>2 DEF Transaction, Connect, ConnectFails, Connected, NotConnected, CallFails,
         Sync, SetTracking, Refused, Read, Working, Settled, SettleTimesOut, BlockingSlewReturns,
         Handler, CloseRead, CloseNudgeRead, CloseMoved, Publish, PublishFails, Audit, AuditFails
    <3> QED
      BY <1>1, <2>2, <3>1, <3>2 DEF Turning
  <2> QED
    BY <2>1, <2>2
<1> QED
  BY <1>2, <1>3

\* What no step changes, and what only the step of the request itself does.
LEMMA ServerKeeps ==
  ASSUME ServerInv, NEW c \in Clients, Transaction(c) \/ Handler(c)
  PROVE  /\ mount'.can = mount.can /\ overlapped \ {c} \subseteq overlapped'
         /\ pc'[c] # "idle" /\ cmd[c].op # "nudge" => work'[c] = work[c]
<1>0. TypeOK
  BY DEF ServerInv
<1>1. CASE Transaction(c)
  <2>1. work' = work /\ overlapped \subseteq overlapped'
    BY <1>1 DEF Transaction, Connect, ConnectFails, Connected, NotConnected, CallFails,
       StartSlew, Sync, SetTracking, Obeyed, Refused, Read, Settled, SettleTimesOut,
       BlockingSlewReturns, Meets
  <2>2. mount'.can = mount.can
    BY <1>0, <1>1 DEF TypeOK, Transaction, Connect, ConnectFails, Connected, NotConnected, CallFails,
       StartSlew, Sync, SetTracking, Refused, Read, Settled, SettleTimesOut, BlockingSlewReturns
  <2> QED
    BY <2>1, <2>2
<1>2. CASE Handler(c)
  <2>1. mount'.can = mount.can /\ overlapped \ {c} \subseteq overlapped'
    BY <1>0, <1>2 DEF TypeOK, Handler, CloseFailed, CloseRead, CloseNudgeRead, CloseMoved, Publish,
       PublishFails, Audit, AuditFails, Disconnect
  <2>2. pc'[c] # "idle" /\ cmd[c].op # "nudge" => work'[c] = work[c]
    BY <1>0, <1>2 DEF TypeOK, Handler, CloseFailed, CloseRead, CloseNudgeRead, CloseMoved, Publish,
       PublishFails, Audit, AuditFails, Ends, Goto
  <2> QED
    BY <2>1, <2>2
<1> QED
  BY <1>1, <1>2

LEMMA ServeSent ==
  ASSUME CourseInv, OrderInv, SentInv, NEW c \in Clients, Serve(c)
  PROVE  SentInv'
<1>0. /\ ServerInv /\ TypeOK /\ ScriptTypes /\ Course /\ Requests
      /\ \A d \in Clients : pc[d] # "close" => ~failed[d]
  <2>1. \A d \in Clients : pc[d] = "idle" => ~failed[d]
    BY DEF CourseInv, ServerInv, RecordInv, Requests
  <2> QED
    BY <2>1 DEF CourseInv, ServerInv, RecordInv, Progress, ProgressOf
<1>1. /\ Transaction(c) \/ Handler(c)
      /\ UNCHANGED <<options, phase, todo, acks, waiting>>
      /\ met' = met \cup {cmd[d].id : d \in {c} \cap overlapped \cap CommandEnding}
  BY DEF Serve, runner
<1>2. /\ pc[c] # "idle" /\ Others(c) /\ next' = next
      /\ pc'[c] # "idle" => cmd'[c].id = cmd[c].id /\ cmd'[c].op = cmd[c].op
  BY <1>0, <1>1, ServerStep
<1>3. /\ mount'.can = mount.can /\ overlapped \ {c} \subseteq overlapped'
      /\ pc'[c] # "idle" /\ cmd[c].op # "nudge" => work'[c] = work[c]
  BY <1>0, <1>1, ServerKeeps
<1>4. /\ \A op : Missing(op)' <=> Missing(op)
      /\ \A op : LeftBehind(op)' <=> LeftBehind(op)
      /\ AnyFailed' <=> AnyFailed
      /\ \A i : Passed(i)' <=> Passed(i)
  BY <1>1, <1>3 DEF Missing, LeftBehind, AnyFailed, Passed
<1>5. /\ work[c] = cmd[c].op /\ cmd[c].op \in CommandOps \cup {"status"} /\ cmd[c].op # "nudge"
      /\ cmd[c].op \in CommandOps => Attended(c) \/ LeftBehind(cmd[c].op)
      /\ Attended(c) => waiting # 0 /\ outcome[waiting] = "none" /\ cmd[c].op = Head(todo)
  <2>1. /\ work[c] = cmd[c].op /\ cmd[c].op \in CommandOps \cup {"status"}
        /\ cmd[c].op \in CommandOps => Attended(c) \/ LeftBehind(cmd[c].op)
    BY <1>2 DEF SentInv, Sent
  <2>2. Attended(c) => waiting # 0 /\ outcome[waiting] = "none" /\ cmd[c].op = Head(todo)
    BY <1>0, <1>2 DEF Attended, Requests, OrderInv, Awaited, Ids
  <2> QED
    BY <2>1, <2>2 DEF CommandOps
<1>6. Sent'
  <2>1. \A d \in Clients : pc'[d] # "idle" => Attended(d)' = Attended(d)
    BY <1>1, <1>2 DEF Attended, Others
  <2>2. \A d \in Clients : pc'[d] # "idle" => pc[d] # "idle" /\ cmd'[d].op = cmd[d].op /\ work'[d] = work[d]
    BY <1>2, <1>3, <1>5 DEF Others
  <2> QED
    BY <1>4, <2>1, <2>2 DEF SentInv, Sent
<1>7. SlewAccounted'
  <2> SUFFICES ASSUME mount'.slewing, ~LeftBehind("slew")
               PROVE  /\ phase = "commands" /\ waiting # 0 /\ Head(todo) = "slew"
                      /\ \/ outcome'[waiting] \in {"502", "500"}
                         \/ \E d \in Clients : cmd'[d].id = waiting /\ Turning(d)'
    BY <1>1, <1>4 DEF SlewAccounted
  <2>1. /\ mount.slewing \/ (StartSlew(c) /\ Turning(c)')
        /\ mount.slewing /\ Turning(c) => Turning(c)' \/ CloseFailed(c)
    BY <1>0, <1>1, WhySlewing
  <2>2. CASE StartSlew(c) /\ Turning(c)'
    <3>1. cmd[c].op = "slew"
      BY <1>5, <2>2 DEF StartSlew, Working
    <3>2. Attended(c) /\ waiting # 0 /\ Head(todo) = "slew"
      BY <1>5, <3>1 DEF CommandOps
    <3>3. cmd'[c].id = waiting
      BY <1>2, <2>2, <3>2 DEF Turning, Attended
    <3> QED
      BY <2>2, <3>2, <3>3 DEF Attended
  <2>3. CASE mount.slewing
    <3>1. /\ phase = "commands" /\ waiting # 0 /\ Head(todo) = "slew" /\ waiting \in Ids
          /\ \/ outcome[waiting] \in {"502", "500"}
             \/ \E d \in Clients : cmd[d].id = waiting /\ Turning(d)
      BY <1>0, <2>3 DEF SentInv, SlewAccounted, ScriptTypes
    <3>2. CASE outcome[waiting] \in {"502", "500"}
      <4>1. cmd[c].id # waiting
        BY <1>0, <1>2, <3>2 DEF Requests
      <4>2. outcome'[waiting] = outcome[waiting]
        BY <1>0, <1>1, <3>1, <4>1, ServerAnswer
      <4> QED
        BY <3>1, <3>2, <4>2
    <3>3. CASE \E d \in Clients : cmd[d].id = waiting /\ Turning(d)
      <4>1. PICK d \in Clients : cmd[d].id = waiting /\ Turning(d)
        BY <3>3
      <4>2. CASE d # c
        BY <1>2, <3>1, <4>1, <4>2 DEF Others, Turning
      <4>3. CASE d = c /\ Turning(c)'
        <5>1. cmd'[c].id = waiting
          BY <1>2, <4>1, <4>3 DEF Turning
        <5> QED
          BY <3>1, <4>3, <5>1
      <4>4. CASE d = c /\ CloseFailed(c)
        <5>1. cmd[c].op # "status" /\ cmd[c].id \in Ids
          BY <1>0, <1>2, <1>5, <3>1, <4>1, <4>4 DEF Attended, Requests
        <5>2. outcome' = [outcome EXCEPT ![cmd[c].id] = "502"]
          BY <4>4, <5>1 DEF CloseFailed, Ends
        <5>3. outcome'[waiting] = "502"
          BY <1>0, <4>1, <4>4, <5>1, <5>2 DEF TypeOK
        <5> QED
          BY <3>1, <5>3
      <4> QED
        BY <2>1, <2>3, <4>1, <4>2, <4>3, <4>4
    <3> QED
      BY <3>1, <3>2, <3>3
  <2> QED
    BY <2>1, <2>2, <2>3
<1> QED
  BY <1>6, <1>7 DEF SentInv

LEMMA ServeCause ==
  ASSUME Sound, CourseInv, OrderInv, SentInv, Caused, NEW c \in Clients, Serve(c)
  PROVE  Caused'
<1>0. /\ ServerInv /\ TypeOK /\ ScriptTypes /\ Course /\ Requests
      /\ \A d \in Clients : pc[d] # "close" => ~failed[d]
  <2>1. \A d \in Clients : pc[d] = "idle" => ~failed[d]
    BY DEF CourseInv, ServerInv, RecordInv, Requests
  <2> QED
    BY <2>1 DEF CourseInv, ServerInv, RecordInv, Progress, ProgressOf
<1>1. /\ Transaction(c) \/ Handler(c)
      /\ UNCHANGED <<options, phase, todo, acks, waiting>>
      /\ met' = met \cup {cmd[d].id : d \in {c} \cap overlapped \cap CommandEnding}
  BY DEF Serve, runner
<1>2. /\ pc[c] # "idle" /\ Others(c) /\ next' = next
      /\ pc'[c] # "idle" => cmd'[c].id = cmd[c].id /\ cmd'[c].op = cmd[c].op
  BY <1>0, <1>1, ServerStep
<1>3. /\ mount'.can = mount.can /\ overlapped \ {c} \subseteq overlapped'
      /\ pc'[c] # "idle" /\ cmd[c].op # "nudge" => work'[c] = work[c]
  BY <1>0, <1>1, ServerKeeps
<1>4. /\ \A op : Missing(op)' <=> Missing(op)
      /\ \A op : LeftBehind(op)' <=> LeftBehind(op)
      /\ AnyFailed' <=> AnyFailed
      /\ \A i : Passed(i)' <=> Passed(i)
  BY <1>1, <1>3 DEF Missing, LeftBehind, AnyFailed, Passed
<1>5. /\ work[c] = cmd[c].op /\ cmd[c].op \in CommandOps \cup {"status"} /\ cmd[c].op # "nudge"
      /\ cmd[c].op \in CommandOps => Attended(c) \/ LeftBehind(cmd[c].op)
      /\ Attended(c) => waiting # 0 /\ outcome[waiting] = "none" /\ cmd[c].op = Head(todo)
  <2>1. /\ work[c] = cmd[c].op /\ cmd[c].op \in CommandOps \cup {"status"}
        /\ cmd[c].op \in CommandOps => Attended(c) \/ LeftBehind(cmd[c].op)
    BY <1>2 DEF SentInv, Sent
  <2>2. Attended(c) => waiting # 0 /\ outcome[waiting] = "none" /\ cmd[c].op = Head(todo)
    BY <1>0, <1>2 DEF Attended, Requests, OrderInv, Awaited, Ids
  <2> QED
    BY <2>1, <2>2 DEF CommandOps
<1>8. ASSUME NEW d \in Clients, pc'[d] # "idle", failed'[d], cmd'[d].op \in CommandOps
      PROVE  Missing(cmd'[d].op) \/ d \in overlapped' \/ AnyFailed
  <2>1. CASE d # c
    BY <1>2, <1>3, <1>8, <2>1 DEF Caused, Others
  <2>2. CASE d = c
    <3>1. NotConnected(c) \/ Refused(c)
      BY <1>0, <1>1, <1>8, <2>2, WhyFailed
    <3>2. cmd'[c].op = cmd[c].op /\ overlapped' = overlapped
      BY <1>2, <1>8, <2>2, <3>1 DEF NotConnected, Refused
    <3>3. CASE NotConnected(c)
      <4>1. c \in overlapped
        BY <1>0, <3>3 DEF NotConnected, ServerInv, ConnectionInv, SoloKeepsConnection, Open
      <4> QED
        BY <2>2, <3>2, <4>1
    <3>4. CASE Refused(c)
      <4>1. \/ work[c] = "slew" /\ Missing("slew")
            \/ work[c] = "sync" /\ (Missing("sync") \/ mount.slewing)
            \/ work[c] = "tracking" /\ Missing("tracking")
        BY <3>4 DEF Refused, Working, Missing
      <4>2. CASE Missing(cmd[c].op)
        BY <2>2, <3>2, <4>2
      <4>3. CASE cmd[c].op = "sync" /\ mount.slewing
        <5>1. CASE LeftBehind("sync") \/ LeftBehind("slew")
          BY <5>1 DEF LeftBehind, AnyFailed
        <5>2. CASE ~LeftBehind("sync") /\ ~LeftBehind("slew")
          <6>1. Head(todo) = "sync"
            BY <1>5, <4>3, <5>2 DEF CommandOps
          <6>2. Head(todo) = "slew"
            BY <4>3, <5>2 DEF SentInv, SlewAccounted
          <6> QED
            BY <6>1, <6>2
        <5> QED
          BY <5>1, <5>2
      <4> QED
        BY <1>5, <4>1, <4>2, <4>3
    <3> QED
      BY <3>1, <3>3, <3>4
  <2> QED
    BY <2>1, <2>2
<1>9. ASSUME phase = "commands", waiting # 0, outcome'[waiting] = "502"
      PROVE  Missing(Head(todo)) \/ waiting \in met' \/ AnyFailed
  <2>0. waiting \in Ids
    BY <1>0, <1>9 DEF ScriptTypes
  <2>1. CASE outcome'[waiting] = outcome[waiting]
    BY <1>1, <1>9, <2>1 DEF Caused
  <2>2. CASE outcome'[waiting] # outcome[waiting]
    <3>1. cmd[c].id = waiting /\ CloseFailed(c)
      BY <1>0, <1>1, <1>9, <2>0, <2>2, ServerAnswer
    <3>2. cmd[c].op = Head(todo) /\ Head(todo) \in CommandOps
      <4>1. todo # <<>>
        BY <1>0, <1>9 DEF Course
      <4> QED
        BY <1>0, <1>2, <1>9, <3>1, <4>1, NextCheck DEF OrderInv, Awaited
    <3>3. Missing(Head(todo)) \/ c \in overlapped \/ AnyFailed
      BY <1>2, <3>1, <3>2 DEF CloseFailed, Caused
    <3>4. c \in overlapped => waiting \in met'
      BY <1>1, <3>1, <3>2 DEF CloseFailed, CommandEnding, CommandOps
    <3> QED
      BY <3>3, <3>4
  <2> QED
    BY <2>1, <2>2
<1>10. Caused'
  <2>1. \A i \in 1..Len(acks) : acks[i].code = "502" =>
          Missing(acks[i].op) \/ acks[i].id \in met' \/ \E j \in 1..(i - 1) : ~Passed(j)
    BY <1>1 DEF Caused
  <2>2. \A i \in 1..Len(acks) : acks[i].code = "401" => options.configured = "secret"
    BY DEF Caused
  <2> QED
    BY <1>1, <1>4, <1>8, <1>9, <2>1, <2>2 DEF Caused
<1> QED
  BY <1>10

LEMMA RequestSent ==
  ASSUME CourseInv, SentInv, NEW c \in Clients,
         StatusCheck(c) \/ CommandCheck(c) \/ OtherAsks(c)
  PROVE  SentInv'
<1>0. /\ ServerInv /\ TypeOK /\ ScriptTypes /\ Course /\ Requests
      /\ \A d \in Clients : pc[d] = "idle" => ~failed[d]
  BY DEF CourseInv, ServerInv, RecordInv, Requests
<1>1. Request(c) /\ UNCHANGED <<options, phase, todo, acks, met>>
  BY DEF StatusCheck, CommandCheck, OtherAsks, Sends, runner, answers
<1>2. /\ pc[c] = "idle" /\ pc'[c] = "connect" /\ Others(c) /\ cmd'[c].id = next /\ next \in Ids
      /\ failed' = failed /\ UNCHANGED <<mount, outcome, overlapped>>
  BY <1>0, <1>1, RequestMade
<1>3. /\ \A op : Missing(op)' <=> Missing(op)
      /\ \A op : LeftBehind(op)' <=> LeftBehind(op)
      /\ AnyFailed' <=> AnyFailed
      /\ \A i : Passed(i)' <=> Passed(i)
  BY <1>1, <1>2 DEF Missing, LeftBehind, AnyFailed, Passed
<1>4. /\ cmd'[c].op \in CommandOps \cup {"status"}
      /\ cmd'[c].op \in CommandOps => phase = "commands" /\ waiting' = next
      /\ waiting' = waiting \/ (waiting = 0 /\ waiting' = next)
  <2>1. CASE StatusCheck(c) \/ OtherAsks(c)
    BY <2>1 DEF StatusCheck, OtherAsks, Sends, At, CommandOps, runner
  <2>2. CASE CommandCheck(c)
    <3>1. phase = "commands" /\ Head(todo) \in CommandOps
      BY <1>0, <2>2, NextCheck DEF CommandCheck, At
    <3> QED
      BY <2>2, <3>1 DEF CommandCheck, Sends, At
  <2> QED
    BY <2>1, <2>2
<1>5. work'[c] = cmd'[c].op
  <2>1. PICK op \in Ops : \E argument \in ArgumentsOf(op) :
          /\ cmd' = [cmd EXCEPT ![c] = [id |-> next, op |-> op, target |-> argument]]
          /\ work' = [work EXCEPT ![c] = FirstWork(op)]
    BY <1>1 DEF Request
  <2>2. cmd'[c].op = op /\ work'[c] = FirstWork(op)
    BY <1>0, <2>1 DEF TypeOK
  <2> QED
    BY <1>4, <2>2 DEF FirstWork, CommandOps
<1>6. Sent'
  <2>1. ASSUME NEW d \in Clients \ {c}, pc'[d] # "idle", Attended(d) PROVE Attended(d)'
    <3>1. cmd[d].id # 0
      BY <1>0, <1>2, <2>1 DEF Requests, Others, Ids
    <3> QED
      BY <1>1, <1>2, <1>4, <2>1, <3>1 DEF Attended, Others
  <2>2. cmd'[c].op \in CommandOps => Attended(c)'
    BY <1>1, <1>2, <1>4 DEF Attended
  <2> QED
    BY <1>2, <1>3, <1>4, <1>5, <2>1, <2>2 DEF SentInv, Sent, Others
<1>7. SlewAccounted'
  <2>1. ASSUME NEW d \in Clients, cmd[d].id = waiting, Turning(d), waiting # 0
        PROVE  cmd'[d].id = waiting /\ Turning(d)'
    BY <1>2, <2>1 DEF Turning, Others
  <2>2. CASE waiting' = waiting
    BY <1>1, <1>2, <1>3, <2>1, <2>2 DEF SentInv, SlewAccounted
  <2>3. CASE waiting = 0
    BY <1>1, <1>2, <1>3, <2>3 DEF SentInv, SlewAccounted
  <2> QED
    BY <1>4, <2>2, <2>3
<1> QED
  BY <1>6, <1>7 DEF SentInv

LEMMA RequestCause ==
  ASSUME CourseInv, Caused, NEW c \in Clients,
         StatusCheck(c) \/ CommandCheck(c) \/ OtherAsks(c)
  PROVE  Caused'
<1>0. /\ ServerInv /\ TypeOK /\ ScriptTypes /\ Course /\ Requests
      /\ \A d \in Clients : pc[d] = "idle" => ~failed[d]
  BY DEF CourseInv, ServerInv, RecordInv, Requests
<1>1. Request(c) /\ UNCHANGED <<options, phase, todo, acks, met>>
  BY DEF StatusCheck, CommandCheck, OtherAsks, Sends, runner, answers
<1>2. /\ pc[c] = "idle" /\ pc'[c] = "connect" /\ Others(c) /\ cmd'[c].id = next /\ next \in Ids
      /\ failed' = failed /\ UNCHANGED <<mount, outcome, overlapped>>
  BY <1>0, <1>1, RequestMade
<1>3. /\ \A op : Missing(op)' <=> Missing(op)
      /\ \A op : LeftBehind(op)' <=> LeftBehind(op)
      /\ AnyFailed' <=> AnyFailed
      /\ \A i : Passed(i)' <=> Passed(i)
  BY <1>1, <1>2 DEF Missing, LeftBehind, AnyFailed, Passed
<1>4. /\ cmd'[c].op \in CommandOps \cup {"status"}
      /\ cmd'[c].op \in CommandOps => phase = "commands" /\ waiting' = next
      /\ waiting' = waiting \/ (waiting = 0 /\ waiting' = next)
  <2>1. CASE StatusCheck(c) \/ OtherAsks(c)
    BY <2>1 DEF StatusCheck, OtherAsks, Sends, At, CommandOps, runner
  <2>2. CASE CommandCheck(c)
    <3>1. phase = "commands" /\ Head(todo) \in CommandOps
      BY <1>0, <2>2, NextCheck DEF CommandCheck, At
    <3> QED
      BY <2>2, <3>1 DEF CommandCheck, Sends, At
  <2> QED
    BY <2>1, <2>2
<1>5. Caused'
  <2>1. outcome[next] = "none"
    BY <1>0, <1>2 DEF Requests, TypeOK
  <2>2. \A d \in Clients : pc'[d] # "idle" /\ failed'[d] => d # c /\ pc[d] # "idle" /\ failed[d]
                                                            /\ cmd'[d] = cmd[d]
    BY <1>0, <1>2 DEF Others
  <2> QED
    BY <1>1, <1>2, <1>3, <1>4, <2>1, <2>2 DEF Caused
<1> QED
  BY <1>5

LEMMA ConcludingCause ==
  ASSUME CourseInv, OrderInv, SentInv, Concluding
  PROVE  SentInv' /\ (Caused => Caused')
<1>0. ServerInv /\ ScriptTypes /\ Course /\ Requests
  BY DEF CourseInv, ServerInv, RecordInv
<1>1. /\ todo # <<>> /\ UNCHANGED <<pc, cmd, work, failed, mount, outcome, overlapped, met>>
  BY <1>0, Conclusions DEF vars, answers
<1>2. PICK code :
        /\ Concludes(code)
        /\ phase = "commands" =>
             \/ code = "error"
             \/ code = "401" /\ waiting = 0 /\ options.configured = "secret"
             \/ /\ waiting # 0 /\ code = CodeOf(outcome[waiting])
                /\ outcome[waiting] \in {"ok", "502", "500"}
  BY <1>0, Conclusions
<1>3. waiting' = 0 /\ UNCHANGED <<phase, options>>
  BY <1>2 DEF Concludes
<1>4. CASE phase # "commands"
  <2>1. acks' = acks
    BY <1>0, <1>1, <1>2, <1>4, NextCheck DEF Concludes
  <2>2. /\ \A op : Missing(op)' <=> Missing(op)
        /\ \A op : LeftBehind(op)' <=> LeftBehind(op)
        /\ AnyFailed' <=> AnyFailed
        /\ \A i : Passed(i)' <=> Passed(i)
    BY <1>1, <2>1 DEF Missing, LeftBehind, AnyFailed, Passed
  <2>3. Sent' /\ SlewAccounted'
    BY <1>1, <1>4, <2>2 DEF SentInv, Sent, Attended, SlewAccounted
  <2>4. Caused => Caused'
    BY <1>1, <1>3, <1>4, <2>1, <2>2 DEF Caused
  <2> QED
    BY <2>3, <2>4 DEF SentInv
<1>5. CASE phase = "commands"
  <2>0. code \in AckCodes
    BY <1>2, <1>5 DEF AckCodes, CodeOf
  <2>. PICK n, check : n = Len(acks) + 1 /\ check = Head(todo)
    OBVIOUS
  <2>1. /\ Len(acks) \in Nat /\ Len(acks') = n
        /\ \A i \in 1..Len(acks) : acks'[i] = acks[i]
        /\ acks'[n].op = check /\ acks'[n].code = code /\ acks'[n].id = waiting
    BY <1>0, <1>1, <1>2, <1>5, <2>0, Acked
  <2>2. \A i \in 1..Len(acks') : i \in 1..Len(acks) \/ i = n
    BY <2>1
  <2>3. n \in 1..Len(acks') /\ 1..Len(acks) \subseteq 1..Len(acks')
    BY <2>1
  <2>4. /\ \A op : Missing(op)' <=> Missing(op)
        /\ \A i \in 1..Len(acks) : Passed(i)' <=> Passed(i)
        /\ Passed(n)' <=> code = "200"
    BY <1>1, <2>1 DEF Missing, Passed
  <2>5. /\ \A op : LeftBehind(op) => LeftBehind(op)'
        /\ AnyFailed => AnyFailed'
        /\ code # "200" => LeftBehind(check)'
    BY <2>1, <2>3, <2>4 DEF LeftBehind, AnyFailed
  <2>6. ASSUME NEW d \in Clients, pc[d] # "idle", cmd[d].id = waiting PROVE code # "200"
    BY <1>0, <1>2, <1>5, <2>6 DEF Requests, CodeOf, Ids
  <2>7. Sent'
    <3>1. \A d \in Clients : pc[d] # "idle" /\ Attended(d) => cmd[d].op = Head(todo)
      BY <1>0, <1>5 DEF OrderInv, Awaited, Attended, Requests, Ids
    <3> QED
      BY <1>1, <2>5, <2>6, <3>1 DEF SentInv, Sent, Attended
  <2>8. SlewAccounted'
    <3> SUFFICES ASSUME mount.slewing PROVE LeftBehind("slew")'
      BY <1>1 DEF SlewAccounted
    <3>1. CASE LeftBehind("slew")
      BY <2>5, <3>1
    <3>2. CASE ~LeftBehind("slew")
      <4>1. /\ waiting # 0 /\ Head(todo) = "slew"
            /\ \/ outcome[waiting] \in {"502", "500"}
               \/ \E d \in Clients : cmd[d].id = waiting /\ Turning(d)
        BY <3>2 DEF SentInv, SlewAccounted
      <4>2. code # "200"
        BY <1>2, <1>5, <2>6, <4>1 DEF CodeOf, Turning
      <4> QED
        BY <2>5, <4>1, <4>2
    <3> QED
      BY <3>1, <3>2
  <2>9. ASSUME Caused PROVE Caused'
    <3>1. ASSUME NEW i \in 1..Len(acks'), acks'[i].code = "502"
          PROVE  Missing(acks'[i].op) \/ acks'[i].id \in met \/ \E j \in 1..(i - 1) : ~Passed(j)'
      <4>1. CASE i \in 1..Len(acks)
        <5>1. \A j \in 1..(i - 1) : Passed(j)' <=> Passed(j)
          BY <2>1, <2>4, <4>1
        <5> QED
          BY <2>9, <2>1, <3>1, <4>1, <5>1 DEF Caused
      <4>2. CASE i = n
        <5>1. waiting # 0 /\ outcome[waiting] = "502"
          BY <1>2, <1>5, <2>1, <3>1, <4>2 DEF CodeOf
        <5>2. Missing(Head(todo)) \/ waiting \in met \/ AnyFailed
          BY <2>9, <1>5, <5>1 DEF Caused
        <5>3. AnyFailed => \E j \in 1..(i - 1) : ~Passed(j)'
          BY <2>1, <2>4, <4>2 DEF AnyFailed
        <5> QED
          BY <2>1, <4>2, <5>2, <5>3
      <4> QED
        BY <2>2, <4>1, <4>2
    <3>2. \A i \in 1..Len(acks') : acks'[i].code = "401" => options.configured = "secret"
      BY <2>9, <1>2, <1>5, <2>1, <2>2 DEF Caused, CodeOf
    <3>3. \A c \in Clients : pc[c] # "idle" /\ failed[c] /\ cmd[c].op \in CommandOps =>
            Missing(cmd[c].op) \/ c \in overlapped \/ AnyFailed'
      BY <2>9, <2>5 DEF Caused
    <3> QED
      BY <1>1, <1>3, <2>4, <3>1, <3>2, <3>3 DEF Caused
  <2> QED
    BY <2>7, <2>8, <2>9 DEF SentInv
<1> QED
  BY <1>4, <1>5

LEMMA SentNext ==
  ASSUME CourseInv, OrderInv, SentInv, [SmokeNext]_smokeVars
  PROVE  SentInv' /\ (Sound /\ Caused => Caused')
<1>1. CASE Gate \/ Report \/ Idles
  <2>1. /\ UNCHANGED <<pc, cmd, work, failed, outcome, overlapped, options, acks, waiting, met>>
        /\ mount'.can = mount.can /\ (mount'.slewing => mount.slewing)
    BY <1>1 DEF CourseInv, ServerInv, TypeOK, Gate, Report, Idles, MountArrives, Ended, smokeVars,
       vars, answers, runner
  <2>2. (phase' = phase /\ todo' = todo) \/ waiting = 0
    BY <1>1 DEF CourseInv, Course, Gate, Report, Idles, runner
  <2>3. /\ \A op : Missing(op)' <=> Missing(op)
        /\ \A op : LeftBehind(op)' <=> LeftBehind(op)
        /\ AnyFailed' <=> AnyFailed
        /\ \A i : Passed(i)' <=> Passed(i)
    BY <2>1 DEF Missing, LeftBehind, AnyFailed, Passed
  <2>4. \A c \in Clients : pc[c] # "idle" => cmd[c].id # 0
    BY DEF CourseInv, ServerInv, RecordInv, Requests, Ids
  <2>5. Sent'
    BY <2>1, <2>2, <2>3, <2>4 DEF SentInv, Sent, Attended
  <2>6. SlewAccounted'
    BY <2>1, <2>2, <2>3 DEF SentInv, SlewAccounted, Turning
  <2>7. Caused => Caused'
    BY <2>1, <2>2, <2>3 DEF Caused
  <2> QED
    BY <2>5, <2>6, <2>7 DEF SentInv
<1>2. ASSUME NEW c \in Clients, Serve(c) PROVE SentInv' /\ (Sound /\ Caused => Caused')
  BY <1>2, ServeSent, ServeCause
<1>3. ASSUME NEW c \in Clients, StatusCheck(c) \/ CommandCheck(c) \/ OtherAsks(c)
      PROVE  SentInv' /\ (Sound /\ Caused => Caused')
  BY <1>3, RequestSent, RequestCause
<1>4. CASE Concluding
  BY <1>4, ConcludingCause
<1> QED
  BY <1>1, <1>2, <1>3, <1>4, SmokeSteps

LEMMA SentHolds == SmokeSpec => []SentInv
<1>1. SmokeInit => SentInv
  BY DEF SmokeInit, Init, SentInv, Sent, SlewAccounted
<1> QED
  BY <1>1, SentNext, OrderHolds, CourseHolds, PTL DEF SmokeSpec

\* With a sound mount and network, the first command check that fails with a driver
\* error has one of two causes, a lacking capability or another transaction that met
\* it; and none is refused unless the manifest announces that its tool needs the token.
THEOREM FailureCaused ==
  ASSUME Sound
  PROVE  SmokeSpec => []FirstFailureHasCause
<1>1. SmokeInit => Caused
  BY DEF SmokeInit, Init, Caused
<1>2. CourseInv /\ OrderInv /\ SentInv /\ Caused /\ [SmokeNext]_smokeVars => Caused'
  BY SentNext
<1>3. CourseInv /\ Caused => FirstFailureHasCause
  <2> SUFFICES ASSUME CourseInv, Caused, NEW i \in 1..Len(acks)
               PROVE  /\ acks[i].code = "502" /\ (\A j \in 1..(i - 1) : Passed(j)) =>
                           Missing(acks[i].op) \/ acks[i].id \in met
                      /\ acks[i].code = "401" =>
                           acks[i].op \in ToolOps(ManifestTokenTools(options.configured))
    BY DEF FirstFailureHasCause
  <2>1. acks[i].op \in CommandOps
    <3>1. acks[i] \in Ack
      BY DEF CourseInv, ScriptTypes
    <3> QED
      BY <3>1 DEF Ack
  <2>2. options.configured = "secret" =>
          acks[i].op \in ToolOps(ManifestTokenTools(options.configured))
    BY <2>1 DEF ToolOps, ManifestTokenTools, TokenAnnounced, CommandTools, CommandOps
  <2> QED
    BY <2>2 DEF Caused
<1> QED
  BY <1>1, <1>2, <1>3, SentHolds, OrderHolds, CourseHolds, PTL DEF SmokeSpec

-----------------------------------------------------------------------------
(* What a green run leaves behind. *)

\* What the script sends with its command checks.
Fixed ==
  \A c \in Clients : pc[c] # "idle" /\ cmd[c].op \in CommandOps =>
    cmd[c].target = IF cmd[c].op = "tracking" THEN 1 ELSE Target

\* Tracking is only ever switched on: nobody but the script sends commands.
TrackedOn == \A i \in 1..Len(moves) : moves[i].op = "tracking" => mount.tracking = 1

AllPassed == \A i \in 1..Len(acks) : Passed(i)

\* Up to its first result, the mount has obeyed at most the command that is awaited.
FirstMove ==
  acks = <<>> => \A id \in IdsIn(moves) : phase = "commands" /\ waiting # 0 /\ id = waiting

\* The audit records keep up with the results, or are ahead by the command awaited.
Ahead == phase = "commands" /\ waiting # 0 /\ waiting \in IdsIn(audits)
InStep ==
  /\ Len(audits) = IF Ahead THEN Len(acks) + 1 ELSE Len(acks)
  /\ \A i \in 1..Len(audits) : audits[i].op = CommandChecks[i]

\* From the record of the slew on, the mount is at rest where it was sent.
AtTarget == audits # <<>> => ~mount.slewing /\ mount.pos = Target

Clean == green => AllPassed /\ FirstMove /\ InStep /\ AtTarget

\* A run that was asked for commands is green only if it has made them all.
Finish ==
  /\ phase = "report" /\ options.include_commands => ~green
  /\ phase = "done" /\ options.include_commands /\ green => Len(acks) = 3
  /\ exit = "0" => phase = "done" /\ (options.strict => green)

CleanInv == Fixed /\ TrackedOn /\ Clean /\ Finish


\* A step of the server, as far as position, tracking and arguments go.
LEMMA MountStep ==
  ASSUME ServerInv, NEW c \in Clients, Transaction(c) \/ Handler(c)
  PROVE  /\ StartSlew(c) \/ Sync(c) \/ (mount'.pos = mount.pos /\ mount'.slewing = mount.slewing)
         /\ SetTracking(c) \/ mount'.tracking = mount.tracking
         /\ moves' = moves \/ work[c] # "tracking" \/ SetTracking(c)
         /\ pc'[c] # "idle" /\ cmd[c].op # "nudge" => cmd'[c] = cmd[c]
<1>0. TypeOK
  BY DEF ServerInv
<1>1. CASE StartSlew(c)
  BY <1>0, <1>1 DEF TypeOK, StartSlew, Obeyed, Working
<1>2. CASE Sync(c) \/ SetTracking(c)
  BY <1>0, <1>2 DEF TypeOK, Sync, SetTracking, Obeyed, Working
<1>3. CASE \/ Connect(c) \/ ConnectFails(c) \/ Connected(c) \/ NotConnected(c) \/ CallFails(c)
           \/ Refused(c) \/ Read(c) \/ Settled(c) \/ SettleTimesOut(c) \/ BlockingSlewReturns(c)
  BY <1>0, <1>3 DEF TypeOK, Connect, ConnectFails, Connected, NotConnected, CallFails, Refused,
     Read, Settled, SettleTimesOut, BlockingSlewReturns, records
<1>4. CASE Handler(c)
  <2>1. /\ mount'.pos = mount.pos /\ mount'.slewing = mount.slewing
        /\ mount'.tracking = mount.tracking /\ moves' = moves
    BY <1>0, <1>4 DEF TypeOK, Handler, CloseFailed, CloseRead, CloseNudgeRead, CloseMoved,
       Disconnect, Publish, PublishFails, Audit, AuditFails, records
  <2>2. pc'[c] # "idle" /\ cmd[c].op # "nudge" => cmd'[c] = cmd[c]
    BY <1>0, <1>4 DEF TypeOK, Handler, CloseFailed, CloseRead, CloseNudgeRead, CloseMoved,
       Publish, PublishFails, Audit, AuditFails, Ends, Goto
  <2> QED
    BY <2>1, <2>2
<1> QED
  BY <1>1, <1>2, <1>3, <1>4 DEF Transaction

LEMMA ServeFixed ==
  ASSUME CourseInv, SentInv, Fixed, NEW c \in Clients, Serve(c)
  PROVE  Fixed'
<1>1. ServerInv /\ (Transaction(c) \/ Handler(c))
  BY DEF CourseInv, Serve
<1>2. /\ pc[c] # "idle" /\ Others(c)
      /\ pc'[c] # "idle" => cmd'[c].op = cmd[c].op
      /\ pc'[c] # "idle" /\ cmd[c].op # "nudge" => cmd'[c] = cmd[c]
  BY <1>1, ServerStep, MountStep
<1>3. cmd[c].op \in CommandOps \cup {"status"}
  BY <1>2 DEF SentInv, Sent
<1>4. pc'[c] # "idle" => cmd'[c] = cmd[c]
  BY <1>2, <1>3 DEF CommandOps
<1> QED
  BY <1>2, <1>4 DEF Fixed, Others

LEMMA RequestFixed ==
  ASSUME CourseInv, Fixed, NEW c \in Clients, StatusCheck(c) \/ CommandCheck(c) \/ OtherAsks(c)
  PROVE  Fixed'
<1>1. Request(c) /\ TypeOK
  BY DEF CourseInv, ServerInv, StatusCheck, CommandCheck, OtherAsks, Sends
<1>2. pc[c] = "idle" /\ Others(c)
  BY <1>1, RequestMade
<1>3. cmd'[c].op \in CommandOps =>
        cmd'[c].target = IF cmd'[c].op = "tracking" THEN 1 ELSE Target
  BY DEF StatusCheck, CommandCheck, OtherAsks, Sends, CommandOps
<1> QED
  BY <1>2, <1>3 DEF Fixed, Others

LEMMA ServeTracked ==
  ASSUME CourseInv, SentInv, Fixed, TrackedOn, NEW c \in Clients, Serve(c)
  PROVE  TrackedOn'
<1>1. ServerInv /\ TypeOK /\ (Transaction(c) \/ Handler(c))
  BY DEF CourseInv, ServerInv, Serve
<1>2. /\ pc[c] # "idle"
      /\ moves' = moves \/ moves' = Append(moves, cmd[c])
      /\ SetTracking(c) \/ mount'.tracking = mount.tracking
      /\ moves' = moves \/ work[c] # "tracking" \/ SetTracking(c)
  BY <1>1, ServerStep, MountStep
<1>3. work[c] = cmd[c].op
  BY <1>2 DEF SentInv, Sent
<1>4. CASE SetTracking(c)
  <2>1. work[c] = "tracking" /\ mount'.tracking = cmd[c].target
    BY <1>1, <1>4 DEF TypeOK, SetTracking, Working
  <2>2. mount'.tracking = 1
    BY <1>2, <1>3, <2>1 DEF Fixed, CommandOps
  <2> QED
    BY <2>2 DEF TrackedOn
<1>5. CASE ~SetTracking(c)
  <2>1. mount'.tracking = mount.tracking /\ (moves' = moves \/ cmd[c].op # "tracking")
    BY <1>2, <1>3, <1>5
  <2>2. CASE moves' = moves
    BY <2>1, <2>2 DEF TrackedOn
  <2>3. CASE moves' = Append(moves, cmd[c]) /\ cmd[c].op # "tracking"
    <3>1. moves \in Seq(Commands)
      BY <1>1 DEF TypeOK
    <3>2. /\ Len(moves) \in Nat /\ Len(moves') = Len(moves) + 1
          /\ \A i \in 1..Len(moves) : moves'[i] = moves[i]
          /\ moves'[Len(moves) + 1] = cmd[c]
      BY <2>3, <3>1
    <3>3. ASSUME NEW i \in 1..Len(moves'), moves'[i].op = "tracking" PROVE mount'.tracking = 1
      <4>1. i \in 1..Len(moves)
        BY <2>3, <3>2, <3>3
      <4> QED
        BY <2>1, <3>2, <3>3, <4>1 DEF TrackedOn
    <3> QED
      BY <3>3 DEF TrackedOn
  <2> QED
    BY <1>2, <2>1, <2>2, <2>3
<1> QED
  BY <1>4, <1>5


\* In a run that is green so far, a command in the server is the one of the check.
LEMMA OwnCommand ==
  ASSUME CourseInv, OrderInv, SentInv, AllPassed,
         NEW c \in Clients, pc[c] # "idle", cmd[c].op \in CommandOps
  PROVE  /\ phase = "commands" /\ waiting # 0 /\ cmd[c].id = waiting
         /\ Len(acks) \in Nat /\ Len(acks) < 3 /\ cmd[c].op = CommandChecks[Len(acks) + 1]
<1>0. ScriptTypes /\ Course /\ Requests /\ Awaited
  BY DEF CourseInv, ServerInv, RecordInv, OrderInv
<1>1. phase = "commands" /\ cmd[c].id = waiting
  BY DEF SentInv, Sent, Attended, LeftBehind, AllPassed
<1>2. waiting # 0 /\ todo # <<>>
  BY <1>0, <1>1 DEF Requests, Ids, Course
<1>3. cmd[c].op = Head(todo)
  BY <1>0, <1>1, <1>2 DEF Awaited
<1>4. Len(acks) < 3 /\ Head(todo) = CommandChecks[Len(acks) + 1]
  BY <1>0, <1>1, <1>2, NextCheck
<1>5. Len(acks) \in Nat
  BY <1>0 DEF ScriptTypes
<1> QED
  BY <1>1, <1>2, <1>3, <1>4, <1>5

\* A request about to be recorded is for a command the mount obeyed.
LEMMA AtAudit ==
  ASSUME ServerInv, NEW c \in Clients, pc[c] = "audit"
  PROVE  Occurs(cmd[c], moves) /\ cmd[c].id \notin IdsIn(audits) /\ work[c] \in MotionWork
<1>1. ProgressOf(c) /\ Within(events, moves)
  BY DEF ServerInv, RecordInv, Progress, Logs
<1>2. PICK i \in 1..Len(events) : events[i] = cmd[c]
  BY <1>1 DEF ProgressOf, Occurs
<1>3. Occurs(cmd[c], moves)
  BY <1>1, <1>2 DEF Within
<1>4. cmd[c].id \in IdsIn(moves)
  BY <1>3, OccursId
<1> QED
  BY <1>1, <1>3, <1>4 DEF ProgressOf

\* The only command the mount has obeyed is the last one.
LEMMA OnlyMoved ==
  ASSUME TypeOK, Once(moves), NEW x, Occurs(x, moves), IsMotion(x),
         \A id \in IdsIn(moves) : id = x.id
  PROVE  MovedLast(x.id)
<1>1. PICK i \in 1..Len(moves) : moves[i] = x
  BY DEF Occurs
<1>2. \A j \in 1..Len(moves) : moves[j].id = x.id
  BY DEF IdsIn
<1>3. \A j \in 1..Len(moves) : j = i
  BY <1>1, <1>2 DEF Once
<1>4. Len(moves) \in Nat
  BY DEF TypeOK
<1> QED
  BY <1>1, <1>3, <1>4 DEF MovedLast

\* What a step that does not write an audit record leaves as it is.
LEMMA Recording ==
  ASSUME ServerInv, NEW c \in Clients, Transaction(c) \/ Handler(c), audits' # audits
  PROVE  mount' = mount /\ moves' = moves
<1>1. Audit(c) \/ AuditFails(c)
  BY DEF Transaction, Connect, ConnectFails, Connected, NotConnected, CallFails, StartSlew, Sync,
     SetTracking, Refused, Read, Settled, SettleTimesOut, BlockingSlewReturns, Obeyed,
     Handler, CloseFailed, CloseRead, CloseNudgeRead, CloseMoved, Publish, PublishFails, records
<1> QED
  BY <1>1 DEF Audit, AuditFails

LEMMA ServeAtTarget ==
  ASSUME CourseInv, OrderInv, SentInv, Fixed, AllPassed, FirstMove, InStep, AtTarget,
         NEW c \in Clients, Serve(c)
  PROVE  AtTarget'
<1>0. /\ ServerInv /\ TypeOK /\ (Transaction(c) \/ Handler(c)) /\ pc[c] # "idle"
      /\ audits' = audits \/ pc[c] = "audit"
  BY ServerStep DEF CourseInv, ServerInv, Serve
<1>1. work[c] = cmd[c].op /\ cmd[c].op \in CommandOps \cup {"status"}
  BY <1>0 DEF SentInv, Sent
<1>2. ASSUME audits' # audits, audits = <<>>
      PROVE  ~mount.slewing /\ mount.pos = Target
  <2>1. pc[c] = "audit" /\ Occurs(cmd[c], moves) /\ work[c] \in MotionWork
    BY <1>0, <1>2, AtAudit
  <2>2. cmd[c].op \in CommandOps
    BY <1>1, <2>1 DEF MotionWork, CommandOps
  <2>3. /\ waiting # 0 /\ cmd[c].id = waiting /\ Len(acks) \in Nat
        /\ cmd[c].op = CommandChecks[Len(acks) + 1]
    BY <1>0, <2>2, OwnCommand
  <2>4. Len(acks) = 0
    <3>1. Len(audits) = 0
      BY <1>2
    <3> QED
      BY <2>3, <3>1 DEF InStep
  <2>5. acks = <<>>
    BY <2>4 DEF CourseInv, ScriptTypes
  <2>6. cmd[c].op = "slew" /\ cmd[c].target = Target
    <3>1. cmd[c].op = "slew"
      BY <2>3, <2>4, ThreeCommands
    <3> QED
      BY <1>0, <2>2, <3>1 DEF Fixed
  <2>7. MovedLast(cmd[c].id)
    <3>1. \A id \in IdsIn(moves) : id = cmd[c].id
      BY <2>3, <2>5 DEF FirstMove
    <3>2. Once(moves) /\ IsMotion(cmd[c])
      BY <1>0, <2>6 DEF ServerInv, RecordInv, Logs, IsMotion
    <3> QED
      BY <1>0, <2>1, <3>1, <3>2, OnlyMoved
  <2>8. Slewing(c)
    BY <1>0 DEF ServerInv, MotionInv
  <2> QED
    BY <1>1, <2>1, <2>6, <2>7, <2>8 DEF Slewing, Arrived
<1>3. ASSUME audits # <<>> PROVE ~StartSlew(c) /\ (Sync(c) => cmd[c].target = Target)
  <2>1. ASSUME StartSlew(c) PROVE FALSE
    <3>1. pc[c] = "work" /\ work[c] = "slew"
      BY <2>1 DEF StartSlew, Working
    <3>2. cmd[c].op \in CommandOps /\ cmd[c].op = "slew"
      BY <1>1, <3>1 DEF CommandOps
    <3>3. /\ phase = "commands" /\ waiting # 0 /\ cmd[c].id = waiting /\ Len(acks) \in Nat
          /\ Len(acks) < 3 /\ cmd[c].op = CommandChecks[Len(acks) + 1]
      BY <1>0, <3>2, OwnCommand
    <3>4. Len(acks) = 0
      BY <3>2, <3>3, ThreeCommands
    <3>5. waiting \notin IdsIn(audits)
      BY <1>0, <3>3 DEF ServerInv, RecordInv, Progress, ProgressOf
    <3>6. Len(audits) = 0
      BY <3>4, <3>5 DEF InStep, Ahead
    <3> QED
      BY <1>0, <1>3, <3>6 DEF TypeOK
  <2>2. ASSUME Sync(c) PROVE cmd[c].target = Target
    <3>1. work[c] = "sync"
      BY <2>2 DEF Sync, Working
    <3> QED
      BY <1>0, <1>1, <3>1 DEF Fixed, CommandOps
  <2> QED
    BY <2>1, <2>2
<1>4. CASE audits' # audits
  <2>1. mount' = mount
    BY <1>0, <1>4, Recording
  <2> QED
    BY <1>2, <1>4, <2>1 DEF AtTarget
<1>5. CASE audits' = audits
  <2>1. StartSlew(c) \/ Sync(c) \/ (mount'.pos = mount.pos /\ mount'.slewing = mount.slewing)
    BY <1>0, MountStep
  <2>2. Sync(c) => mount'.pos = cmd[c].target /\ mount'.slewing = mount.slewing
    BY <1>0 DEF TypeOK, Sync
  <2> QED
    BY <1>3, <1>5, <2>1, <2>2 DEF AtTarget
<1> QED
  BY <1>4, <1>5


LEMMA ServeInStep ==
  ASSUME CourseInv, OrderInv, SentInv, AllPassed, FirstMove, InStep,
         NEW c \in Clients, Serve(c)
  PROVE  FirstMove' /\ InStep'
<1>0. /\ ServerInv /\ TypeOK /\ (Transaction(c) \/ Handler(c)) /\ pc[c] # "idle"
      /\ cmd[c] \in Commands /\ cmd[c].id # 0
      /\ UNCHANGED <<phase, acks, waiting>>
  BY ServerStep DEF CourseInv, ServerInv, RecordInv, Requests, Ids, TypeOK, Serve, runner
<1>1. /\ moves' = moves \/ (moves' = Append(moves, cmd[c]) /\ work[c] \in MotionWork)
      /\ audits' = audits \/ (audits' = Append(audits, cmd[c]) /\ pc[c] = "audit")
  BY <1>0, ServerStep
<1>2. ASSUME work[c] \in MotionWork
      PROVE  /\ phase = "commands" /\ waiting # 0 /\ cmd[c].id = waiting
             /\ Len(acks) \in Nat /\ cmd[c].op = CommandChecks[Len(acks) + 1]
  <2>1. cmd[c].op \in CommandOps
    BY <1>0, <1>2 DEF SentInv, Sent, MotionWork, CommandOps
  <2> QED
    BY <1>0, <2>1, OwnCommand
<1>3. FirstMove'
  <2>1. CASE moves' = moves
    BY <1>0, <2>1 DEF FirstMove, IdsIn
  <2>2. CASE moves' = Append(moves, cmd[c]) /\ work[c] \in MotionWork
    <3>1. IdsIn(moves') = IdsIn(moves) \cup {cmd[c].id}
      BY <1>0, <2>2, LogAppend DEF TypeOK
    <3>2. ASSUME acks = <<>>, NEW id \in IdsIn(moves')
          PROVE  phase = "commands" /\ waiting # 0 /\ id = waiting
      BY <1>2, <2>2, <3>1, <3>2 DEF FirstMove
    <3> QED
      BY <1>0, <3>2 DEF FirstMove
  <2> QED
    BY <1>1, <2>1, <2>2
<1>4. InStep'
  <2>1. CASE audits' = audits
    <3>1. Ahead' <=> Ahead
      BY <1>0, <2>1 DEF Ahead, IdsIn
    <3> QED
      BY <1>0, <2>1, <3>1 DEF InStep
  <2>2. CASE audits' = Append(audits, cmd[c]) /\ pc[c] = "audit"
    <3>1. work[c] \in MotionWork /\ cmd[c].id \notin IdsIn(audits)
      BY <1>0, <2>2, AtAudit
    <3>2. /\ phase = "commands" /\ waiting # 0 /\ cmd[c].id = waiting
          /\ Len(acks) \in Nat /\ cmd[c].op = CommandChecks[Len(acks) + 1]
      BY <1>2, <3>1
    <3>3. Len(audits) = Len(acks)
      BY <3>1, <3>2 DEF InStep, Ahead
    <3>4. audits \in Seq(Commands)
      BY <1>0 DEF TypeOK
    <3>5. /\ Len(audits') = Len(acks) + 1
          /\ \A i \in 1..Len(acks) : audits'[i] = audits[i]
          /\ audits'[Len(acks) + 1] = cmd[c]
      BY <2>2, <3>3, <3>4
    <3>6. Ahead'
      <4>1. waiting \in IdsIn(audits')
        BY <1>0, <2>2, <3>2, <3>4, LogAppend
      <4> QED
        BY <1>0, <3>2, <4>1 DEF Ahead
    <3>7. ASSUME NEW i \in 1..(Len(acks) + 1) PROVE audits'[i].op = CommandChecks[i]
      BY <3>2, <3>3, <3>5 DEF InStep
    <3> QED
      BY <1>0, <3>5, <3>6, <3>7 DEF InStep
  <2> QED
    BY <1>1, <2>1, <2>2
<1> QED
  BY <1>3, <1>4

LEMMA ServeClean ==
  ASSUME CourseInv, OrderInv, SentInv, CleanInv, NEW c \in Clients, Serve(c)
  PROVE  CleanInv'
<1>1. UNCHANGED <<options, phase, green, acks, exit>>
  BY DEF Serve, runner
<1>2. Fixed' /\ TrackedOn'
  BY ServeFixed, ServeTracked DEF CleanInv
<1>3. ASSUME green PROVE AllPassed' /\ FirstMove' /\ InStep' /\ AtTarget'
  <2>1. AllPassed /\ FirstMove /\ InStep /\ AtTarget
    BY <1>3 DEF CleanInv, Clean
  <2>2. AllPassed'
    BY <1>1, <2>1 DEF AllPassed, Passed
  <2> QED
    BY <2>1, <2>2, ServeInStep, ServeAtTarget DEF CleanInv
<1>4. Clean'
  BY <1>1, <1>3 DEF Clean
<1>5. Finish'
  BY <1>1 DEF CleanInv, Finish
<1> QED
  BY <1>2, <1>4, <1>5 DEF CleanInv

LEMMA RequestClean ==
  ASSUME CourseInv, CleanInv, NEW c \in Clients, StatusCheck(c) \/ CommandCheck(c) \/ OtherAsks(c)
  PROVE  CleanInv'
<1>0. /\ ServerInv /\ TypeOK /\ ScriptTypes /\ Course /\ Request(c) /\ Logged
      /\ UNCHANGED <<options, phase, green, acks, exit>>
  BY DEF CourseInv, ServerInv, RecordInv, StatusCheck, CommandCheck, OtherAsks, Sends, runner
<1>1. next \in Ids /\ UNCHANGED <<mount, moves, audits>>
  BY <1>0, RequestMade
<1>2. TrackedOn' /\ Finish'
  BY <1>0, <1>1 DEF CleanInv, TrackedOn, Finish
<1>3. waiting' = waiting \/ (waiting = 0 /\ waiting' = next)
  BY DEF StatusCheck, CommandCheck, OtherAsks, Sends, At, runner
<1>4. next \notin IdsIn(audits)
  BY <1>0 DEF Logged, TypeOK
<1>5. Ahead' <=> Ahead
  BY <1>0, <1>1, <1>3, <1>4 DEF Ahead, IdsIn
<1>6. ASSUME green PROVE AllPassed' /\ FirstMove' /\ InStep' /\ AtTarget'
  <2>1. AllPassed /\ FirstMove /\ InStep /\ AtTarget
    BY <1>6 DEF CleanInv, Clean
  <2>2. AllPassed' /\ AtTarget'
    BY <1>0, <1>1, <2>1 DEF AllPassed, Passed, AtTarget
  <2>3. InStep'
    BY <1>0, <1>1, <1>5, <2>1 DEF InStep
  <2>4. FirstMove'
    BY <1>0, <1>1, <1>3, <2>1 DEF FirstMove, IdsIn
  <2> QED
    BY <2>2, <2>3, <2>4
<1>7. Clean'
  BY <1>0, <1>6 DEF Clean
<1>8. Fixed'
  BY RequestFixed DEF CleanInv
<1> QED
  BY <1>2, <1>7, <1>8 DEF CleanInv

LEMMA ConcludingClean ==
  ASSUME CourseInv, OrderInv, CleanInv, Concluding
  PROVE  CleanInv'
<1>0. ServerInv /\ ScriptTypes /\ Course /\ Awaited
  BY DEF CourseInv, OrderInv
<1>1. todo # <<>> /\ UNCHANGED <<pc, cmd, mount, moves, audits>>
  BY <1>0, Conclusions DEF vars, records
<1>2. PICK code :
        /\ Concludes(code)
        /\ phase = "commands" =>
             \/ code = "error"
             \/ code = "401" /\ waiting = 0 /\ options.configured = "secret"
             \/ /\ waiting # 0 /\ code = CodeOf(outcome[waiting])
                /\ outcome[waiting] \in {"ok", "502", "500"}
  BY <1>0, Conclusions
<1>3. waiting' = 0 /\ UNCHANGED <<options, phase, exit>> /\ (green' => green /\ code = "200")
  <2>1. waiting' = 0 /\ UNCHANGED <<options, phase, exit>>
    BY <1>2 DEF Concludes
  <2>2. green' => green /\ code = "200"
    BY <1>2, Zenon DEF Concludes
  <2> QED
    BY <2>1, <2>2
<1>4. Fixed' /\ TrackedOn'
  BY <1>1 DEF CleanInv, Fixed, TrackedOn
<1>5. phase \in {"reads", "commands"}
  BY <1>0, <1>1, NextCheck
<1>6. Finish'
  BY <1>3, <1>5 DEF CleanInv, Finish
<1>7. ASSUME green' PROVE AllPassed' /\ FirstMove' /\ InStep' /\ AtTarget'
  <2>1. code = "200" /\ AllPassed /\ FirstMove /\ InStep /\ AtTarget
    BY <1>3, <1>7 DEF CleanInv, Clean
  <2>2. AtTarget' /\ ~Ahead'
    BY <1>1, <1>3, <2>1 DEF AtTarget, Ahead
  <2>3. CASE phase = "reads"
    <3>1. acks' = acks
      BY <1>2, <2>3 DEF Concludes
    <3>2. ~Ahead
      BY <2>3 DEF Ahead
    <3>3. InStep'
      BY <1>1, <2>1, <2>2, <3>1, <3>2 DEF InStep
    <3>4. AllPassed' /\ FirstMove'
      BY <1>1, <1>3, <2>1, <2>3, <3>1 DEF AllPassed, Passed, FirstMove, IdsIn
    <3> QED
      BY <2>2, <3>3, <3>4
  <2>4. CASE phase = "commands"
    <3>1. /\ Len(acks) \in Nat /\ Len(acks') = Len(acks) + 1
          /\ \A i \in 1..Len(acks) : acks'[i] = acks[i]
          /\ acks'[Len(acks) + 1].code = "200"
      BY <1>0, <1>1, <1>2, <2>1, <2>4, Acked DEF AckCodes
    <3>2. AllPassed'
      BY <2>1, <3>1 DEF AllPassed, Passed
    <3>3. acks' # <<>>
      BY <3>1
    <3>4. Ahead
      BY <1>0, <1>2, <2>1, <2>4 DEF Ahead, Awaited, CodeOf
    <3>5. InStep'
      BY <1>1, <2>1, <2>2, <3>1, <3>4 DEF InStep
    <3> QED
      BY <2>2, <3>2, <3>3, <3>5 DEF FirstMove
  <2> QED
    BY <1>5, <2>3, <2>4
<1>8. Clean'
  BY <1>7 DEF Clean
<1> QED
  BY <1>4, <1>6, <1>8 DEF CleanInv

LEMMA GateClean ==
  ASSUME CourseInv, CleanInv, Gate \/ Report \/ Idles
  PROVE  CleanInv'
<1>0. ServerInv /\ TypeOK /\ ScriptTypes /\ Course
  BY DEF CourseInv, ServerInv
<1>1. UNCHANGED <<options, acks, waiting, pc, cmd, moves, audits>> /\ (green' => green)
  BY DEF Gate, Report, Idles, runner, vars, records
<1>2. /\ mount'.tracking = mount.tracking
      /\ ~mount.slewing => ~mount'.slewing /\ mount'.pos = mount.pos
  BY <1>0 DEF TypeOK, Gate, Report, Idles, MountArrives, Ended, smokeVars, vars
<1>3. Fixed' /\ TrackedOn'
  BY <1>1, <1>2 DEF CleanInv, Fixed, TrackedOn
<1>4. phase' = phase \/ waiting = 0
  BY <1>0 DEF Course, Gate, Report, Idles, runner
<1>5. ASSUME green' PROVE AllPassed' /\ FirstMove' /\ InStep' /\ AtTarget'
  <2>1. AllPassed /\ FirstMove /\ InStep /\ AtTarget
    BY <1>1, <1>5 DEF CleanInv, Clean
  <2>2. AllPassed' /\ AtTarget'
    BY <1>1, <1>2, <2>1 DEF AllPassed, Passed, AtTarget
  <2>3. Ahead' <=> Ahead
    BY <1>1, <1>4 DEF Ahead, IdsIn
  <2>4. InStep'
    BY <1>1, <2>1, <2>3 DEF InStep
  <2>5. FirstMove'
    BY <1>1, <1>4, <2>1 DEF FirstMove, IdsIn
  <2> QED
    BY <2>2, <2>4, <2>5
<1>6. Clean'
  BY <1>5 DEF Clean
<1>7. Finish'
  <2>1. CASE Gate
    BY <1>1, <2>1 DEF CleanInv, Finish, Gate
  <2>2. CASE Report
    <3>1. phase = "commands" => Len(acks) = 3
      BY <1>0, <2>2 DEF Report, Course, ScriptTypes
    <3> QED
      BY <1>1, <2>2, <3>1 DEF CleanInv, Finish, Report, ExitCode
  <2>3. CASE Idles
    BY <2>3 DEF CleanInv, Finish, Idles, runner
  <2> QED
    BY <2>1, <2>2, <2>3
<1> QED
  BY <1>3, <1>6, <1>7 DEF CleanInv

LEMMA CleanHolds == SmokeSpec => []CleanInv
<1>1. SmokeInit => CleanInv
  BY DEF SmokeInit, Init, CleanInv, Fixed, TrackedOn, Clean, AllPassed, FirstMove, InStep, Ahead,
     AtTarget, Finish, IdsIn
<1>2. CourseInv /\ OrderInv /\ SentInv /\ CleanInv /\ [SmokeNext]_smokeVars => CleanInv'
  BY SmokeSteps, ServeClean, RequestClean, ConcludingClean, GateClean
<1> QED
  BY <1>1, <1>2, CourseHolds, OrderHolds, SentHolds, PTL DEF SmokeSpec

\* The evidence of a strict command run with exit code 0 is complete and in order, and
\* the mount stands tracking at the target, whatever others asked for in the meantime.
THEOREM GreenRunClean == SmokeSpec => []GreenRunIsClean
<1>1. CourseInv /\ CleanInv => GreenRunIsClean
  <2> SUFFICES ASSUME CourseInv, CleanInv, exit = "0", options.strict, options.include_commands
               PROVE  /\ [i \in 1..Len(AuditListing(10)) |-> AuditListing(10)[i].op]
                           = <<"tracking", "sync", "slew">>
                      /\ mount.pos = Target /\ mount.tracking = 1 /\ ~mount.slewing
    BY DEF GreenRunIsClean
  <2>0. /\ TypeOK /\ Within(audits, events) /\ Within(events, moves)
        /\ todo = <<>> /\ Course
    BY DEF CourseInv, ServerInv, RecordInv, Logs, CleanInv, Finish, Course
  <2>1. phase = "done" /\ green /\ Len(acks) = 3
    BY DEF CleanInv, Finish
  <2>2. Len(audits) = 3 /\ \A i \in 1..3 : audits[i].op = CommandChecks[i]
    BY <2>1 DEF CleanInv, Clean, InStep, Ahead
  <2>3. mount.pos = Target /\ ~mount.slewing
    <3>1. audits # <<>>
      BY <2>2
    <3> QED
      BY <2>1, <3>1 DEF CleanInv, Clean, AtTarget
  <2>4. mount.tracking = 1
    <3>1. PICK i \in 1..Len(events) : events[i] = audits[3]
      BY <2>0, <2>2 DEF Within, Occurs
    <3>2. PICK j \in 1..Len(moves) : moves[j] = audits[3]
      BY <2>0, <3>1 DEF Within, Occurs
    <3> QED
      BY <2>2, <3>2, ThreeCommands DEF CleanInv, TrackedOn
  <2>5. AuditListing(10) = [i \in 1..3 |-> audits[4 - i]]
    <3>1. AuditListing(10) = [i \in 1..Len(audits) |-> audits[Len(audits) + 1 - i]]
      <4>1. ~(10 < Len(audits))
        BY <2>2
      <4> QED
        BY <4>1, Zenon DEF AuditListing
    <3> QED
      BY <2>2, <3>1
  <2>6. [i \in 1..Len(AuditListing(10)) |-> AuditListing(10)[i].op]
          = [i \in 1..3 |-> audits[4 - i].op]
    <3>1. Len(AuditListing(10)) = 3 /\ \A i \in 1..3 : AuditListing(10)[i] = audits[4 - i]
      BY <2>5
    <3> QED
      BY <3>1, Zenon
  <2>7. audits[1].op = "slew" /\ audits[2].op = "sync" /\ audits[3].op = "tracking"
    BY <2>2, ThreeCommands
  <2>8. [i \in 1..3 |-> audits[4 - i].op] = <<"tracking", "sync", "slew">>
    BY <2>7
  <2> QED
    BY <2>3, <2>4, <2>6, <2>8
<1> QED
  BY <1>1, CourseHolds, CleanHolds, PTL

-----------------------------------------------------------------------------
(* Plans made from what status queries reported. *)

\* No report has a flag the mount does not have.
ReportsTrue == \A supports \in reports : supports \subseteq Reported(FALSE)

LEMMA ReportsNext == CourseInv /\ ReportsTrue /\ [SmokeNext]_smokeVars => ReportsTrue'
<1> SUFFICES ASSUME CourseInv, ReportsTrue, [SmokeNext]_smokeVars PROVE ReportsTrue'
  OBVIOUS
<1>0. ServerInv /\ TypeOK /\ ScriptTypes /\ Course
  BY DEF CourseInv, ServerInv
<1>1. ASSUME mount'.can = mount.can PROVE Reported(FALSE)' = Reported(FALSE)
  BY <1>1 DEF Reported
<1>2. ASSUME NEW c \in Clients, Serve(c) PROVE ReportsTrue'
  <2>1. mount'.can = mount.can
    BY <1>0, <1>2, ServerKeeps DEF Serve
  <2>2. \A snapshotFailed : Reported(snapshotFailed) \subseteq Reported(FALSE)
    BY DEF Reported, DefaultDisabled
  <2>3. \A supports \in reports' : supports \subseteq Reported(FALSE)
    BY <1>2, <2>2 DEF Serve, ReportsTrue
  <2> QED
    BY <1>1, <2>1, <2>3 DEF ReportsTrue
<1>3. ASSUME reports' = reports, mount'.can = mount.can PROVE ReportsTrue'
  BY <1>1, <1>3 DEF ReportsTrue
<1>4. ASSUME NEW c \in Clients, StatusCheck(c) \/ CommandCheck(c) \/ OtherAsks(c)
      PROVE  ReportsTrue'
  <2>1. Request(c) /\ reports' = reports
    BY <1>4 DEF StatusCheck, CommandCheck, OtherAsks, Sends, answers
  <2> QED
    BY <1>0, <1>3, <2>1, RequestMade
<1>5. CASE Concluding
  BY <1>0, <1>3, <1>5, Conclusions DEF vars, answers
<1>6. CASE Gate \/ Report \/ Idles
  <2>1. reports' = reports
    BY <1>6 DEF Gate, Report, Idles, answers
  <2>2. mount'.can = mount.can
    BY <1>0, <1>6 DEF TypeOK, Gate, Report, Idles, MountArrives, Ended, smokeVars, vars
  <2> QED
    BY <1>3, <2>1, <2>2
<1> QED
  BY <1>2, <1>4, <1>5, <1>6, SmokeSteps

\* A plan, made from whatever a status query was answered with, keeps the order of its
\* steps and sends nobody into a command the adapter refuses for want of a capability.
THEOREM PlansSafe == SmokeSpec => []PlanIsSafe
<1>1. SmokeInit => ReportsTrue
  BY DEF SmokeInit, ReportsTrue
<1>2. CourseInv /\ ReportsTrue => PlanIsSafe
  <2> SUFFICES ASSUME CourseInv, ReportsTrue, NEW supports \in reports, NEW mode \in Modes,
                      NEW includeDisabled \in BOOLEAN
               PROVE  LET plan == ExecutionPlan(mode, includeDisabled, supports)
                          Offers(tool) == \E i \in 1..Len(plan) : plan[i].tool = tool
                      IN  /\ \A i \in 1..Len(plan) :
                               plan[i].enabled /\ plan[i].tool \in CommandTools =>
                                 Supports(plan[i].tool)
                          /\ \A i, j \in 1..Len(plan) : i < j => plan[i].step < plan[j].step
                          /\ \A tool \in CommandTools :
                               RequiredCapability(tool) \subseteq supports => Offers(tool)
    BY Zenon DEF PlanIsSafe
  <2> DEFINE plan == ExecutionPlan(mode, includeDisabled, supports)
  <2>1. /\ \A i \in 1..Len(plan) :
             plan[i].enabled => RequiredCapability(plan[i].tool) \subseteq supports
        /\ \A i, j \in 1..Len(plan) : i < j => plan[i].step < plan[j].step
        /\ \A tool \in CommandTools : RequiredCapability(tool) \subseteq supports =>
             \E i \in 1..Len(plan) : plan[i].tool = tool
    BY PlansFailClosed
  <2>2. supports \subseteq Reported(FALSE)
    BY DEF ReportsTrue
  <2>3. ASSUME NEW tool \in CommandTools, RequiredCapability(tool) \subseteq supports
        PROVE  Supports(tool)
    BY <2>2, <2>3 DEF CommandTools, RequiredCapability, Supports, Reported, Slew, Nudge,
       SyncTool, Tracking
  <2> HIDE DEF plan
  <2>4. \A i \in 1..Len(plan) :
          plan[i].enabled /\ plan[i].tool \in CommandTools => Supports(plan[i].tool)
    BY <2>1, <2>3
  <2> QED
    BY <2>1, <2>4 DEF plan
<1> QED
  BY <1>1, <1>2, ReportsNext, CourseHolds, PTL DEF SmokeSpec

=============================================================================
