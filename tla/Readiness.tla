----------------------------- MODULE Readiness ------------------------------
(***************************************************************************)
(* handlers/health.go: GET /ready asks PostgreSQL, then MongoDB, for       *)
(* identifiers that do not exist, then looks at the RabbitMQ connection.   *)
(***************************************************************************)
EXTENDS Backends

VARIABLES
  check,     \* the check that comes next, "idle" or "reply"
  late,      \* the 10 s are over or the client has gone
  report,    \* what the checks found
  ready,     \* the last answer: "none", "ready" or "not_ready"
  seen       \* the conditions of each backend since the request came in

readinessVars == <<check, late, report, ready, seen>>

ReadinessInit ==
  /\ check = "idle" /\ late = FALSE /\ ready = "none"
  /\ report = [b \in Backends |-> "none"]
  /\ seen = [b \in Backends |-> {}]

Seen == seen' = [b \in Backends |-> seen[b] \cup {condition'[b]}]

ReadyCheck ==
  /\ check = "idle" /\ check' = "postgres"
  /\ late' = FALSE /\ ready' = "none"
  /\ report' = [b \in Backends |-> "none"]
  /\ seen' = [b \in Backends |-> {condition[b]}]
  /\ UNCHANGED backendVars

GetAccountByID     == Reads("postgres", FALSE, late)
GetTransactionByID == Reads("mongodb", FALSE, late)

Status(result) == IF result = "not found" THEN "connected" ELSE "disconnected"

Record(b, status, next) ==
  /\ report' = [report EXCEPT ![b] = status]
  /\ check' = next
  /\ UNCHANGED <<late, ready, seen, backendVars>>

checkPostgresConnection ==
  /\ check = "postgres"
  /\ \E result \in GetAccountByID : Record("postgres", Status(result), "mongodb")

(* Mutant of checkMongoConnection: it asks the account service.            *)
checkMongoViaAccounts ==
  /\ check = "mongodb"
  /\ \E result \in GetAccountByID : Record("mongodb", Status(result), "rabbitmq")

checkMongoConnection ==
  /\ check = "mongodb"
  /\ \E result \in GetTransactionByID : Record("mongodb", Status(result), "rabbitmq")

checkRabbitMQConnection ==
  /\ check = "rabbitmq"
  /\ Record("rabbitmq", IF IsConnected THEN "connected" ELSE "disconnected", "reply")

(* Mutant of allHealthy: the queue counts as well.                         *)
allChecked == \A b \in Backends : report[b] = "connected"

allHealthy == \A s \in Stores : report[s] = "connected"

ReadyReply ==
  /\ check = "reply" /\ check' = "idle"
  /\ ready' = IF allHealthy THEN "ready" ELSE "not_ready"
  /\ UNCHANGED <<late, report, seen, backendVars>>

(* Mutant of Expire: the context has no deadline, and waiting is all.      *)
NeverExpire == check # "idle" /\ UNCHANGED <<readinessVars, backendVars>>

Expire ==
  /\ check # "idle" /\ ~late /\ late' = TRUE
  /\ UNCHANGED <<check, report, ready, seen, backendVars>>

Disturb ==
  /\ \E b \in Backends : Change(b)
  /\ IF check = "idle" THEN UNCHANGED seen ELSE Seen
  /\ UNCHANGED <<check, late, report, ready>>

Probe == checkPostgresConnection \/ checkMongoConnection \/ checkRabbitMQConnection \/ ReadyReply

ReadinessNext == ReadyCheck \/ Probe \/ Expire \/ Disturb

(* The handler runs and its timer fires.                                   *)
ReadinessFairness == WF_<<readinessVars, backendVars>>(Probe) /\ WF_<<readinessVars, backendVars>>(Expire)

-----------------------------------------------------------------------------

(* An answer is founded on what the backends went through while the        *)
(* request was in progress, although they are asked one after the other:   *)
(* ready means that each store was up at some moment, whatever became of   *)
(* RabbitMQ; not ready means that some store was not, or that time ran out.*)
ReadyIsFounded ==
  /\ ready = "ready" => \A s \in Stores : "up" \in seen[s]
  /\ ready = "not_ready" => late \/ \E s \in Stores : seen[s] # {"up"}

(* A probe is answered, even by a service whose stores hang.               *)
ReadyCheckEnds == check # "idle" ~> check = "idle"

=============================================================================
