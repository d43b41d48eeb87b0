---------------------------- MODULE ReadRequests ----------------------------
(***************************************************************************)
(* The GET requests that take more than one step.  They share nothing but  *)
(* the backends, so one of a kind is in progress at a time.                *)
(***************************************************************************)
EXTENDS Readiness, HistoryPaging

VARIABLE route

vars == <<route, backendVars, readinessVars, historyVars>>

Init ==
  /\ changes = 0 /\ ReadinessInit /\ HistoryInit
  /\ \/ route = "/ready" /\ condition \in [Backends -> Conditions]
     \/ route = "/accounts/:id/transactions" /\ condition = [b \in Backends |-> "up"]

(* The client is done.                                                     *)
Ended == step = "ended" /\ UNCHANGED <<backendVars, readinessVars, historyVars>>

Next ==
  /\ UNCHANGED route
  /\ \/ route = "/ready" /\ ReadinessNext /\ UNCHANGED historyVars
     \/ route = "/accounts/:id/transactions" /\ (HistoryNext \/ Ended) /\ UNCHANGED readinessVars

Spec == Init /\ [][Next]_vars /\ ReadinessFairness

(* Every variable keeps its type.                                          *)
ReadsTypeOK ==
  /\ condition \in [Backends -> Conditions] /\ changes \in 0 .. MaxChanges
  /\ check \in {"idle", "postgres", "mongodb", "rabbitmq", "reply"} /\ late \in BOOLEAN
  /\ report \in [Backends -> {"none", "connected", "disconnected"}]
  /\ ready \in {"none", "ready", "not_ready"} /\ seen \in [Backends -> SUBSET Conditions]
  /\ docs \in Seq(Times) /\ Len(docs) <= MaxDocs
  /\ step \in {"idle", "account", "count", "find", "read", "ended"}
  /\ page \in 1 .. MaxInt /\ first \in 1 .. MaxInt /\ limit \in 1 .. MaxLimit
  /\ answer \in {0, 200, 400, 404, 499, 500} /\ last \subseteq DOMAIN docs
  /\ shown \in [1 .. MaxDocs -> Nat] /\ {total, start, before, found} \subseteq 0 .. MaxDocs

=============================================================================
