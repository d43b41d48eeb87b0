----------------------------- MODULE LedgerData -----------------------------
(***************************************************************************)
(* The data every part of the service talks about: accounts, transaction   *)
(* requests, ledger documents, and the faults of the environment that the  *)
(* code has an error path for.                                             *)
(***************************************************************************)
EXTENDS Balances

CONSTANTS
  Accounts,      \* account identifiers (models.NewAccountID)
  Requests,      \* POST /accounts/:id/transactions calls
  Bodies,        \* the request bodies clients send
  Faults,        \* which kinds of fault may strike
  MaxFaults      \* how many faults may strike in one behaviour

FaultKinds ==
  { "pg",         \* PostgreSQL refuses an operation, nothing was changed
    "pgCommit",   \* COMMIT takes effect but its answer is lost
    "mongo",      \* MongoDB refuses an operation, nothing was changed
    "mongoReply", \* a MongoDB write takes effect but its answer is lost
    "link",       \* an AMQP connection or channel closes
    "lost",       \* a published message does not reach the queue
    "expire",     \* a queued message outlives x-message-ttl
    "crash",      \* a service process dies
    "cancel" }    \* a client goes away, which cancels the request's context

(* The request passed the handler's validateTransactionRequest.            *)
ValidRequest(b) == b.type \in Types /\ b.amount > 0

(* Each request creates at most two documents: the pending one of the      *)
(* asynchronous path and the completed one of the synchronous path, under  *)
(* a fresh identifier each.                                                *)
QueuedId(r) == <<r, "queued">>
DirectId(r) == <<r, "direct">>
TxnIds      == Requests \X {"queued", "direct"}

Statuses == {"none", "pending", "completed", "failed"}
Messages == {"none", "business", "system", "unrecorded", "unqueued"}

(* models.Transaction; account, type and amount are those of the request,  *)
(* which nothing changes.  "none" stands for a document not in the store.  *)
Doc == [status : Statuses, prev : Int, new : Int, error : Messages]

NoDoc == [status |-> "none", prev |-> 0, new |-> 0, error |-> "none"]

ASSUME BodiesAssumption ==
  Bodies \subseteq [account : Accounts, type : Types \cup {"other"}, amount : Int]

ASSUME FaultsAssumption == Faults \subseteq FaultKinds /\ MaxFaults \in Nat

-----------------------------------------------------------------------------

VARIABLE faults    \* how many faults have struck

FaultsInit == faults = 0

Strike(kind) == kind \in Faults /\ faults < MaxFaults /\ faults' = faults + 1

Calm == faults' = faults

=============================================================================
