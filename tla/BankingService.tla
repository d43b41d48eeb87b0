--------------------------- MODULE BankingService ---------------------------
(***************************************************************************)
(* The service at work: HTTP handlers that receive transaction requests,   *)
(* the queue, the worker goroutines that consume it, and the two stores    *)
(* they both write.  A step is one call to a store or to the broker        *)
(* together with the code between it and the next such call, so every      *)
(* interleaving of handlers, workers, faults and process deaths between    *)
(* two external effects is a behaviour.                                    *)
(***************************************************************************)
EXTENDS AccountStorage, TransactionStorage, TransactionQueue

VARIABLES
  \* the requests: what each asks for and which instance it is routed to
  body, at,
  \* per request, its handler goroutine
  phase,       \* where the handler stands
  local,       \* the balances it holds in local variables
  cancelled,   \* its context is cancelled
  reply,       \* the answer written to the client
  \* per worker goroutine
  wphase, job, wlocal,
  reason,      \* the kind of error ProcessTransactionAsync will return
  \* what really happened, for the properties only
  opening,     \* the balance an account was opened with
  effect       \* how often document d's update stands in the balance

requestVars == <<body, at>>
handlerVars == <<phase, local, cancelled, reply>>
workerVars  == <<wphase, job, wlocal, reason>>
ghostVars   == <<opening, effect>>
vars == <<faults, accountVars, log, queueVars, requestVars, handlerVars,
          workerVars, ghostVars>>

NoBalances == [prev |-> 0, new |-> 0]

Phases == {"idle", "validate", "create", "publish", "unqueued", "update",
           "record", "rollback", "done", "dropped"}

Replies == {"none", "accepted", "ok", "rejected", "error"}

WorkerPhases == {"idle", "load", "update", "complete", "rollback", "mark",
                 "ack", "nack"}

Finished == {"idle", "done", "dropped"}

Init ==
  /\ FaultsInit /\ AccountsInit /\ LogInit /\ QueueInit
  /\ body \in [Requests -> Bodies]
  /\ at   \in [Requests -> Instances]
  /\ phase     = [r \in Requests |-> "idle"]
  /\ local     = [r \in Requests |-> NoBalances]
  /\ cancelled = [r \in Requests |-> FALSE]
  /\ reply     = [r \in Requests |-> "none"]
  /\ wphase = [w \in Workers |-> "idle"]
  /\ job    = [w \in Workers |-> NoMsg]
  /\ wlocal = [w \in Workers |-> NoBalances]
  /\ reason = [w \in Workers |-> "business"]
  /\ opening = [a \in Accounts |-> 0]
  /\ effect  = [d \in TxnIds |-> 0]

-----------------------------------------------------------------------------
(* Accounts and processes                                                  *)

OpenAccount(a, initial) ==
  /\ CreateAccount(a, initial)
  /\ opening' = [opening EXCEPT ![a] = initial]
  /\ UNCHANGED <<faults, log, queueVars, requestVars, handlerVars, workerVars,
                 effect>>

(* main: with a broker the workers start too; after ten failed attempts    *)
(* the process runs in synchronous mode, and stays there.                  *)
Start(i) ==
  /\ link[i] = "down"
  /\ \/ Calm /\ link' = [link EXCEPT ![i] = "up"]
     \/ Strike("link") /\ link' = [link EXCEPT ![i] = "sync"]
  /\ UNCHANGED <<accountVars, log, ready, unacked, requestVars, handlerVars,
                 workerVars, ghostVars>>

-----------------------------------------------------------------------------
(* The handler of POST /accounts/:id/transactions                          *)

Goto(r, p) == /\ phase' = [phase EXCEPT ![r] = p]
              /\ UNCHANGED reply

Finish(r, answer) == /\ phase' = [phase EXCEPT ![r] = "done"]
                     /\ reply' = [reply EXCEPT ![r] = answer]

Account(r) == body[r].account

(* Entry of the handler: mode selection after validation.                  *)
ReceiveTransaction(r) ==
  /\ phase[r] = "idle"
  /\ link[at[r]] # "down"
  /\ \/ ~ValidRequest(body[r]) /\ Finish(r, "rejected")
     \/ ValidRequest(body[r]) /\ IsConnected(at[r]) /\ Goto(r, "validate")
     \/ ValidRequest(body[r]) /\ ~IsConnected(at[r]) /\ Goto(r, "update")
  /\ UNCHANGED <<faults, accountVars, log, queueVars, requestVars, local,
                 cancelled, workerVars, ghostVars>>

(* The check is made on a balance that may be stale by the time it counts. *)
ShortOfFunds(r) == ShortOf(balance[Account(r)], body[r].type, body[r].amount)

ValidateAccount(r) ==
  /\ phase[r] = "validate"
  /\ \E out \in {"ok", "error"} :
       /\ GetAccountByID(cancelled[r], Account(r), out)
       /\ \/ /\ out = "ok" /\ ~ShortOfFunds(r)
             /\ local' = [local EXCEPT ![r] = [prev |-> balance[Account(r)], new |-> 0]]
             /\ Goto(r, "create")
          \/ /\ out = "error" \/ ShortOfFunds(r)
             /\ Finish(r, "rejected") /\ UNCHANGED local
  /\ UNCHANGED <<log, queueVars, requestVars, cancelled, workerVars, ghostVars>>

(* Mutant of CreatePending: a failed insert is tried again.                *)
CreatePendingRetrying(r) ==
  /\ phase[r] = "create"
  /\ \E out \in WriteOutcomes :
       /\ CreateTransaction(cancelled[r], QueuedId(r),
                            [status |-> "pending", prev |-> local[r].prev,
                             new |-> local[r].new, error |-> "none"], out)
       /\ Goto(r, IF out = "ok" THEN "publish" ELSE "create")
  /\ UNCHANGED <<accountVars, queueVars, requestVars, local, cancelled,
                 workerVars, ghostVars>>

CreatePending(r) ==
  /\ phase[r] = "create"
  /\ \E out \in WriteOutcomes :
       /\ CreateTransaction(cancelled[r], QueuedId(r),
                            [status |-> "pending", prev |-> local[r].prev,
                             new |-> local[r].new, error |-> "none"], out)
       /\ IF out = "ok" THEN Goto(r, "publish") ELSE Finish(r, "error")
  /\ UNCHANGED <<accountVars, queueVars, requestVars, local, cancelled,
                 workerVars, ghostVars>>

(* The answer is written in the same step: a request is accepted when it   *)
(* is published, even if its process dies before the 202 is sent.          *)
PublishPending(r) ==
  /\ phase[r] = "publish"
  /\ \E out \in {"ok", "error"} :
       /\ PublishTransaction(at[r], r, out)
       /\ IF out = "ok" THEN Finish(r, "accepted") ELSE Goto(r, "unqueued")
  /\ UNCHANGED <<accountVars, log, requestVars, local, cancelled, workerVars,
                 ghostVars>>

(* The result of this call is ignored: the synchronous path follows.       *)
MarkUnqueued(r) ==
  /\ phase[r] = "unqueued"
  /\ \E out \in WriteOutcomes :
       UpdateTransactionStatusWithError(cancelled[r], QueuedId(r), "unqueued", out)
  /\ Goto(r, "update")
  /\ UNCHANGED <<accountVars, queueVars, requestVars, local, cancelled,
                 workerVars, ghostVars>>

Count(d, n) == effect' = [effect EXCEPT ![d] = @ + n]

SyncUpdateBalance(r) ==
  /\ phase[r] = "update"
  /\ \E out \in UpdateOutcomes :
       /\ AtomicBalanceUpdate(cancelled[r], Account(r), body[r].type,
                              body[r].amount, out)
       /\ Count(DirectId(r), IF Applied(out) THEN 1 ELSE 0)
       /\ IF out = "ok"
            THEN /\ local' = [local EXCEPT ![r] =
                               [prev |-> balance[Account(r)],
                                new  |-> balance'[Account(r)]]]
                 /\ Goto(r, "record")
            ELSE /\ Finish(r, IF out = "business" THEN "rejected" ELSE "error")
                 /\ UNCHANGED local
  /\ UNCHANGED <<log, queueVars, requestVars, cancelled, workerVars, opening>>

(* Here too the answer belongs to the write that it reports.               *)
SyncRecord(r) ==
  /\ phase[r] = "record"
  /\ \E out \in WriteOutcomes :
       /\ CreateTransaction(cancelled[r], DirectId(r),
                            [status |-> "completed", prev |-> local[r].prev,
                             new |-> local[r].new, error |-> "none"], out)
       /\ IF out = "ok" THEN Finish(r, "ok") ELSE Goto(r, "rollback")
  /\ UNCHANGED <<accountVars, queueVars, requestVars, local, cancelled,
                 workerVars, ghostVars>>

(* Mutant of SyncRollback: the update is left standing.                    *)
SyncRollbackSkipped(r) ==
  /\ phase[r] = "rollback"
  /\ Finish(r, "error")
  /\ UNCHANGED <<faults, accountVars, log, queueVars, requestVars, local,
                 cancelled, workerVars, ghostVars>>

(* The compensating update runs under the request's own context, and its   *)
(* result is ignored.                                                      *)
SyncRollback(r) ==
  /\ phase[r] = "rollback"
  /\ \E out \in UpdateOutcomes :
       /\ AtomicBalanceUpdate(cancelled[r], Account(r), Opposite(body[r].type),
                              body[r].amount, out)
       /\ Count(DirectId(r), IF Applied(out) THEN -1 ELSE 0)
  /\ Finish(r, "error")
  /\ UNCHANGED <<log, queueVars, requestVars, local, cancelled, workerVars,
                 opening>>

(* net/http cancels the request's context when its connection closes.      *)
Disconnect(r) ==
  /\ phase[r] \notin Finished
  /\ ~cancelled[r]
  /\ Strike("cancel")
  /\ cancelled' = [cancelled EXCEPT ![r] = TRUE]
  /\ UNCHANGED <<accountVars, log, queueVars, requestVars, phase, local, reply,
                 workerVars, ghostVars>>

-----------------------------------------------------------------------------
(* The workers: processMessage and ProcessTransactionAsync                 *)

WGoto(w, p) == /\ wphase' = [wphase EXCEPT ![w] = p]
               /\ UNCHANGED <<job, reason>>

(* Return from ProcessTransactionAsync with an error of this kind: the     *)
(* message is acknowledged or put back.                                    *)
WReturn(w, kind) ==
  /\ wphase' = [wphase EXCEPT ![w] = IF kind = "business" THEN "ack" ELSE "nack"]
  /\ UNCHANGED <<job, reason>>

(* First record the failure, then return.                                  *)
WFail(w, kind) == /\ wphase' = [wphase EXCEPT ![w] = "mark"]
                  /\ reason' = [reason EXCEPT ![w] = kind]
                  /\ UNCHANGED job

TakeDelivery(w) ==
  /\ wphase[w] = "idle"
  /\ \E r \in ready :
       /\ Deliver(w, r)
       /\ job' = [job EXCEPT ![w] = r]
  /\ wphase' = [wphase EXCEPT ![w] = "load"]
  /\ UNCHANGED <<faults, accountVars, log, requestVars, handlerVars, wlocal,
                 reason, ghostVars>>

(* Mutant of Pending: redelivered messages are processed again.            *)
AlwaysPending(r) == TRUE

(* "transaction is not in pending state" counts as a business error: a     *)
(* redelivered message that was already decided is acknowledged.           *)
Pending(r) == log[QueuedId(r)].status = "pending"

(* Mutant of NotPending: no longer among the business errors.              *)
NotPendingIsSystem == "system"

NotPending == "business"

LoadPending(w) ==
  /\ wphase[w] = "load"
  /\ \E out \in {"ok", "error"} :
       /\ GetTransactionByID(QueuedId(job[w]), out)
       /\ \/ out = "ok" /\ Pending(job[w]) /\ WGoto(w, "update")
          \/ out = "ok" /\ ~Pending(job[w]) /\ WReturn(w, NotPending)
          \/ out = "error" /\ WReturn(w, "system")
  /\ UNCHANGED <<accountVars, queueVars, requestVars, handlerVars, wlocal,
                 ghostVars>>

AsyncUpdateBalance(w) ==
  /\ wphase[w] = "update"
  /\ LET r == job[w] IN
     \E out \in UpdateOutcomes :
       /\ AtomicBalanceUpdate(FALSE, Account(r), body[r].type, body[r].amount, out)
       /\ Count(QueuedId(r), IF Applied(out) THEN 1 ELSE 0)
       /\ IF out = "ok"
            THEN /\ wlocal' = [wlocal EXCEPT ![w] =
                                [prev |-> balance[Account(r)],
                                 new  |-> balance'[Account(r)]]]
                 /\ WGoto(w, "complete")
            ELSE /\ WFail(w, IF out = "business" THEN "business" ELSE "system")
                 /\ UNCHANGED wlocal
  /\ UNCHANGED <<log, queueVars, requestVars, handlerVars, opening>>

(* Mutant of AfterUpdate: the balance is not restored.                     *)
AfterUpdateNoRollback(out) == IF out = "ok" THEN "ack" ELSE "mark"

AfterUpdate(out) == IF out = "ok" THEN "ack" ELSE "rollback"

AsyncComplete(w) ==
  /\ wphase[w] = "complete"
  /\ \E out \in WriteOutcomes :
       /\ UpdateTransaction(FALSE, QueuedId(job[w]), wlocal[w].prev,
                            wlocal[w].new, out)
       /\ WGoto(w, AfterUpdate(out))
  /\ UNCHANGED <<accountVars, queueVars, requestVars, handlerVars, wlocal,
                 ghostVars>>

AsyncRollback(w) ==
  /\ wphase[w] = "rollback"
  /\ LET r == job[w] IN
     \E out \in UpdateOutcomes :
       /\ AtomicBalanceUpdate(FALSE, Account(r), Opposite(body[r].type),
                              body[r].amount, out)
       /\ Count(QueuedId(r), IF Applied(out) THEN -1 ELSE 0)
  /\ WFail(w, "unrecorded")
  /\ UNCHANGED <<log, queueVars, requestVars, handlerVars, wlocal, opening>>

(* The result of this call is ignored too.                                 *)
AsyncMarkFailed(w) ==
  /\ wphase[w] = "mark"
  /\ \E out \in WriteOutcomes :
       UpdateTransactionStatusWithError(FALSE, QueuedId(job[w]), reason[w], out)
  /\ WReturn(w, reason[w])
  /\ UNCHANGED <<accountVars, queueVars, requestVars, handlerVars, wlocal,
                 ghostVars>>

WRest(w) == /\ wphase' = [wphase EXCEPT ![w] = "idle"]
            /\ job'    = [job EXCEPT ![w] = NoMsg]
            /\ wlocal' = [wlocal EXCEPT ![w] = NoBalances]
            /\ reason' = [reason EXCEPT ![w] = "business"]

AckDelivery(w) ==
  /\ wphase[w] = "ack"
  /\ Ack(w) /\ WRest(w)
  /\ UNCHANGED <<faults, accountVars, log, requestVars, handlerVars, ghostVars>>

NackDelivery(w) ==
  /\ wphase[w] = "nack"
  /\ Nack(w) /\ WRest(w)
  /\ UNCHANGED <<faults, accountVars, log, requestVars, handlerVars, ghostVars>>

-----------------------------------------------------------------------------
(* The environment                                                         *)

(* The code never reconnects, so a lost link stays lost until a restart.   *)
LinkLoss(i) ==
  /\ link[i] \in {"up", "channel"} /\ Strike("link") /\ Close(i, "lost")
  /\ UNCHANGED <<accountVars, log, requestVars, handlerVars, workerVars, ghostVars>>

ChannelLoss(i) ==
  /\ link[i] = "up" /\ Strike("link") /\ Close(i, "channel")
  /\ UNCHANGED <<accountVars, log, requestVars, handlerVars, workerVars, ghostVars>>

Expire(r) ==
  /\ Strike("expire") /\ Drop(r)
  /\ UNCHANGED <<accountVars, log, requestVars, handlerVars, workerVars, ghostVars>>

(* A crash, or the end of the shutdown goroutine: os.Exit waits at most    *)
(* 30 s for the workers and never for the handlers.                        *)
Crash(i) ==
  /\ link[i] # "down" /\ Strike("crash") /\ Close(i, "down")
  /\ phase' = [r \in Requests |-> IF at[r] = i /\ phase[r] \notin Finished
                                    THEN "dropped" ELSE phase[r]]
  /\ wphase' = [w \in Workers |-> IF Host[w] = i THEN "idle" ELSE wphase[w]]
  /\ job'    = [w \in Workers |-> IF Host[w] = i THEN NoMsg ELSE job[w]]
  /\ wlocal' = [w \in Workers |-> IF Host[w] = i THEN NoBalances ELSE wlocal[w]]
  /\ reason' = [w \in Workers |-> IF Host[w] = i THEN "business" ELSE reason[w]]
  /\ UNCHANGED <<accountVars, log, requestVars, local, cancelled, reply, ghostVars>>

(* With nothing left to do the system waits.  It may wait on a message     *)
(* nobody can take: no instance has an open channel.                       *)
Rest ==
  /\ \A r \in Requests : phase[r] \in {"done", "dropped"}
  /\ \A w \in Workers  : wphase[w] = "idle"
  /\ ready = {} \/ \A w \in Workers : link[Host[w]] # "up"
  /\ UNCHANGED vars

-----------------------------------------------------------------------------

Handle(r) == \/ ReceiveTransaction(r) \/ ValidateAccount(r) \/ CreatePending(r)
             \/ PublishPending(r) \/ MarkUnqueued(r) \/ SyncUpdateBalance(r)
             \/ SyncRecord(r) \/ SyncRollback(r)

Work(w) == \/ TakeDelivery(w) \/ LoadPending(w) \/ AsyncUpdateBalance(w)
           \/ AsyncComplete(w) \/ AsyncRollback(w) \/ AsyncMarkFailed(w)
           \/ AckDelivery(w) \/ NackDelivery(w)

Next ==
  \/ \E a \in Accounts, n \in OpeningBalances : OpenAccount(a, n)
  \/ \E i \in Instances : Start(i) \/ LinkLoss(i) \/ ChannelLoss(i) \/ Crash(i)
  \/ \E r \in Requests : Handle(r) \/ Disconnect(r) \/ Expire(r)
  \/ \E w \in Workers : Work(w)
  \/ Rest

Spec == Init /\ [][Next]_vars

(* A goroutine with something to do is eventually scheduled, and its calls *)
(* return; a process that is down is eventually started.                   *)
Fairness == /\ \A r \in Requests  : WF_vars(Handle(r))
            /\ \A w \in Workers   : WF_vars(Work(w))
            /\ \A i \in Instances : WF_vars(Start(i))

FairSpec == Spec /\ Fairness

=============================================================================
