-------------------------- MODULE LedgerProperties --------------------------
(***************************************************************************)
(* What the two stores, the replies and the queue must agree on.  Which of *)
(* these hold depends on which faults may strike and on whether more than  *)
(* one instance runs; the runs and README.md say which.                    *)
(***************************************************************************)
EXTENDS BankingService, FiniteSets, Functions

(* Every variable keeps its type (the row, document and message shapes).   *)
TypeOK ==
  /\ faults \in 0 .. MaxFaults
  /\ AccountsTypeOK /\ LogTypeOK /\ QueueTypeOK
  /\ body \in [Requests -> Bodies]
  /\ at   \in [Requests -> Instances]
  /\ phase     \in [Requests -> Phases]
  /\ local     \in [Requests -> [prev : Int, new : Int]]
  /\ cancelled \in [Requests -> BOOLEAN]
  /\ reply     \in [Requests -> Replies]
  /\ wphase \in [Workers -> WorkerPhases]
  /\ job    \in [Workers -> Requests \cup {NoMsg}]
  /\ wlocal \in [Workers -> [prev : Int, new : Int]]
  /\ reason \in [Workers -> {"business", "system", "unrecorded"}]
  /\ opening \in [Accounts -> Int]
  /\ effect  \in [TxnIds -> Int]

-----------------------------------------------------------------------------
(* Balances                                                                *)

(* No interleaving of handlers, workers and compensating updates takes an  *)
(* account below zero or past what its column can hold: the check in       *)
(* AtomicBalanceUpdate decides, never the precheck of the handler, which   *)
(* reads a balance that others then change.                                *)
NoOverdraft == \A a \in Accounts : balance[a] \in 0 .. MaxBalance

-----------------------------------------------------------------------------
(* The ledger against the balances                                         *)

DocsOf(a)      == {d \in TxnIds : body[d[1]].account = a}
CompletedOf(a) == {d \in DocsOf(a) : log[d].status = "completed"}
SignedAmount(d) == Signed(body[d[1]].type, body[d[1]].amount)
SignedAmounts   == [d \in TxnIds |-> SignedAmount(d)]

(* Nobody stands between a balance update of a and its record.             *)
Settled(a) ==
  /\ \A r \in Requests : Account(r) = a => phase[r] \notin {"record", "rollback"}
  /\ \A w \in Workers  : wphase[w] \in {"complete", "rollback"} => Account(job[w]) # a

(* When an account is settled, its balance is its opening balance plus the *)
(* completed documents: every change of a balance is on record and nothing *)
(* on record was undone, although update and record are separate writes to *)
(* two databases.  (In whole cents, as the row counts: an amount on record *)
(* may differ by the fraction of a cent that the row rounds away.)         *)
LedgerReconciles ==
  \A a \in Accounts :
    Settled(a) => balance[a] = opening[a] + SumFunctionOnSet(SignedAmounts, CompletedOf(a))

(* The previous and new balances of the completed documents form one chain *)
(* from the opening balance to the current one: at each value as many      *)
(* documents (and the opening) arrive as leave (or are the balance now).   *)
(* Lost updates and stale balances in records break the chain even when    *)
(* the sum comes out right.  (In whole cents again: a recorded new balance *)
(* may differ from the row by a fraction of a cent.)                       *)
RecordsChain ==
  \A a \in Accounts :
    LET docs     == CompletedOf(a)
        Here(v)  == IF v THEN 1 ELSE 0
        values   == {log[d].prev : d \in docs} \cup {log[d].new : d \in docs}
    IN Settled(a) =>
         /\ \A d \in docs : log[d].new = log[d].prev + SignedAmount(d)
         /\ \A v \in values :
              Here(v = opening[a]) + Cardinality({d \in docs : log[d].new = v})
                = Here(v = balance[a]) + Cardinality({d \in docs : log[d].prev = v})

(* However often the broker redelivers a message and whatever the workers  *)
(* retry, no document's update is applied twice.                           *)
AtMostOneEffect == \A d \in TxnIds : effect[d] <= 1

(* A document that says completed stands once in the balance and one that  *)
(* says failed does not stand in it at all.                                *)
StatusTellsEffect ==
  \A d \in TxnIds : /\ log[d].status = "completed" => effect[d] = 1
                    /\ log[d].status = "failed"    => effect[d] = 0

-----------------------------------------------------------------------------
(* What clients are told                                                   *)

(* A client that is told 200 has its update in the balance once: the       *)
(* synchronous fallback after a failed publish never doubles what a worker *)
(* does with the pending document of the same request.                     *)
OkReplyIsExact ==
  \A r \in Requests :
    reply[r] = "ok" => /\ log[DirectId(r)].status = "completed"
                       /\ effect[DirectId(r)] = 1
                       /\ effect[QueuedId(r)] = 0

(* A request that its handler ends with 4xx or 5xx failed, and may be sent *)
(* again: nothing of it stands in the balance, now or later.               *)
RefusalHasNoEffect ==
  \A r \in Requests :
    reply[r] \in {"rejected", "error"} =>
      effect[DirectId(r)] = 0 /\ effect[QueuedId(r)] = 0

(* A client that was told 202 is not forgotten: while its document says    *)
(* pending, the broker holds its message, ready or outstanding at a worker *)
(* that has it in hand.                                                    *)
Tracked(r) == r \in ready \/ \E w \in Workers : unacked[w] = r /\ job[w] = r

AcceptedStaysTracked ==
  \A r \in Requests : reply[r] = "accepted" /\ Pending(r) => Tracked(r)

(* What is forgotten is at least not applied: an accepted request whose    *)
(* document still says pending, although no message and no worker is left  *)
(* to decide it (its message was lost, or recording the failure was itself *)
(* refused and the message acknowledged), does not stand in the balance.   *)
ForgottenMeansUnapplied ==
  \A r \in Requests :
    reply[r] = "accepted" /\ Pending(r) /\ r \notin ready
        /\ (\A w \in Workers : unacked[w] # r /\ job[w] # r)
      => effect[QueuedId(r)] = 0

(* An accepted request ends as failed only for a reason of the request's   *)
(* own; what a retry could cure is retried (README, error handling).       *)
FailedOnlyForBusinessReason ==
  \A r \in Requests :
    reply[r] = "accepted" /\ log[QueuedId(r)].status = "failed"
      => log[QueuedId(r)].error = "business"

-----------------------------------------------------------------------------
(* Why these hold: the inductive invariant, whatever faults strike         *)

(* The message of r is somewhere between its publication and its end.      *)
InHand(r) == r \in ready \/ \E w \in Workers : unacked[w] = r \/ job[w] = r

(* Workers work for a request, and only validated requests reach the       *)
(* stores.                                                                 *)
WorkIsValid ==
  /\ \A w \in Workers : wphase[w] # "idle" => job[w] \in Requests
  /\ \A r \in Requests :
       phase[r] \notin Finished \/ InHand(r) => ValidRequest(body[r])

(* A request is answered once, as its handler ends; only an accepted       *)
(* request has a message or an effect under its pending document.          *)
OneWayOut ==
  \A r \in Requests :
    /\ reply[r] # "none" => phase[r] = "done"
    /\ InHand(r) \/ effect[QueuedId(r)] # 0 => reply[r] = "accepted"

(* The direct document's update happens as the handler passes "update".    *)
DirectFollowsPhase ==
  \A r \in Requests :
    /\ phase[r] \in {"idle", "validate", "create", "publish", "unqueued", "update"}
         => effect[DirectId(r)] = 0
    /\ phase[r] = "record" => effect[DirectId(r)] = 1
    /\ reply[r] = "ok" => log[DirectId(r)].status = "completed" /\ effect[DirectId(r)] = 1

(* All of it: balances in range, one way for each request through handler, *)
(* queue and stores.                                                       *)
ServiceInvariant ==
  TypeOK /\ NoOverdraft /\ WorkIsValid /\ OneWayOut /\ DirectFollowsPhase

-----------------------------------------------------------------------------
(* What a step may never do                                                *)

(* completed and failed are final: no late worker, redelivery or error     *)
(* path rewrites a document that was decided.                              *)
FinalStatusIsStable ==
  [][\A d \in TxnIds : log[d].status \in {"completed", "failed"} => log'[d] = log[d]]_log

(* The step leaves alone what stands in the balances for requests whose    *)
(* client was told 200, 4xx or 5xx.                                        *)
LeavesAnsweredAlone ==
  \A r \in Requests :
    reply[r] \in {"ok", "rejected", "error"} =>
      effect'[DirectId(r)] = effect[DirectId(r)] /\ effect'[QueuedId(r)] = effect[QueuedId(r)]

(* A request is answered by the books before it is answered to the client: *)
(* no worker, redelivery or late compensation changes a balance for a      *)
(* request whose client already has a final answer.                        *)
NoEffectAfterAnswer == [][LeavesAnsweredAlone]_vars

-----------------------------------------------------------------------------
(* The contract with the clients                                           *)

(* How often request r stands in the balance, by either document.          *)
Standing == [r \in Requests |-> effect[DirectId(r)] + effect[QueuedId(r)]]

(* What has become of request r: its answer, or what was decided since.    *)
Outcome == [r \in Requests |-> IF reply[r] = "accepted" THEN log[QueuedId(r)].status
                                                       ELSE reply[r]]

Answers == INSTANCE LedgerContract
  WITH outcome <- reply, count <- Standing,
       Once <- {"ok"}, Never <- {}, Final <- {"ok", "rejected", "error"}

Decisions == INSTANCE LedgerContract
  WITH outcome <- Outcome, count <- Standing,
       Once <- {"ok", "completed"}, Never <- {"rejected", "error", "failed"},
       Final <- {"ok", "completed", "rejected", "error", "failed"}

(* Under every fault: balances change only by what a request asked for, on *)
(* behalf of a request that is accepted or not answered yet, and 200 is    *)
(* only ever said of a request that stands in the balance once.            *)
AnswersAreKept == Answers!Spec

(* The full contract, where compensation works and no redelivery follows a *)
(* death: in addition each accepted request is decided at most once, and   *)
(* completed, failed and refused all tell the truth about the balance, at  *)
(* that moment and ever after.                                             *)
DecisionsAreKept == Decisions!Spec

(* Whatever a client is told has failed, by its answer or by the status of *)
(* the document it was given, was rolled back: it does not stand in the    *)
(* balance under either of its documents (README, transaction rollback).   *)
FailureIsUndone ==
  \A r \in Requests : Outcome[r] \in {"rejected", "error", "failed"} => Standing[r] = 0

-----------------------------------------------------------------------------
(* What must eventually happen                                             *)

(* Every accepted request is decided.                                      *)
AcceptedIsDecided ==
  \A r \in Requests :
    reply[r] = "accepted" ~> log[QueuedId(r)].status \in {"completed", "failed"}

(* Every handler ends, and every message leaves the queue for good.          *)
HandlersEnd == \A r \in Requests : <>[](phase[r] \in {"done", "dropped"})
QueueDrains          == <>[](ready = {} /\ \A w \in Workers : wphase[w] = "idle")

=============================================================================
