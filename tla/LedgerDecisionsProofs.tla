----------------------- MODULE LedgerDecisionsProofs -----------------------
(***************************************************************************)
(* The full contract, for any number of requests, accounts and workers:    *)
(* where all workers belong to one process, that process does not crash,   *)
(* and an error of a database means that nothing was changed, however      *)
(* connections to the broker break and messages get lost.  Where MongoDB   *)
(* refuses writes, the compensating updates must be able to succeed.       *)
(***************************************************************************)
EXTENDS LedgerContractProofs

SingleHost == \A v, w \in Workers : Host[v] = Host[w]

(* Of the faults, the databases' refusals and all that befalls the broker. *)
Truthful == Faults \cap {"pgCommit", "mongoReply", "crash", "cancel"} = {}

(* What must be undone can be: PostgreSQL answers, and giving money back   *)
(* is never too little nor, as nobody deposits, too much for the account.  *)
Reversible ==
  "mongo" \in Faults =>
    /\ "pg" \notin Faults
    /\ \A b \in Bodies : ValidRequest(b) => b.type = "withdraw"

(* A message is with one worker, or ready; a worker that lost its channel  *)
(* while it had a message may share that message with the queue, but then  *)
(* nobody is left to take it.                                              *)
Exclusive ==
  /\ \A v, w \in Workers : v # w /\ job[v] # NoMsg => job[v] # job[w]
  /\ \A w \in Workers :
       /\ unacked[w] # NoMsg => unacked[w] = job[w]
       /\ wphase[w] = "idle" => job[w] = NoMsg
       /\ link[Host[w]] = "down" => job[w] = NoMsg
       /\ link[Host[w]] = "up" => job[w] \notin ready

(* What a worker knows of the document it works on.                        *)
Informed(w) ==
  /\ wphase[w] \in {"update", "mark"} => Pending(job[w]) /\ effect[QueuedId(job[w])] = 0
  /\ wphase[w] \in {"complete", "rollback"} => Pending(job[w]) /\ effect[QueuedId(job[w])] = 1
  /\ wphase[w] = "rollback" => "mongo" \in Faults

(* A worker stands between the update for r and its record.                *)
Completing(r) == \E w \in Workers : wphase[w] \in {"complete", "rollback"} /\ job[w] = r

(* What the documents of a request tell.                                   *)
Told(r) ==
  LET status == log[QueuedId(r)].status
      count  == effect[QueuedId(r)]
      direct == effect[DirectId(r)]
  IN  /\ status = "completed" => count = 1
      /\ status = "failed" => count = 0
      /\ status \in {"none", "pending"} => count = 0 \/ Completing(r)
      /\ phase[r] \in {"idle", "validate", "create"} => status = "none"
      /\ phase[r] \in {"publish", "unqueued"} => status = "pending"
      /\ log[DirectId(r)].status = IF reply[r] = "ok" THEN "completed" ELSE "none"
      /\ reply[r] = "accepted" => status # "none"
      /\ direct = 0 \/ (direct = 1 /\ (phase[r] \in {"record", "rollback"} \/ reply[r] = "ok"))
      /\ phase[r] = "rollback" => direct = 1 /\ "mongo" \in Faults
      /\ ~cancelled[r]

Truth == (\A w \in Workers : Informed(w)) /\ (\A r \in Requests : Told(r))

(* The inductive invariant.                                                *)
Settling == ServiceInvariant /\ Books /\ Exclusive /\ Truth

-----------------------------------------------------------------------------
(* Messages                                                                *)

LEMMA InitExclusive == Init => Exclusive
BY HostAssumption DEF Init, QueueInit, Exclusive

LEMMA HandlerExclusive ==
  ASSUME ServiceInvariant, Exclusive, NEW s \in Requests, Handle(s)
  PROVE  Exclusive'
<1>1. TypeOK
  BY DEF ServiceInvariant
<1>2. UNCHANGED <<link, unacked, job, wphase>>
  BY DEF Handle, ReceiveTransaction, ValidateAccount, CreatePending, PublishPending,
         PublishTransaction, MarkUnqueued, SyncUpdateBalance, SyncRecord, SyncRollback,
         queueVars, workerVars
<1>3. ready' \subseteq ready \cup {s}
  BY DEF Handle, ReceiveTransaction, ValidateAccount, CreatePending, PublishPending,
         PublishTransaction, MarkUnqueued, SyncUpdateBalance, SyncRecord, SyncRollback,
         queueVars
<1>4. \A w \in Workers : job[w] # s
  BY HandlerEffect DEF ServiceInvariant, OneWayOut, InHand
<1>. QED BY <1>2, <1>3, <1>4 DEF Exclusive

LEMMA WorkerExclusive ==
  ASSUME SingleHost, ServiceInvariant, Exclusive, NEW w \in Workers, Work(w)
  PROVE  Exclusive'
<1>1. TypeOK
  BY DEF ServiceInvariant
<1>2. CASE TakeDelivery(w)
  <2>1. PICK x \in ready : Deliver(w, x) /\ job' = [job EXCEPT ![w] = x]
    BY <1>2 DEF TakeDelivery
  <2>2. /\ ready' = ready \ {x} /\ unacked' = [unacked EXCEPT ![w] = x] /\ UNCHANGED link
        /\ wphase' = [wphase EXCEPT ![w] = "load"] /\ link[Host[w]] = "up"
    BY <1>2, <2>1 DEF TakeDelivery, Deliver
  <2>3. \A v \in Workers : link[Host[v]] = "up" /\ job[v] # x
    BY <2>1, <2>2 DEF SingleHost, Exclusive
  <2>. QED BY <1>1, <2>1, <2>2, <2>3 DEF Exclusive, TypeOK, QueueTypeOK
<1>3. CASE \/ LoadPending(w) \/ AsyncUpdateBalance(w) \/ AsyncComplete(w)
           \/ AsyncRollback(w) \/ AsyncMarkFailed(w)
  <2>1. UNCHANGED <<link, ready, unacked, job>>
        /\ \A v \in Workers : wphase'[v] = "idle" => wphase[v] = "idle"
    BY <1>1, <1>3
    DEF LoadPending, AsyncUpdateBalance, AsyncComplete, AsyncRollback, AsyncMarkFailed,
        AfterUpdate, WGoto, WReturn, WFail, queueVars, TypeOK
  <2>. QED BY <2>1 DEF Exclusive
<1>4. CASE AckDelivery(w) \/ NackDelivery(w)
  <2>1. /\ ready' \subseteq ready \cup ({unacked[w]} \ {NoMsg})
        /\ unacked' = [unacked EXCEPT ![w] = NoMsg] /\ job' = [job EXCEPT ![w] = NoMsg]
        /\ wphase' = [wphase EXCEPT ![w] = "idle"] /\ UNCHANGED link
    BY <1>4 DEF AckDelivery, NackDelivery, Ack, Nack, WRest
  <2>. QED BY <1>1, <2>1, HostAssumption DEF Exclusive, TypeOK, QueueTypeOK
<1>. QED BY <1>2, <1>3, <1>4 DEF Work

LEMMA EnvironmentExclusive ==
  ASSUME SingleHost, Truthful, ServiceInvariant, Exclusive,
         \/ \E a \in Accounts, n \in OpeningBalances : OpenAccount(a, n)
         \/ \E i \in Instances : Start(i) \/ LinkLoss(i) \/ ChannelLoss(i) \/ Crash(i)
         \/ \E r \in Requests : Disconnect(r) \/ Expire(r)
         \/ Rest \/ UNCHANGED vars
  PROVE  Exclusive'
<1>1. TypeOK
  BY DEF ServiceInvariant
<1>2. ASSUME NEW i \in Instances, Start(i) PROVE Exclusive'
  <2>1. UNCHANGED <<ready, unacked, job, wphase>> /\ link[i] = "down"
        /\ \/ link' = [link EXCEPT ![i] = "up"] \/ link' = [link EXCEPT ![i] = "sync"]
    BY <1>2 DEF Start, workerVars
  <2>2. \A w \in Workers : Host[w] \in Instances
    BY HostAssumption
  <2>. QED BY <1>1, <2>1, <2>2, HostAssumption DEF Exclusive, TypeOK, QueueTypeOK
<1>3. ASSUME NEW i \in Instances, LinkLoss(i) \/ ChannelLoss(i) PROVE Exclusive'
  <2>1. PICK why \in {"lost", "channel"} : Close(i, why)
    BY <1>3 DEF LinkLoss, ChannelLoss
  <2>2. UNCHANGED <<job, wphase>> /\ link[i] # "down"
    BY <1>3 DEF LinkLoss, ChannelLoss, workerVars
  <2>3. CASE \A w \in Workers : Host[w] # i
    <3>1. ready' = ready /\ \A w \in Workers : unacked'[w] = unacked[w] /\ link'[Host[w]] = link[Host[w]]
      BY <1>1, <2>1, <2>3, HostAssumption DEF Close, TypeOK, QueueTypeOK
    <3>. QED BY <2>2, <3>1 DEF Exclusive
  <2>4. CASE \A w \in Workers : Host[w] = i
    <3>1. \A w \in Workers : unacked'[w] = NoMsg /\ link'[Host[w]] = why
      BY <1>1, <2>1, <2>4, HostAssumption DEF Close, TypeOK, QueueTypeOK
    <3>. QED BY <2>2, <3>1 DEF Exclusive
  <2>. QED BY <2>3, <2>4 DEF SingleHost
<1>4. ASSUME NEW i \in Instances PROVE ~Crash(i)
  BY DEF Crash, Strike, Truthful
<1>5. CASE \/ \E a \in Accounts, n \in OpeningBalances : OpenAccount(a, n)
           \/ \E r \in Requests : Disconnect(r) \/ Expire(r)
           \/ Rest \/ UNCHANGED vars
  <2>1. UNCHANGED <<link, unacked, job, wphase>> /\ ready' \subseteq ready
    BY <1>5 DEF OpenAccount, Disconnect, Expire, Drop, Rest, vars, queueVars, workerVars
  <2>. QED BY <2>1 DEF Exclusive
<1>. QED BY <1>2, <1>3, <1>4, <1>5

-----------------------------------------------------------------------------
(* Documents                                                               *)

LEMMA InitTruth == Init => Truth
<1>. SUFFICES ASSUME Init PROVE Truth
  OBVIOUS
<1>1. \A r \in Requests : /\ log[QueuedId(r)].status = "none" /\ log[DirectId(r)].status = "none"
                          /\ effect[QueuedId(r)] = 0 /\ effect[DirectId(r)] = 0
  BY Ids DEF Init, LogInit, NoDoc
<1>. QED BY <1>1 DEF Init, Truth, Informed, Told

(* A step that leaves the documents and their effects alone, and the       *)
(* workers.                                                                *)
LEMMA QuietTruth ==
  ASSUME Truth, UNCHANGED <<log, effect, phase, reply, cancelled, wphase, job>>
  PROVE  Truth'
BY DEF Truth, Informed, Told, Completing, Pending

(* A write takes effect and says so, or MongoDB refused it.                *)
LEMMA TruthfulWrite ==
  ASSUME Truthful, TypeOK, NEW d \in TxnIds, NEW doc, NEW out, Write(FALSE, TRUE, d, doc, out)
  PROVE  \/ out = "ok" /\ log'[d] = doc
         \/ out = "error" /\ UNCHANGED log /\ "mongo" \in Faults
BY DEF Write, Strike, Truthful, TypeOK, LogTypeOK

LEMMA TruthfulFailed ==
  ASSUME Truthful, TypeOK, NEW d \in TxnIds, NEW message, NEW out, Found(d),
         UpdateTransactionStatusWithError(FALSE, d, message, out)
  PROVE  /\ log'[d].status = "failed" \/ log'[d] = log[d]
         /\ \A e \in TxnIds : e # d => log'[e] = log[e]
<1>. DEFINE doc == [log[d] EXCEPT !.status = "failed", !.error = message]
<1>1. doc.status = "failed"
  BY FailedStatus DEF TypeOK
<1>2. Write(FALSE, TRUE, d, doc, out)
  BY DEF UpdateTransactionStatusWithError
<1>. HIDE DEF doc
<1>3. \A e \in TxnIds : e # d => log'[e] = log[e]
  BY <1>2 DEF Write, TypeOK, LogTypeOK
<1>. QED BY <1>1, <1>2, <1>3, TruthfulWrite

(* Where MongoDB refuses writes, an update that stands can be reversed.    *)
LEMMA RollbackApplies ==
  ASSUME Truthful, Reversible, "mongo" \in Faults, ServiceInvariant, Books, Truth,
         NEW r \in Requests, ValidRequest(body[r]),
         NEW d \in {QueuedId(r), DirectId(r)}, effect[d] = 1,
         NEW out \in UpdateOutcomes,
         AtomicBalanceUpdate(FALSE, Account(r), Opposite(body[r].type), body[r].amount, out)
  PROVE  out = "ok"
<1>1. TypeOK /\ d \in TxnIds /\ d[1] = r
  BY DEF ServiceInvariant, QueuedId, DirectId, TxnIds
<1>. PICK own \in Accounts : own = Account(r)
  BY <1>1, ValidUpdate
<1>2. \A e \in TxnIds : effect[e] \in {0, 1}
  <2>1. ASSUME NEW s \in Requests PROVE effect[QueuedId(s)] \in {0, 1}
    <3>1. log[QueuedId(s)].status \in {"none", "pending", "completed", "failed"}
      BY <1>1, Ids DEF TypeOK, LogTypeOK, Doc, Statuses
    <3>. QED BY <3>1 DEF Truth, Told, Completing, Informed
  <2>2. \A s \in Requests : effect[DirectId(s)] \in {0, 1}
    BY DEF Truth, Told
  <2>. QED BY <2>1, <2>2 DEF TxnIds, QueuedId, DirectId
<1>3. /\ d \in Counting(own) /\ IsFiniteSet(Counting(own))
      /\ balance[own] = opening[own] + SumFunctionOnSet(Weights, Counting(own))
  BY <1>1, BooksMean DEF BooksBalance, Counting, DocsOf, Account
<1>4. \A e \in Counting(own) : Weights[e] \in Int /\ Weights[e] <= 0 /\ Weights[e] = SignedAmount(e)
  <2>. SUFFICES ASSUME NEW e \in Counting(own)
                PROVE  Weights[e] \in Int /\ Weights[e] <= 0 /\ Weights[e] = SignedAmount(e)
    OBVIOUS
  <2>1. e \in TxnIds /\ effect[e] = 1 /\ ValidRequest(body[e[1]]) /\ e[1] \in Requests
    BY <1>2 DEF Counting, DocsOf, Books, TxnIds
  <2>2. body[e[1]] \in Bodies /\ body[e[1]].type = "withdraw" /\ body[e[1]].amount \in Nat
    BY <1>1, <2>1, ValidUpdate DEF Reversible, TypeOK
  <2>. QED BY <1>1, <2>1, <2>2, WeightType DEF SignedAmount, Signed
<1>5. SumFunctionOnSet(Weights, Counting(own)) <= SignedAmount(d)
      /\ SumFunctionOnSet(Weights, Counting(own)) \in Int
  BY <1>3, <1>4, SumOfDebts, SumType
<1>6. /\ body[r].type = "withdraw" /\ body[r].amount \in Nat
      /\ SignedAmount(d) = - body[r].amount
  BY <1>1, ValidUpdate DEF Reversible, TypeOK, SignedAmount, Signed
<1>7. opened[own] /\ opening[own] \in 0 .. MaxBalance
  BY <1>3 DEF Books, Booked, Counting
<1>8. ~Refuses(own, "deposit", body[r].amount)
  BY <1>7 DEF Refuses, ShortOf
<1>9. ~TooLarge(balance[own], "deposit", body[r].amount)
  BY <1>3, <1>5, <1>6, <1>7, LimitAssumption DEF TooLarge, After, Signed
<1>. QED
  BY <1>6, <1>8, <1>9
  DEF AtomicBalanceUpdate, UpdateOutcomes, Applied, Strike, Truthful, Reversible, Opposite

(* A handler writes the documents of its own request.                      *)
LEMMA HandlerLog ==
  ASSUME TypeOK, NEW s \in Requests, Handle(s), NEW e \in TxnIds \ {QueuedId(s), DirectId(s)}
  PROVE  log'[e] = log[e]
BY Ids
DEF Handle, ReceiveTransaction, ValidateAccount, CreatePending, CreateTransaction, PublishPending,
    MarkUnqueued, UpdateTransactionStatusWithError, SyncUpdateBalance, SyncRecord, SyncRollback,
    Write, TypeOK, LogTypeOK

LEMMA HandlerTold ==
  ASSUME Truthful, Reversible, ServiceInvariant, Books, Truth, NEW s \in Requests, Handle(s)
  PROVE  Told(s)'
<1>. USE DEF Goto, Finish
<1>1. TypeOK /\ TypeOK' /\ Sound /\ ~cancelled[s] /\ Told(s)
  BY StepService DEF ServiceInvariant, Sound, Truth, Told, Next
<1>2. /\ reply[s] = "none" /\ phase[s] \notin {"done", "dropped"} /\ UNCHANGED cancelled
      /\ effect[QueuedId(s)] = 0 /\ effect'[QueuedId(s)] = 0
  <2>1. reply[s] = "none" /\ phase[s] \notin {"done", "dropped"}
        /\ effect[QueuedId(s)] = 0 /\ effect'[QueuedId(s)] = 0
    BY <1>1, HandlerEffect, Ids DEF ServiceInvariant, OneWayOut, TypeOK, Replies
  <2>2. UNCHANGED cancelled
    BY DEF Handle, ReceiveTransaction, ValidateAccount, CreatePending, PublishPending,
           MarkUnqueued, SyncUpdateBalance, SyncRecord, SyncRollback
  <2>. QED BY <2>1, <2>2
<1>3. CASE ReceiveTransaction(s) \/ ValidateAccount(s)
  <2>1. UNCHANGED <<log, effect>>
    BY <1>3 DEF ReceiveTransaction, ValidateAccount, ghostVars
  <2>2. effect[DirectId(s)] = 0
    BY <1>3 DEF ReceiveTransaction, ValidateAccount, ServiceInvariant, DirectFollowsPhase
  <2>. QED
    BY <1>1, <1>2, <1>3, <2>1, <2>2 DEF ReceiveTransaction, ValidateAccount, Told, TypeOK
<1>4. CASE SyncUpdateBalance(s)
  <2>1. PICK out \in UpdateOutcomes :
          /\ AtomicBalanceUpdate(cancelled[s], Account(s), body[s].type, body[s].amount, out)
          /\ Count(DirectId(s), IF Applied(out) THEN 1 ELSE 0)
          /\ \/ out = "ok" /\ Goto(s, "record")
             \/ out # "ok" /\ (Finish(s, "rejected") \/ Finish(s, "error"))
    BY <1>4 DEF SyncUpdateBalance
  <2>2. out # "unsure"
    BY <2>1 DEF AtomicBalanceUpdate, Applied, Strike, Truthful
  <2>3. effect'[DirectId(s)] = (IF out = "ok" THEN 1 ELSE 0)
    <3>1. effect[DirectId(s)] = 0
      BY <1>4 DEF SyncUpdateBalance, ServiceInvariant, DirectFollowsPhase
    <3>. QED BY <1>1, <2>1, <2>2, <3>1, CountStep, Ids DEF Applied
  <2>4. UNCHANGED log /\ phase[s] = "update"
    BY <1>4 DEF SyncUpdateBalance
  <2>5. CASE out = "ok"
    BY <1>1, <1>2, <2>1, <2>3, <2>4, <2>5 DEF Told, TypeOK
  <2>6. CASE out # "ok"
    BY <1>1, <1>2, <2>1, <2>3, <2>4, <2>6 DEF Told, TypeOK
  <2>. QED BY <2>5, <2>6
<1>5. CASE CreatePending(s)
  <2>. DEFINE doc == [status |-> "pending", prev |-> local[s].prev, new |-> local[s].new,
                      error |-> "none"]
  <2>1. PICK out \in WriteOutcomes :
          /\ Write(FALSE, TRUE, QueuedId(s), doc, out)
          /\ IF out = "ok" THEN Goto(s, "publish") ELSE Finish(s, "error")
    BY <1>1, <1>5 DEF CreatePending, CreateTransaction, TypeOK
  <2>2. \/ log'[QueuedId(s)].status = "pending" /\ Goto(s, "publish")
        \/ log'[QueuedId(s)] = log[QueuedId(s)] /\ Finish(s, "error")
    <3>1. doc.status = "pending"
      OBVIOUS
    <3>2. QueuedId(s) \in TxnIds
      BY Ids
    <3>. HIDE DEF doc
    <3>3. \/ out = "ok" /\ log'[QueuedId(s)] = doc
          \/ out = "error" /\ log' = log
      BY <1>1, <2>1, <3>2, TruthfulWrite
    <3>. QED BY <2>1, <3>1, <3>3
  <2>3. log'[DirectId(s)] = log[DirectId(s)]
    BY <1>1, <2>1, Ids DEF Write, TypeOK, LogTypeOK
  <2>4. UNCHANGED effect /\ effect[DirectId(s)] = 0 /\ log[QueuedId(s)].status = "none"
    BY <1>1, <1>5 DEF CreatePending, ghostVars, ServiceInvariant, DirectFollowsPhase, Told
  <2>. QED BY <1>1, <1>2, <2>2, <2>3, <2>4 DEF Told, TypeOK
<1>6. CASE PublishPending(s)
  <2>1. UNCHANGED <<log, effect>> /\ effect[DirectId(s)] = 0
    BY <1>6 DEF PublishPending, ghostVars, ServiceInvariant, DirectFollowsPhase
  <2>. QED BY <1>1, <1>2, <1>6, <2>1 DEF PublishPending, Told, TypeOK
<1>7. CASE MarkUnqueued(s)
  <2>1. PICK out \in WriteOutcomes :
          UpdateTransactionStatusWithError(FALSE, QueuedId(s), "unqueued", out)
    BY <1>1, <1>7 DEF MarkUnqueued, TypeOK
  <2>2. Found(QueuedId(s)) /\ Pending(s)
    BY <1>1, <1>7 DEF MarkUnqueued, Told, Found, Pending
  <2>3. /\ log'[QueuedId(s)].status \in {"pending", "failed"}
        /\ log'[DirectId(s)] = log[DirectId(s)]
    <3>1. QueuedId(s) \in TxnIds /\ DirectId(s) \in TxnIds /\ QueuedId(s) # DirectId(s)
      BY Ids
    <3>. QED BY <1>1, <2>1, <2>2, <3>1, TruthfulFailed DEF Pending
  <2>4. UNCHANGED effect
    BY <1>7 DEF MarkUnqueued, ghostVars
  <2>. QED BY <1>1, <1>2, <1>7, <2>3, <2>4 DEF MarkUnqueued, Told, TypeOK
<1>8. CASE SyncRecord(s)
  <2>. DEFINE doc == [status |-> "completed", prev |-> local[s].prev, new |-> local[s].new,
                      error |-> "none"]
  <2>1. PICK out \in WriteOutcomes :
          /\ Write(FALSE, TRUE, DirectId(s), doc, out)
          /\ IF out = "ok" THEN Finish(s, "ok") ELSE Goto(s, "rollback")
    BY <1>1, <1>8 DEF SyncRecord, CreateTransaction, TypeOK
  <2>2. \/ log'[DirectId(s)].status = "completed" /\ Finish(s, "ok")
        \/ log'[DirectId(s)] = log[DirectId(s)] /\ Goto(s, "rollback") /\ "mongo" \in Faults
    <3>1. doc.status = "completed"
      OBVIOUS
    <3>2. DirectId(s) \in TxnIds
      BY Ids
    <3>. HIDE DEF doc
    <3>3. \/ out = "ok" /\ log'[DirectId(s)] = doc
          \/ out = "error" /\ log' = log /\ "mongo" \in Faults
      BY <1>1, <2>1, <3>2, TruthfulWrite
    <3>. QED BY <2>1, <3>1, <3>3
  <2>3. log'[QueuedId(s)] = log[QueuedId(s)]
    BY <1>1, <2>1, Ids DEF Write, TypeOK, LogTypeOK
  <2>4. UNCHANGED effect /\ effect[DirectId(s)] = 1
    BY <1>8 DEF SyncRecord, ghostVars, ServiceInvariant, DirectFollowsPhase
  <2>. QED BY <1>1, <1>2, <2>2, <2>3, <2>4 DEF Told, TypeOK
<1>9. CASE SyncRollback(s)
  <2>1. PICK out \in UpdateOutcomes :
          /\ AtomicBalanceUpdate(FALSE, Account(s), Opposite(body[s].type), body[s].amount, out)
          /\ Count(DirectId(s), IF Applied(out) THEN -1 ELSE 0)
    BY <1>1, <1>9 DEF SyncRollback, TypeOK
  <2>2. effect[DirectId(s)] = 1 /\ "mongo" \in Faults /\ ValidRequest(body[s])
    BY <1>1, <1>9 DEF SyncRollback, Told, Sound, WorkIsValid, Finished
  <2>3. out = "ok"
    BY <2>1, <2>2, RollbackApplies
  <2>4. effect'[DirectId(s)] = 0
    BY <1>1, <2>1, <2>2, <2>3, CountStep, Ids DEF Applied
  <2>. QED BY <1>1, <1>2, <1>9, <2>4 DEF SyncRollback, Told, TypeOK
<1>. QED BY <1>3, <1>4, <1>5, <1>6, <1>7, <1>8, <1>9 DEF Handle

LEMMA HandlerTruth ==
  ASSUME Truthful, Reversible, ServiceInvariant, Books, Truth, NEW s \in Requests, Handle(s)
  PROVE  Truth'
<1>1. TypeOK /\ Sound
  BY DEF ServiceInvariant, Sound
<1>2. UNCHANGED <<job, wphase, cancelled>>
  BY DEF Handle, ReceiveTransaction, ValidateAccount, CreatePending, PublishPending,
         MarkUnqueued, SyncUpdateBalance, SyncRecord, SyncRollback, workerVars
<1>3. \A r \in Requests \ {s} : phase'[r] = phase[r] /\ reply'[r] = reply[r]
  BY <1>1 DEF Handle, ReceiveTransaction, ValidateAccount, CreatePending, PublishPending,
         MarkUnqueued, SyncUpdateBalance, SyncRecord, SyncRollback, Goto, Finish, TypeOK
<1>4. \A r \in Requests \ {s} :
        /\ log'[QueuedId(r)] = log[QueuedId(r)] /\ effect'[QueuedId(r)] = effect[QueuedId(r)]
        /\ log'[DirectId(r)] = log[DirectId(r)] /\ effect'[DirectId(r)] = effect[DirectId(r)]
  BY <1>1, HandlerLog, HandlerEffect, Ids
<1>5. \A w \in Workers : wphase[w] # "idle" => job[w] \in Requests \ {s}
  BY <1>1, HandlerEffect, BusyWorker DEF ServiceInvariant, OneWayOut, InHand
<1>6. \A w \in Workers : Informed(w)'
  BY <1>2, <1>4, <1>5 DEF Truth, Informed, Pending
<1>7. \A r \in Requests \ {s} : Told(r)'
  BY <1>2, <1>3, <1>4 DEF Truth, Told, Completing
<1>. QED BY <1>6, <1>7, HandlerTold DEF Truth

(* A step of worker w concerns the document of its own message, and no     *)
(* other worker has that message.                                          *)
WorksAlone(w) ==
  LET r == job[w]
  IN  /\ wphase[w] # "idle" /\ r \in Requests /\ reply[r] = "accepted"
      /\ UNCHANGED <<phase, reply, cancelled, job>>
      /\ \A v \in Workers \ {w} : wphase'[v] = wphase[v] /\ (wphase[v] # "idle" => job[v] # r)
      /\ \A s \in Requests : /\ log'[DirectId(s)] = log[DirectId(s)]
                             /\ effect'[DirectId(s)] = effect[DirectId(s)]
      /\ \A s \in Requests \ {r} : /\ log'[QueuedId(s)] = log[QueuedId(s)]
                                   /\ effect'[QueuedId(s)] = effect[QueuedId(s)]

LEMMA AloneTruth ==
  ASSUME Sound, Truth, NEW w \in Workers, WorksAlone(w), Informed(w)',
         NEW r \in Requests, r = job[w], Told(r)'
  PROVE  Truth'
<1>1. ASSUME NEW v \in Workers, v # w PROVE Informed(v)'
  <2>1. wphase[v] # "idle" => job[v] \in Requests \ {job[w]}
    BY <1>1, BusyWorker DEF WorksAlone
  <2>. QED BY <1>1, <2>1 DEF WorksAlone, Truth, Informed, Pending
<1>2. ASSUME NEW s \in Requests, s # r PROVE Told(s)'
  <2>1. Completing(s) => Completing(s)'
    BY <1>2 DEF WorksAlone, Completing
  <2>. QED BY <1>2, <2>1 DEF WorksAlone, Truth, Told
<1>. QED BY <1>1, <1>2 DEF Truth

LEMMA WorkerTruth ==
  ASSUME Truthful, Reversible, ServiceInvariant, Books, Exclusive, Truth,
         NEW w \in Workers, Work(w)
  PROVE  Truth'
<1>. USE DEF WGoto, WReturn, WFail
<1>1. TypeOK /\ Sound /\ Informed(w)
  BY DEF ServiceInvariant, Sound, Truth
<1>2. UNCHANGED <<phase, reply, cancelled>>
  BY DEF Work, TakeDelivery, LoadPending, AsyncUpdateBalance, AsyncComplete, AsyncRollback,
         AsyncMarkFailed, AckDelivery, NackDelivery, handlerVars
<1>3. CASE TakeDelivery(w) \/ AckDelivery(w) \/ NackDelivery(w)
  <2>1. /\ UNCHANGED <<log, effect>>
        /\ \A v \in Workers \ {w} : wphase'[v] = wphase[v] /\ job'[v] = job[v]
        /\ wphase[w] \notin {"complete", "rollback"} /\ wphase'[w] \in {"idle", "load"}
    BY <1>1, <1>3
    DEF TakeDelivery, AckDelivery, NackDelivery, WRest, ghostVars, TypeOK
  <2>2. \A v \in Workers : Informed(v)'
    BY <2>1 DEF Truth, Informed, Pending
  <2>3. \A s \in Requests : Completing(s) => Completing(s)'
    BY <2>1 DEF Completing
  <2>4. ASSUME NEW s \in Requests PROVE Told(s)'
    <3>1. Told(s)
      BY DEF Truth
    <3>. QED BY <1>2, <2>1, <2>3, <3>1 DEF Told
  <2>. QED BY <2>2, <2>4 DEF Truth
<1>4. CASE \/ LoadPending(w) \/ AsyncUpdateBalance(w) \/ AsyncComplete(w)
           \/ AsyncRollback(w) \/ AsyncMarkFailed(w)
  <2>1. /\ wphase[w] \in {"load", "update", "complete", "rollback", "mark"} /\ UNCHANGED job
        /\ \A v \in Workers \ {w} : wphase'[v] = wphase[v]
    BY <1>1, <1>4
    DEF LoadPending, AsyncUpdateBalance, AsyncComplete, AsyncRollback, AsyncMarkFailed,
        Informed, TypeOK
  <2>2. PICK r \in Requests : r = job[w] /\ reply[r] = "accepted" /\ phase[r] = "done"
    BY <1>1, <2>1, BusyWorker, HostAssumption DEF ServiceInvariant, OneWayOut, InHand
  <2>3. \A v \in Workers \ {w} : job[v] # r
    BY <2>2, HostAssumption DEF Exclusive
  <2>4. Told(r) /\ QueuedId(r) \in TxnIds /\ effect[QueuedId(r)] \in Int
    BY <1>1, <2>2, Ids DEF Truth, TypeOK
  <2>5. \A s \in Requests : Aside(s)
    BY <1>1, WorkerAside
  <2>6. \A s \in Requests \ {r} : log'[QueuedId(s)] = log[QueuedId(s)]
    BY <2>1, <2>2, WorkerServes DEF Serves, Idles
  <2>7. \A s \in Requests : effect'[DirectId(s)] = effect[DirectId(s)]
                            /\ (s # r => effect'[QueuedId(s)] = effect[QueuedId(s)])
    <3>1. CASE UNCHANGED effect
      BY <3>1
    <3>2. CASE AsyncUpdateBalance(w) \/ AsyncRollback(w)
      <4>1. \E n \in {-1, 0, 1} : Count(QueuedId(r), n)
        BY <2>2, <3>2 DEF AsyncUpdateBalance, AsyncRollback
      <4>. QED BY <1>1, <2>2, <4>1, CountStep, Ids
    <3>. QED
      BY <1>4, <2>1, <3>1, <3>2
      DEF LoadPending, AsyncComplete, AsyncMarkFailed, ghostVars
  <2>8. WorksAlone(w)
    BY <1>2, <2>1, <2>2, <2>3, <2>5, <2>6, <2>7 DEF WorksAlone, Aside
  <2>9. Informed(w)' /\ Told(r)'
    <3>1. /\ phase'[r] = "done" /\ reply'[r] = "accepted" /\ job'[w] = r /\ ~cancelled'[r]
          /\ log'[DirectId(r)] = log[DirectId(r)] /\ effect'[DirectId(r)] = effect[DirectId(r)]
      BY <1>2, <2>1, <2>2, <2>4, <2>8 DEF WorksAlone, Told
    <3>2. wphase[w] \notin {"complete", "rollback"} => ~Completing(r)
      BY <2>1, <2>2, <2>3 DEF Completing
    <3>3. wphase'[w] \in {"complete", "rollback"} => Completing(r)'
      BY <3>1 DEF Completing
    <3>4. CASE LoadPending(w)
      <4>1. UNCHANGED <<log, effect>> /\ wphase[w] = "load"
            /\ (wphase'[w] = "update" => Pending(r)) /\ wphase'[w] \in {"update", "ack", "nack"}
        BY <1>1, <2>2, <3>4 DEF LoadPending, GetTransactionByID, NotPending, ghostVars, TypeOK
      <4>2. Informed(w)'
        BY <2>2, <2>4, <3>1, <3>2, <4>1 DEF Informed, Told, Pending
      <4>3. Told(r)'
        BY <2>2, <2>4, <3>1, <3>2, <4>1 DEF Told, Pending
      <4>. QED BY <4>2, <4>3
    <3>5. CASE AsyncUpdateBalance(w)
      <4>1. PICK out \in UpdateOutcomes :
              /\ AtomicBalanceUpdate(FALSE, Account(r), body[r].type, body[r].amount, out)
              /\ Count(QueuedId(r), IF Applied(out) THEN 1 ELSE 0)
              /\ wphase' = [wphase EXCEPT ![w] = IF out = "ok" THEN "complete" ELSE "mark"]
        BY <2>2, <3>5 DEF AsyncUpdateBalance
      <4>2. out # "unsure"
        BY <4>1 DEF AtomicBalanceUpdate, Applied, Strike, Truthful
      <4>3. Pending(r) /\ effect[QueuedId(r)] = 0 /\ UNCHANGED log
        BY <1>1, <2>2, <3>5 DEF AsyncUpdateBalance, Informed
      <4>4. effect'[QueuedId(r)] = IF out = "ok" THEN 1 ELSE 0
        BY <1>1, <2>4, <4>1, <4>2, <4>3, CountStep DEF Applied
      <4>5. wphase'[w] = IF out = "ok" THEN "complete" ELSE "mark"
        BY <1>1, <4>1 DEF TypeOK
      <4>6. Informed(w)'
        BY <2>2, <2>4, <3>1, <3>3, <4>3, <4>4, <4>5 DEF Informed, Pending
      <4>7. Told(r)'
        BY <2>2, <2>4, <3>1, <3>3, <4>3, <4>4, <4>5 DEF Told, Pending
      <4>. QED BY <4>6, <4>7
    <3>6. CASE AsyncComplete(w)
      <4>. DEFINE doc == [status |-> "completed", prev |-> wlocal[w].prev,
                          new |-> wlocal[w].new, error |-> "none"]
      <4>1. Pending(r) /\ effect[QueuedId(r)] = 1 /\ UNCHANGED effect
        BY <1>1, <2>2, <3>6 DEF AsyncComplete, Informed, ghostVars
      <4>2. PICK out \in WriteOutcomes :
              /\ Write(FALSE, TRUE, QueuedId(r), doc, out)
              /\ wphase' = [wphase EXCEPT ![w] = AfterUpdate(out)]
        BY <2>2, <3>6, <4>1 DEF AsyncComplete, UpdateTransaction, Found, Pending
      <4>3. doc.status = "completed"
        OBVIOUS
      <4>. HIDE DEF doc
      <4>4. \/ out = "ok" /\ log'[QueuedId(r)].status = "completed"
            \/ out = "error" /\ log' = log /\ "mongo" \in Faults
        BY <1>1, <2>4, <4>2, <4>3, TruthfulWrite
      <4>5. wphase'[w] = AfterUpdate(out)
        BY <1>1, <4>2 DEF TypeOK
      <4>6. CASE out = "ok"
        BY <2>2, <2>4, <3>1, <4>1, <4>4, <4>5, <4>6 DEF Informed, Told, AfterUpdate
      <4>7. CASE out = "error"
        <5>1. wphase'[w] = "rollback" /\ Completing(r)' /\ Pending(r)'
          BY <3>3, <4>1, <4>4, <4>5, <4>7 DEF AfterUpdate, Pending
        <5>. QED BY <2>2, <2>4, <3>1, <4>1, <4>4, <4>7, <5>1 DEF Informed, Told, Pending
      <4>. QED BY <4>4, <4>6, <4>7
    <3>7. CASE AsyncRollback(w)
      <4>1. PICK out \in UpdateOutcomes :
              /\ AtomicBalanceUpdate(FALSE, Account(r), Opposite(body[r].type), body[r].amount, out)
              /\ Count(QueuedId(r), IF Applied(out) THEN -1 ELSE 0)
        BY <2>2, <3>7 DEF AsyncRollback
      <4>2. /\ Pending(r) /\ effect[QueuedId(r)] = 1 /\ "mongo" \in Faults
            /\ UNCHANGED log /\ wphase'[w] = "mark"
        BY <1>1, <2>2, <3>7 DEF AsyncRollback, Informed, TypeOK
      <4>3. ValidRequest(body[r])
        BY <1>1, <2>1, <2>2, BusyWorker
      <4>4. out = "ok"
        BY <2>2, <4>1, <4>2, <4>3, RollbackApplies
      <4>5. effect'[QueuedId(r)] = 0
        BY <1>1, <2>4, <4>1, <4>2, <4>4, CountStep DEF Applied
      <4>. QED BY <2>2, <2>4, <3>1, <4>2, <4>5 DEF Informed, Told, Pending
    <3>8. CASE AsyncMarkFailed(w)
      <4>1. Pending(r) /\ effect[QueuedId(r)] = 0 /\ UNCHANGED effect
        BY <1>1, <2>2, <3>8 DEF AsyncMarkFailed, Informed, ghostVars
      <4>2. PICK out \in WriteOutcomes :
              UpdateTransactionStatusWithError(FALSE, QueuedId(r), reason[w], out)
        BY <2>2, <3>8 DEF AsyncMarkFailed
      <4>3. Found(QueuedId(r))
        BY <4>1 DEF Pending, Found
      <4>4. log'[QueuedId(r)].status = "failed" \/ log'[QueuedId(r)] = log[QueuedId(r)]
        BY <1>1, <2>4, <4>2, <4>3, TruthfulFailed
      <4>5. wphase'[w] \in {"ack", "nack"}
        BY <1>1, <3>8 DEF AsyncMarkFailed, TypeOK
      <4>. QED BY <2>2, <2>4, <3>1, <4>1, <4>4, <4>5 DEF Informed, Told, Pending
    <3>. QED BY <1>4, <3>4, <3>5, <3>6, <3>7, <3>8
  <2>. QED BY <1>1, <2>2, <2>8, <2>9, AloneTruth
<1>. QED BY <1>3, <1>4 DEF Work

LEMMA EnvironmentTruth ==
  ASSUME Truthful, Truth,
         \/ \E a \in Accounts, n \in OpeningBalances : OpenAccount(a, n)
         \/ \E i \in Instances : Start(i) \/ LinkLoss(i) \/ ChannelLoss(i) \/ Crash(i)
         \/ \E r \in Requests : Disconnect(r) \/ Expire(r)
         \/ Rest \/ UNCHANGED vars
  PROVE  Truth'
<1>1. UNCHANGED <<log, effect, phase, reply, cancelled, wphase, job>>
  BY DEF OpenAccount, Start, LinkLoss, ChannelLoss, Crash, Disconnect, Expire, Rest, vars,
         Strike, Truthful, handlerVars, workerVars, ghostVars
<1>. QED BY <1>1, QuietTruth

LEMMA StepSettling ==
  ASSUME SingleHost, Truthful, Reversible
  PROVE  Settling /\ [Next]_vars => Settling'
<1>. SUFFICES ASSUME Settling, [Next]_vars PROVE Settling'
  OBVIOUS
<1>1. ServiceInvariant' /\ Books'
  BY StepService, StepBooks DEF Settling
<1>2. Exclusive'
  BY HandlerExclusive, WorkerExclusive, EnvironmentExclusive DEF Settling, Next
<1>3. Truth'
  BY HandlerTruth, WorkerTruth, EnvironmentTruth DEF Settling, Next
<1>. QED BY <1>1, <1>2, <1>3 DEF Settling

LEMMA SettlingHolds ==
  ASSUME SingleHost, Truthful, Reversible
  PROVE  Spec => []Settling
<1>1. Init => Exclusive /\ Truth
  BY InitExclusive, InitTruth
<1>2. Settling <=> Exclusive /\ Truth /\ Books /\ ServiceInvariant
  BY DEF Settling
<1>3. Settling /\ [Next]_vars => Settling'
  BY StepSettling
<1>. QED BY <1>1, <1>2, <1>3, ServiceInvariantHolds, BooksHold, PTL DEF Spec

(* A document that says completed stands once in the balance, one that     *)
(* says failed does not, however often connections break and messages are  *)
(* redelivered, expire or get lost.                                        *)
THEOREM StatusesTellTheTruth ==
  ASSUME SingleHost, Truthful, Reversible
  PROVE  Spec => []StatusTellsEffect
<1>1. ASSUME Settling PROVE StatusTellsEffect
  <2>. SUFFICES ASSUME NEW d \in TxnIds
                PROVE  /\ log[d].status = "completed" => effect[d] = 1
                       /\ log[d].status = "failed"    => effect[d] = 0
    BY DEF StatusTellsEffect
  <2>1. PICK r \in Requests : d = QueuedId(r) \/ d = DirectId(r)
    BY DEF TxnIds, QueuedId, DirectId
  <2>. QED
    BY <1>1, <2>1 DEF Settling, Truth, Told, ServiceInvariant, DirectFollowsPhase
<1>. QED BY <1>1, SettlingHolds, PTL

-----------------------------------------------------------------------------
(* Decided documents                                                       *)

Decided(d) == log[d].status \in {"completed", "failed"}

LEMMA StepFinal ==
  ASSUME Settling, [Next]_vars, NEW d \in TxnIds, Decided(d)
  PROVE  log'[d] = log[d]
<1>1. TypeOK /\ Sound /\ Truth
  BY DEF Settling, ServiceInvariant, Sound
<1>2. PICK r \in Requests : d = QueuedId(r) \/ d = DirectId(r)
  BY DEF TxnIds, QueuedId, DirectId
<1>3. ASSUME NEW s \in Requests, Handle(s) PROVE log'[d] = log[d]
  <2>1. reply[s] = "none" /\ Told(s)
    BY <1>1, <1>3, HandlerEffect DEF Settling, ServiceInvariant, OneWayOut, Truth
  <2>2. CASE d \notin {QueuedId(s), DirectId(s)}
    BY <1>1, <1>3, <2>2, HandlerLog
  <2>3. CASE d = DirectId(s)
    BY <2>1, <2>3 DEF Told, Decided
  <2>4. CASE d = QueuedId(s)
    <3>1. ~CreatePending(s) /\ ~MarkUnqueued(s)
      BY <2>1, <2>4 DEF Told, Decided, CreatePending, MarkUnqueued
    <3>2. CASE SyncRecord(s)
      BY <1>1, <2>4, <3>2, Ids DEF SyncRecord, CreateTransaction, Write, TypeOK, LogTypeOK
    <3>. QED
      BY <1>3, <3>1, <3>2
      DEF Handle, ReceiveTransaction, ValidateAccount, PublishPending, SyncUpdateBalance,
          SyncRollback
  <2>. QED BY <2>2, <2>3, <2>4
<1>4. ASSUME NEW w \in Workers, Work(w) PROVE log'[d] = log[d]
  <2>1. CASE AsyncComplete(w) \/ AsyncMarkFailed(w)
    <3>1. Pending(job[w]) /\ job[w] \in Requests
      BY <1>1, <2>1, BusyWorker DEF AsyncComplete, AsyncMarkFailed, Truth, Informed
    <3>2. d # QueuedId(job[w])
      BY <3>1 DEF Pending, Decided
    <3>. QED
      BY <1>1, <2>1, <3>1, <3>2, Ids
      DEF AsyncComplete, AsyncMarkFailed, UpdateTransaction, UpdateTransactionStatusWithError,
          Write, TypeOK, LogTypeOK
  <2>. QED
    BY <1>4, <2>1
    DEF Work, TakeDelivery, LoadPending, GetTransactionByID, AsyncUpdateBalance, AsyncRollback,
        AckDelivery, NackDelivery
<1>5. ASSUME NEW a \in Accounts, NEW n \in OpeningBalances, OpenAccount(a, n)
      PROVE  log'[d] = log[d]
  BY <1>5 DEF OpenAccount
<1>. QED BY <1>3, <1>4, <1>5, EnvironmentIdles DEF Next, Idles

(* completed and failed are final: no worker that comes late, redelivery   *)
(* or error path rewrites a decided document.                              *)
THEOREM DecidedStaysDecided ==
  ASSUME SingleHost, Truthful, Reversible
  PROVE  Spec => FinalStatusIsStable
<1>1. ASSUME Settling, [Next]_vars
      PROVE  [\A d \in TxnIds : log[d].status \in {"completed", "failed"} => log'[d] = log[d]]_log
  BY <1>1, StepFinal DEF Decided
<1>. QED BY <1>1, SettlingHolds, PTL DEF Spec, FinalStatusIsStable

-----------------------------------------------------------------------------
(* The contract of the decisions                                           *)

LEMMA InitDecisions == Init => Decisions!Init
<1>. SUFFICES ASSUME Init PROVE Decisions!Init
  OBVIOUS
<1>1. \A r \in Requests : effect[DirectId(r)] + effect[QueuedId(r)] = 0
  BY Ids DEF Init
<1>. QED BY <1>1 DEF Init, AccountsInit, Decisions!Init, Standing, Outcome

LEMMA QuietOutcome == UNCHANGED <<reply, log>> => UNCHANGED Outcome
BY DEF Outcome

LEMMA OpenDecisions ==
  ASSUME NEW a \in Accounts, NEW n \in OpeningBalances, OpenAccount(a, n)
  PROVE  Decisions!Next
BY QuietStanding, QuietOutcome, OpeningAssumption
DEF OpenAccount, CreateAccount, requestVars, handlerVars, Decisions!Next, Decisions!OpenAccount

(* How the outcome of a request changes.                                   *)
Concluding == {"none", "pending"}

LEMMA OutcomeStep ==
  ASSUME Settling, Settling', [Next]_vars, NEW r \in Requests, Serves(r)
  PROVE  /\ Outcome' = [Outcome EXCEPT ![r] = Outcome'[r]]
         /\ \/ Outcome'[r] = Outcome[r]
            \/ Outcome[r] \in Concluding /\ Decisions!Follows(Outcome[r], Outcome'[r])
<1>1. TypeOK /\ TypeOK' /\ Told(r) /\ Told(r)'
  BY DEF Settling, ServiceInvariant, Truth
<1>2. /\ Outcome = [s \in Requests |-> Outcome[s]] /\ Outcome' = [s \in Requests |-> Outcome'[s]]
      /\ \A s \in Requests :
           /\ Outcome[s]  = IF reply[s] = "accepted" THEN log[QueuedId(s)].status ELSE reply[s]
           /\ Outcome'[s] = IF reply'[s] = "accepted" THEN log'[QueuedId(s)].status ELSE reply'[s]
  BY DEF Outcome
<1>3. \A s \in Requests \ {r} : Outcome'[s] = Outcome[s]
  BY <1>2 DEF Serves
<1>4. CASE reply[r] = "accepted"
  <2>1. phase[r] # "create" /\ reply'[r] = "accepted"
    BY <1>4 DEF Settling, ServiceInvariant, OneWayOut, Serves
  <2>2. \/ log'[QueuedId(r)] = log[QueuedId(r)]
        \/ log'[QueuedId(r)].status \in {"completed", "failed"} /\ ~Decided(QueuedId(r))
    BY <2>1, LogStep, StepFinal, Ids DEF Settling
  <2>3. log[QueuedId(r)].status \in Statuses \ {"none"}
    BY <1>1, <1>4, Ids DEF Told, TypeOK, LogTypeOK, Doc
  <2>. QED
    BY <1>2, <1>3, <1>4, <2>1, <2>2, <2>3
    DEF Statuses, Decided, Concluding, Decisions!Follows
<1>5. CASE reply[r] = "none" /\ reply'[r] = "accepted"
  <2>1. PublishPending(r)
    <3>1. ASSUME NEW s \in Requests, Handle(s) PROVE s = r
      BY <1>5, <3>1, HandlerServes DEF Settling, Serves
    <3>2. Handle(r)
      <4>1. ASSUME NEW w \in Workers, Work(w) PROVE reply'[r] = reply[r]
        BY <4>1, WorkerAside DEF Aside, Settling, ServiceInvariant, Sound
      <4>2. ASSUME NEW a \in Accounts, NEW n \in OpeningBalances, OpenAccount(a, n)
            PROVE  reply'[r] = reply[r]
        BY <4>2 DEF OpenAccount, handlerVars
      <4>. QED BY <1>5, <3>1, <4>1, <4>2, EnvironmentIdles DEF Next, Idles
    <3>. QED
      BY <1>1, <1>5, <3>2
      DEF Handle, ReceiveTransaction, ValidateAccount, CreatePending, MarkUnqueued,
          SyncUpdateBalance, SyncRecord, SyncRollback, Goto, Finish, TypeOK
  <2>2. log'[QueuedId(r)].status = "pending"
    BY <1>1, <2>1 DEF PublishPending, Told
  <2>. QED BY <1>2, <1>3, <1>5, <2>2 DEF Concluding, Decisions!Follows
<1>6. CASE reply[r] = "none" /\ reply'[r] # "accepted"
  <2>1. reply'[r] \in Replies
    BY <1>1 DEF TypeOK
  <2>. QED BY <1>2, <1>3, <1>6, <2>1 DEF Replies, Concluding, Decisions!Follows
<1>. QED BY <1>4, <1>5, <1>6 DEF Serves

(* A final outcome is true of the count.                                   *)
Counted ==
  \A r \in Requests : /\ Outcome[r] \in {"ok", "completed"} => Standing[r] = 1
                      /\ Outcome[r] \in {"rejected", "error", "failed"} => Standing[r] = 0

LEMMA OutcomeCounts == Settling => Counted
<1>. SUFFICES ASSUME Settling, NEW r \in Requests
              PROVE  /\ Outcome[r] \in {"ok", "completed"} => Standing[r] = 1
                     /\ Outcome[r] \in {"rejected", "error", "failed"} => Standing[r] = 0
  BY DEF Counted
<1>1. TypeOK /\ Told(r) /\ reply[r] \in Replies
  BY DEF Settling, ServiceInvariant, Truth, TypeOK
<1>2. /\ reply[r] \in {"ok", "rejected", "error"} => effect[QueuedId(r)] = 0
      /\ reply[r] = "ok" => effect[DirectId(r)] = 1
      /\ reply[r] \in {"rejected", "error"} => effect[DirectId(r)] = 0
  BY <1>1, Ids DEF Settling, ServiceInvariant, OneWayOut, DirectFollowsPhase, Told
<1>3. Standing[r] = effect[DirectId(r)] + effect[QueuedId(r)]
  BY DEF Standing
<1>4. Outcome[r] = IF reply[r] = "accepted" THEN log[QueuedId(r)].status ELSE reply[r]
  BY DEF Outcome
<1>5. log[QueuedId(r)].status \in Statuses
  BY <1>1, Ids DEF TypeOK, LogTypeOK, Doc
<1>6. reply[r] = "accepted" => effect[DirectId(r)] = 0
  BY <1>1 DEF Settling, ServiceInvariant, OneWayOut, Told
<1>. QED BY <1>1, <1>2, <1>3, <1>4, <1>5, <1>6 DEF Told, Replies, Statuses

LEMMA ServeDecisions ==
  ASSUME Settling, Settling', [Next]_vars, NEW r \in Requests, Serves(r)
  PROVE  Decisions!Next \/ UNCHANGED Decisions!vars
<1>. DEFINE o == Outcome'[r]
            Final == {"ok", "completed", "rejected", "error", "failed"}
<1>1. /\ Outcome' = [Outcome EXCEPT ![r] = o]
      /\ \/ o = Outcome[r]
         \/ Outcome[r] \in Concluding /\ Decisions!Follows(Outcome[r], o)
  BY OutcomeStep
<1>2. /\ o \in {"ok", "completed"} => Standing'[r] = 1
      /\ o \in {"rejected", "error", "failed"} => Standing'[r] = 0
  <2>1. Counted'
    BY OutcomeCounts, PTL
  <2>. QED BY <2>1 DEF Counted
<1>3. /\ Outcome[r] \in {"ok", "completed"} => Standing[r] = 1
      /\ Outcome[r] \in {"rejected", "error", "failed"} => Standing[r] = 0
  BY OutcomeCounts DEF Counted
<1>4. UNCHANGED body /\ (Applies(r) \/ Reverses(r) \/ Leaves)
  BY DEF Serves
<1>5. Outcome[r] \in Decisions!Outcomes /\ o \in Decisions!Outcomes
  <2>1. /\ TypeOK /\ TypeOK'
        /\ Outcome[r] = IF reply[r] = "accepted" THEN log[QueuedId(r)].status ELSE reply[r]
        /\ o = IF reply'[r] = "accepted" THEN log'[QueuedId(r)].status ELSE reply'[r]
    BY DEF Settling, ServiceInvariant, Outcome
  <2>2. /\ log[QueuedId(r)].status \in Statuses /\ log'[QueuedId(r)].status \in Statuses
        /\ reply[r] \in Replies /\ reply'[r] \in Replies
    BY <2>1, Ids DEF TypeOK, LogTypeOK, Doc
  <2>. QED BY <2>1, <2>2 DEF Statuses, Replies, Decisions!Outcomes
<1>6. CASE Outcome[r] \in Final
  <2>1. o = Outcome[r]
    BY <1>1, <1>6 DEF Concluding
  <2>2. Standing'[r] = Standing[r] /\ Standing[r] \in Int
    BY <1>2, <1>3, <1>6, <2>1
  <2>3. Leaves
    <3>1. Standing = [s \in Requests |-> Standing[s]]
      BY DEF Standing
    <3>2. ~Recounted(r, 1) /\ ~Recounted(r, -1)
      BY <2>2, <3>1 DEF Recounted
    <3>. QED BY <1>4, <3>2 DEF Applies, Reverses
  <2>4. Outcome' = Outcome
    <3>1. Outcome = [s \in Requests |-> Outcome[s]]
      BY DEF Outcome
    <3>. QED BY <1>1, <2>1, <3>1
  <2>. QED BY <1>4, <2>3, <2>4 DEF Leaves, Decisions!vars
<1>7. CASE Outcome[r] \notin Final
  <2>1. Decisions!Conclude(r, o)
    BY <1>1, <1>2, <1>4, <1>7 DEF Decisions!Conclude
  <2>2. CASE Applies(r)
    <3>1. Decisions!Apply(r, o)
      BY <2>1, <2>2
      DEF Applies, Moved, Recounted, Decisions!Apply, Decisions!Move, Decisions!ShortOf, ShortOf,
          Decisions!TooLarge, TooLarge, Decisions!After, After, Decisions!Signed, Signed
    <3>. QED BY <1>5, <3>1 DEF Decisions!Next
  <2>3. CASE Reverses(r)
    <3>1. Decisions!Reverse(r, o)
      BY <2>1, <2>3
      DEF Reverses, Moved, Recounted, Decisions!Reverse, Decisions!Move, Decisions!ShortOf,
          ShortOf, Decisions!TooLarge, TooLarge, Decisions!After, After, Decisions!Signed, Signed,
          Decisions!Opposite, Opposite
    <3>. QED BY <1>5, <3>1 DEF Decisions!Next
  <2>4. CASE Leaves
    <3>1. Decisions!Settle(r, o)
      BY <2>1, <2>4 DEF Leaves, Decisions!Settle
    <3>. QED BY <1>5, <3>1 DEF Decisions!Next
  <2>. QED BY <1>4, <2>2, <2>3, <2>4
<1>. QED BY <1>6, <1>7

LEMMA StepDecisions ==
  Settling /\ Settling' /\ [Next]_vars => [Decisions!Next]_(Decisions!vars)
<1>. SUFFICES ASSUME Settling, Settling', [Next]_vars
              PROVE  Decisions!Next \/ UNCHANGED Decisions!vars
  OBVIOUS
<1>1. ServiceInvariant /\ Sound
  BY DEF Settling, ServiceInvariant, Sound
<1>2. CASE Idles
  BY <1>2, QuietStanding, QuietOutcome DEF Idles, Decisions!vars
<1>3. ASSUME NEW w \in Workers, Work(w)
      PROVE  Decisions!Next \/ UNCHANGED Decisions!vars
  BY <1>1, <1>2, <1>3, WorkerServes, BusyWorker, ServeDecisions
<1>. QED
  BY <1>1, <1>2, <1>3, HandlerServes, ServeDecisions, EnvironmentIdles, OpenDecisions DEF Next

(* Each accepted request is decided at most once, and 200, 4xx, 5xx,       *)
(* completed and failed tell the truth about the balance at that moment    *)
(* and ever after: the service implements the contract.                    *)
THEOREM ServiceKeepsDecisions ==
  ASSUME SingleHost, Truthful, Reversible
  PROVE  Spec => DecisionsAreKept
<1>1. Init /\ []Settling /\ [][Next]_vars => Decisions!Spec
  BY InitDecisions, StepDecisions, PTL DEF Decisions!Spec
<1>. QED BY <1>1, SettlingHolds, PTL DEF Spec, DecisionsAreKept

=============================================================================
