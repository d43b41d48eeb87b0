------------------------ MODULE BankingServiceProofs ------------------------
(***************************************************************************)
(* Safety of the service for any number of accounts, requests, instances,  *)
(* workers and faults.                                                     *)
(***************************************************************************)
EXTENDS LedgerProperties, TLAPS

-----------------------------------------------------------------------------
(* The calls to the stores and the broker                                  *)

LEMMA FaultsStep ==
  ASSUME faults \in 0 .. MaxFaults
  PROVE  /\ Calm => faults' \in 0 .. MaxFaults
         /\ \A kind : Strike(kind) => faults' \in 0 .. MaxFaults
BY FaultsAssumption DEF Calm, Strike

(* The documents of the two paths are distinct, for the same request and   *)
(* across requests.                                                        *)
LEMMA Ids ==
  ASSUME NEW r \in Requests, NEW s \in Requests
  PROVE  /\ QueuedId(r) \in TxnIds /\ DirectId(r) \in TxnIds
         /\ QueuedId(r) # DirectId(s)
         /\ QueuedId(r) = QueuedId(s) => r = s
         /\ DirectId(r) = DirectId(s) => r = s
BY DEF QueuedId, DirectId, TxnIds

(* An update of a valid request keeps every balance within its column.     *)
LEMMA UpdateStep ==
  ASSUME AccountsTypeOK, NoOverdraft, faults \in 0 .. MaxFaults,
         NEW done, NEW a \in Accounts, NEW type \in Types, NEW amount \in Nat,
         NEW out \in UpdateOutcomes,
         AtomicBalanceUpdate(done, a, type, amount, out)
  PROVE  AccountsTypeOK' /\ NoOverdraft' /\ faults' \in 0 .. MaxFaults
<1>. USE DEF AtomicBalanceUpdate
<1>1. faults' \in 0 .. MaxFaults
  BY FaultsStep
<1>2. CASE UNCHANGED accountVars
  BY <1>1, <1>2 DEF accountVars, AccountsTypeOK, NoOverdraft
<1>3. CASE /\ ~Refuses(a, type, amount) /\ ~TooLarge(balance[a], type, amount)
           /\ balance' = [balance EXCEPT ![a] = After(@, type, amount)]
           /\ UNCHANGED opened
  <2>1. After(balance[a], type, amount) \in 0 .. MaxBalance
    BY <1>3, LimitAssumption
    DEF AccountsTypeOK, NoOverdraft, Refuses, ShortOf, TooLarge, After, Signed, Types
  <2>. QED BY <1>1, <1>3, <2>1, LimitAssumption DEF AccountsTypeOK, NoOverdraft
<1>. QED BY <1>2, <1>3

(* A write touches the one document it names.                              *)
LEMMA WriteStep ==
  ASSUME LogTypeOK, faults \in 0 .. MaxFaults,
         NEW done, NEW matched, NEW d \in TxnIds, NEW doc \in Doc, NEW out,
         Write(done, matched, d, doc, out)
  PROVE  /\ LogTypeOK' /\ faults' \in 0 .. MaxFaults
         /\ \A e \in TxnIds : e # d => log'[e] = log[e]
         /\ out = "ok" => log'[d] = doc
<1>1. faults' \in 0 .. MaxFaults
  BY FaultsStep DEF Write
<1>. QED BY <1>1 DEF Write, LogTypeOK

(* Marking a document as failed leaves a document.                         *)
LEMMA FailedDoc ==
  ASSUME LogTypeOK, NEW d \in TxnIds, NEW message \in Messages
  PROVE  [log[d] EXCEPT !.status = "failed", !.error = message] \in Doc
<1>1. log[d] \in Doc
  BY DEF LogTypeOK
<1>2. "failed" \in Statuses
  BY DEF Statuses
<1>. QED BY <1>1, <1>2 DEF Doc

(* Closing a channel only moves outstanding deliveries back to the queue.  *)
LEMMA CloseStep ==
  ASSUME QueueTypeOK, NEW i \in Instances, NEW why \in Links, Close(i, why)
  PROVE  /\ QueueTypeOK'
         /\ \A r \in ready' : r \in ready \/ \E w \in Workers : unacked[w] = r
         /\ \A w \in Workers : unacked'[w] \in {unacked[w], NoMsg}
BY DEF Close, QueueTypeOK

-----------------------------------------------------------------------------
(* Types, balances and validity                                            *)

Sound == TypeOK /\ NoOverdraft /\ WorkIsValid

LEMMA InitSound == Init => Sound
<1>. SUFFICES ASSUME Init PROVE Sound
  OBVIOUS
<1>. USE DEF Init, FaultsInit, AccountsInit, LogInit, QueueInit
<1>1. NoDoc \in Doc
  BY DEF Doc, NoDoc, Statuses, Messages
<1>2. AccountsTypeOK /\ LogTypeOK /\ QueueTypeOK
  BY <1>1 DEF AccountsTypeOK, LogTypeOK, QueueTypeOK, Links
<1>3. TypeOK
  <2>1. faults \in 0 .. MaxFaults
    BY FaultsAssumption
  <2>2. /\ local  \in [Requests -> [prev : Int, new : Int]]
        /\ wlocal \in [Workers -> [prev : Int, new : Int]]
    BY DEF NoBalances
  <2>3. /\ phase \in [Requests -> Phases] /\ reply \in [Requests -> Replies]
        /\ wphase \in [Workers -> WorkerPhases]
        /\ reason \in [Workers -> {"business", "system", "unrecorded"}]
    BY DEF Phases, Replies, WorkerPhases
  <2>. QED BY <1>2, <2>1, <2>2, <2>3 DEF TypeOK
<1>4. NoOverdraft
  BY LimitAssumption DEF NoOverdraft
<1>5. WorkIsValid
  BY HostAssumption DEF WorkIsValid, InHand, Finished
<1>. QED BY <1>3, <1>4, <1>5 DEF Sound

(* What a validated request asks for is a legal update, and so is the      *)
(* update that reverses it.                                                *)
LEMMA ValidUpdate ==
  ASSUME TypeOK, NEW r \in Requests, ValidRequest(body[r])
  PROVE  /\ Account(r) \in Accounts
         /\ body[r].type \in Types /\ Opposite(body[r].type) \in Types
         /\ body[r].amount \in Nat
BY BodiesAssumption DEF TypeOK, ValidRequest, Account, Opposite, Types

(* Every step of a handler keeps types, balances and validity.             *)
LEMMA HandlerSound ==
  ASSUME Sound, NEW r \in Requests, Handle(r) \/ Disconnect(r)
  PROVE  Sound'
<1>. USE DEF Sound, Goto, Finish
<1>1. CASE ReceiveTransaction(r)
  BY <1>1
  DEF ReceiveTransaction, accountVars, queueVars, requestVars, workerVars, ghostVars,
      TypeOK, AccountsTypeOK, LogTypeOK, QueueTypeOK, NoOverdraft, WorkIsValid, InHand,
      Finished, Phases, Replies
<1>2. CASE ValidateAccount(r)
  <2>1. faults' \in 0 .. MaxFaults
    BY <1>2, FaultsStep DEF ValidateAccount, GetAccountByID, TypeOK
  <2>2. balance[Account(r)] \in Int
    BY BodiesAssumption DEF TypeOK, AccountsTypeOK, Account
  <2>3. local' \in [Requests -> [prev : Int, new : Int]]
    BY <1>2, <2>2 DEF ValidateAccount, GetAccountByID, TypeOK
  <2>. QED
    BY <1>2, <2>1, <2>3
    DEF ValidateAccount, GetAccountByID,
        accountVars, queueVars, requestVars, workerVars, ghostVars,
        TypeOK, AccountsTypeOK, LogTypeOK, QueueTypeOK, NoOverdraft, WorkIsValid, InHand,
        Finished, Phases, Replies
<1>3. CASE CreatePending(r)
  <2>1. [status |-> "pending", prev |-> local[r].prev, new |-> local[r].new, error |-> "none"] \in Doc
    BY DEF TypeOK, Doc, Statuses, Messages
  <2>2. LogTypeOK' /\ faults' \in 0 .. MaxFaults
    BY <1>3, <2>1, WriteStep, Ids DEF CreatePending, CreateTransaction, TypeOK
  <2>. QED
    BY <1>3, <2>2
    DEF CreatePending, accountVars, queueVars, requestVars, workerVars, ghostVars,
        TypeOK, AccountsTypeOK, QueueTypeOK, NoOverdraft, WorkIsValid, InHand,
        Finished, Phases, Replies
<1>4. CASE PublishPending(r)
  <2>1. faults' \in 0 .. MaxFaults
    BY <1>4, FaultsStep DEF PublishPending, PublishTransaction, TypeOK
  <2>. QED
    BY <1>4, <2>1
    DEF PublishPending, PublishTransaction, accountVars, requestVars, workerVars, ghostVars,
        TypeOK, AccountsTypeOK, LogTypeOK, QueueTypeOK, NoOverdraft, WorkIsValid, InHand,
        Finished, Phases, Replies
<1>5. CASE MarkUnqueued(r)
  <2>1. [log[QueuedId(r)] EXCEPT !.status = "failed", !.error = "unqueued"] \in Doc
    BY Ids, FailedDoc DEF TypeOK, Messages
  <2>2. LogTypeOK' /\ faults' \in 0 .. MaxFaults
    BY <1>5, <2>1, WriteStep, Ids DEF MarkUnqueued, UpdateTransactionStatusWithError, TypeOK
  <2>. QED
    BY <1>5, <2>2
    DEF MarkUnqueued, accountVars, queueVars, requestVars, workerVars, ghostVars,
        TypeOK, AccountsTypeOK, QueueTypeOK, NoOverdraft, WorkIsValid, InHand,
        Finished, Phases, Replies
<1>6. CASE SyncUpdateBalance(r)
  <2>1. ValidRequest(body[r])
    BY <1>6 DEF SyncUpdateBalance, WorkIsValid, Finished
  <2>2. AccountsTypeOK' /\ NoOverdraft' /\ faults' \in 0 .. MaxFaults
    BY <1>6, <2>1, ValidUpdate, UpdateStep DEF SyncUpdateBalance, TypeOK
  <2>3. effect' \in [TxnIds -> Int]
    BY <1>6, Ids DEF SyncUpdateBalance, Count, TypeOK
  <2>4. balance[Account(r)] \in Int /\ balance'[Account(r)] \in Int
    BY <2>1, <2>2, ValidUpdate DEF TypeOK, AccountsTypeOK
  <2>5. local' \in [Requests -> [prev : Int, new : Int]]
    <3>1. \/ UNCHANGED local
          \/ local' = [local EXCEPT ![r] = [prev |-> balance[Account(r)],
                                           new  |-> balance'[Account(r)]]]
      BY <1>6 DEF SyncUpdateBalance
    <3>2. [prev |-> balance[Account(r)], new |-> balance'[Account(r)]] \in [prev : Int, new : Int]
      BY <2>4
    <3>. QED BY <3>1, <3>2 DEF TypeOK
  <2>. QED
    BY <1>6, <2>2, <2>3, <2>5
    DEF SyncUpdateBalance, queueVars, requestVars, workerVars,
        TypeOK, LogTypeOK, QueueTypeOK, WorkIsValid, InHand, Finished, Phases, Replies
<1>7. CASE SyncRecord(r)
  <2>1. [status |-> "completed", prev |-> local[r].prev, new |-> local[r].new, error |-> "none"] \in Doc
    BY DEF TypeOK, Doc, Statuses, Messages
  <2>2. LogTypeOK' /\ faults' \in 0 .. MaxFaults
    BY <1>7, <2>1, WriteStep, Ids DEF SyncRecord, CreateTransaction, TypeOK
  <2>. QED
    BY <1>7, <2>2
    DEF SyncRecord, accountVars, queueVars, requestVars, workerVars, ghostVars,
        TypeOK, AccountsTypeOK, QueueTypeOK, NoOverdraft, WorkIsValid, InHand,
        Finished, Phases, Replies
<1>8. CASE SyncRollback(r)
  <2>1. ValidRequest(body[r])
    BY <1>8 DEF SyncRollback, WorkIsValid, Finished
  <2>2. AccountsTypeOK' /\ NoOverdraft' /\ faults' \in 0 .. MaxFaults
    BY <1>8, <2>1, ValidUpdate, UpdateStep DEF SyncRollback, TypeOK
  <2>3. effect' \in [TxnIds -> Int]
    BY <1>8, Ids DEF SyncRollback, Count, TypeOK
  <2>. QED
    BY <1>8, <2>2, <2>3
    DEF SyncRollback, queueVars, requestVars, workerVars,
        TypeOK, LogTypeOK, QueueTypeOK, WorkIsValid, InHand, Finished, Phases, Replies
<1>9. CASE Disconnect(r)
  <2>1. faults' \in 0 .. MaxFaults
    BY <1>9, FaultsStep DEF Disconnect, TypeOK
  <2>. QED
    BY <1>9, <2>1
    DEF Disconnect, accountVars, queueVars, requestVars, workerVars, ghostVars,
        TypeOK, AccountsTypeOK, LogTypeOK, QueueTypeOK, NoOverdraft, WorkIsValid, InHand
<1>. QED BY <1>1, <1>2, <1>3, <1>4, <1>5, <1>6, <1>7, <1>8, <1>9 DEF Handle

(* What a busy worker has in hand is a validated request.                  *)
LEMMA BusyWorker ==
  ASSUME Sound, NEW w \in Workers, wphase[w] # "idle"
  PROVE  job[w] \in Requests /\ ValidRequest(body[job[w]])
BY DEF Sound, WorkIsValid, InHand

(* Every step of a worker keeps types, balances and validity.              *)
LEMMA WorkerSound ==
  ASSUME Sound, NEW w \in Workers, Work(w)
  PROVE  Sound'
<1>. USE DEF Sound, WGoto, WReturn, WFail
<1>1. CASE TakeDelivery(w)
  <2>1. PICK r \in ready : Deliver(w, r) /\ job' = [job EXCEPT ![w] = r]
    BY <1>1 DEF TakeDelivery
  <2>2. r \in Requests /\ ValidRequest(body[r])
    BY DEF TypeOK, QueueTypeOK, WorkIsValid, InHand
  <2>3. QueueTypeOK' /\ \A s \in Requests : InHand(s)' => InHand(s)
    BY <2>1, <2>2 DEF Deliver, TypeOK, QueueTypeOK, InHand
  <2>4. TypeOK' /\ NoOverdraft'
    BY <1>1, <2>1, <2>2, <2>3
    DEF TakeDelivery, accountVars, requestVars, handlerVars, ghostVars,
        TypeOK, AccountsTypeOK, LogTypeOK, NoOverdraft, WorkerPhases
  <2>5. WorkIsValid'
    BY <1>1, <2>1, <2>2, <2>3 DEF TakeDelivery, requestVars, handlerVars, TypeOK, WorkIsValid
  <2>. QED BY <2>4, <2>5
<1>2. CASE LoadPending(w)
  <2>1. faults' \in 0 .. MaxFaults /\ UNCHANGED log
    BY <1>2, FaultsStep DEF LoadPending, GetTransactionByID, TypeOK
  <2>. QED
    BY <1>2, <2>1
    DEF LoadPending, NotPending, accountVars, queueVars, requestVars, handlerVars, ghostVars,
        TypeOK, AccountsTypeOK, LogTypeOK, QueueTypeOK, NoOverdraft, WorkIsValid, InHand,
        WorkerPhases
<1>3. CASE AsyncUpdateBalance(w)
  <2>1. job[w] \in Requests /\ ValidRequest(body[job[w]])
    BY <1>3, BusyWorker DEF AsyncUpdateBalance
  <2>2. AccountsTypeOK' /\ NoOverdraft' /\ faults' \in 0 .. MaxFaults
    BY <1>3, <2>1, ValidUpdate, UpdateStep DEF AsyncUpdateBalance, TypeOK
  <2>3. effect' \in [TxnIds -> Int]
    BY <1>3, <2>1, Ids DEF AsyncUpdateBalance, Count, TypeOK
  <2>4. wlocal' \in [Workers -> [prev : Int, new : Int]]
    <3>1. \/ UNCHANGED wlocal
          \/ wlocal' = [wlocal EXCEPT ![w] = [prev |-> balance[Account(job[w])],
                                             new  |-> balance'[Account(job[w])]]]
      BY <1>3 DEF AsyncUpdateBalance
    <3>2. balance[Account(job[w])] \in Int /\ balance'[Account(job[w])] \in Int
      BY <2>1, <2>2, ValidUpdate DEF TypeOK, AccountsTypeOK
    <3>3. [prev |-> balance[Account(job[w])], new |-> balance'[Account(job[w])]]
            \in [prev : Int, new : Int]
      BY <3>2
    <3>. QED BY <3>1, <3>3 DEF TypeOK
  <2>5. /\ wphase' \in [Workers -> WorkerPhases] /\ UNCHANGED job
        /\ reason' \in [Workers -> {"business", "system", "unrecorded"}]
        /\ \A v \in Workers : v # w => wphase'[v] = wphase[v]
    BY <1>3 DEF AsyncUpdateBalance, TypeOK, WorkerPhases
  <2>. QED
    BY <1>3, <2>1, <2>2, <2>3, <2>4, <2>5
    DEF AsyncUpdateBalance, queueVars, requestVars, handlerVars,
        TypeOK, LogTypeOK, QueueTypeOK, WorkIsValid, InHand
<1>4. CASE AsyncComplete(w)
  <2>1. job[w] \in Requests
    BY <1>4, BusyWorker DEF AsyncComplete
  <2>2. [status |-> "completed", prev |-> wlocal[w].prev, new |-> wlocal[w].new,
         error |-> "none"] \in Doc
    BY DEF TypeOK, Doc, Statuses, Messages
  <2>3. LogTypeOK' /\ faults' \in 0 .. MaxFaults
    BY <1>4, <2>1, <2>2, WriteStep, Ids DEF AsyncComplete, UpdateTransaction, TypeOK
  <2>. QED
    BY <1>4, <2>1, <2>3
    DEF AsyncComplete, AfterUpdate, accountVars, queueVars, requestVars, handlerVars, ghostVars,
        TypeOK, AccountsTypeOK, QueueTypeOK, NoOverdraft, WorkIsValid, InHand, WorkerPhases
<1>5. CASE AsyncRollback(w)
  <2>1. job[w] \in Requests /\ ValidRequest(body[job[w]])
    BY <1>5, BusyWorker DEF AsyncRollback
  <2>2. AccountsTypeOK' /\ NoOverdraft' /\ faults' \in 0 .. MaxFaults
    BY <1>5, <2>1, ValidUpdate, UpdateStep DEF AsyncRollback, TypeOK
  <2>3. effect' \in [TxnIds -> Int]
    BY <1>5, <2>1, Ids DEF AsyncRollback, Count, TypeOK
  <2>. QED
    BY <1>5, <2>1, <2>2, <2>3
    DEF AsyncRollback, queueVars, requestVars, handlerVars,
        TypeOK, LogTypeOK, QueueTypeOK, WorkIsValid, InHand, WorkerPhases
<1>6. CASE AsyncMarkFailed(w)
  <2>1. job[w] \in Requests
    BY <1>6, BusyWorker DEF AsyncMarkFailed
  <2>2. reason[w] \in Messages
    BY DEF TypeOK, Messages
  <2>3. LogTypeOK' /\ faults' \in 0 .. MaxFaults
    BY <1>6, <2>1, <2>2, WriteStep, FailedDoc, Ids
    DEF AsyncMarkFailed, UpdateTransactionStatusWithError, TypeOK
  <2>. QED
    BY <1>6, <2>1, <2>3
    DEF AsyncMarkFailed, accountVars, queueVars, requestVars, handlerVars, ghostVars,
        TypeOK, AccountsTypeOK, QueueTypeOK, NoOverdraft, WorkIsValid, InHand, WorkerPhases
<1>7. CASE AckDelivery(w) \/ NackDelivery(w)
  <2>1. /\ QueueTypeOK'
        /\ \A r \in ready' : r \in ready \/ \E v \in Workers : unacked[v] = r
        /\ \A v \in Workers : unacked'[v] \in {unacked[v], NoMsg}
    BY <1>7 DEF AckDelivery, NackDelivery, Ack, Nack, TypeOK, QueueTypeOK
  <2>2. wlocal' \in [Workers -> [prev : Int, new : Int]]
    BY <1>7 DEF AckDelivery, NackDelivery, WRest, NoBalances, TypeOK
  <2>3. /\ wphase' = [wphase EXCEPT ![w] = "idle"] /\ job' = [job EXCEPT ![w] = NoMsg]
        /\ reason' = [reason EXCEPT ![w] = "business"]
        /\ UNCHANGED <<faults, accountVars, log, requestVars, handlerVars, ghostVars>>
    BY <1>7 DEF AckDelivery, NackDelivery, WRest
  <2>4. TypeOK' /\ NoOverdraft'
    BY <2>1, <2>2, <2>3
    DEF accountVars, requestVars, handlerVars, ghostVars, TypeOK, AccountsTypeOK, LogTypeOK,
        NoOverdraft, WorkerPhases
  <2>5. ASSUME NEW r \in Requests, InHand(r)' PROVE InHand(r)
    <3>1. CASE r \in ready'
      BY <3>1, <2>1 DEF InHand
    <3>2. CASE \E v \in Workers : unacked'[v] = r
      BY <3>2, <2>1, HostAssumption DEF InHand
    <3>3. CASE \E v \in Workers : job'[v] = r
      BY <3>3, <2>3, HostAssumption DEF TypeOK, InHand
    <3>. QED BY <2>5, <3>1, <3>2, <3>3 DEF InHand
  <2>. QED BY <2>3, <2>4, <2>5 DEF requestVars, handlerVars, TypeOK, WorkIsValid
<1>. QED BY <1>1, <1>2, <1>3, <1>4, <1>5, <1>6, <1>7 DEF Work

(* Faults, crashes, new accounts and new processes keep them too.          *)
LEMMA EnvironmentSound ==
  ASSUME Sound,
         \/ \E a \in Accounts, n \in OpeningBalances : OpenAccount(a, n)
         \/ \E i \in Instances : Start(i) \/ LinkLoss(i) \/ ChannelLoss(i) \/ Crash(i)
         \/ \E r \in Requests : Expire(r)
  PROVE  Sound'
<1>. USE DEF Sound
<1>1. ASSUME NEW a \in Accounts, NEW n \in OpeningBalances, OpenAccount(a, n) PROVE Sound'
  <2>1. n \in 0 .. MaxBalance /\ n \in Int
    BY OpeningAssumption, LimitAssumption
  <2>2. AccountsTypeOK' /\ NoOverdraft' /\ opening' \in [Accounts -> Int]
    BY <1>1, <2>1, LimitAssumption
    DEF OpenAccount, CreateAccount, TypeOK, AccountsTypeOK, NoOverdraft
  <2>. QED
    BY <1>1, <2>2
    DEF OpenAccount, queueVars, requestVars, handlerVars, workerVars, TypeOK, LogTypeOK,
        QueueTypeOK, WorkIsValid, InHand
<1>2. ASSUME NEW i \in Instances, Start(i) PROVE Sound'
  <2>1. faults' \in 0 .. MaxFaults
    BY <1>2, FaultsStep DEF Start, TypeOK
  <2>. QED
    BY <1>2, <2>1
    DEF Start, accountVars, requestVars, handlerVars, workerVars, ghostVars, TypeOK,
        AccountsTypeOK, LogTypeOK, QueueTypeOK, NoOverdraft, WorkIsValid, InHand, Links
<1>3. ASSUME NEW i \in Instances, LinkLoss(i) \/ ChannelLoss(i) PROVE Sound'
  <2>1. faults' \in 0 .. MaxFaults
    BY <1>3, FaultsStep DEF LinkLoss, ChannelLoss, TypeOK
  <2>2. QueueTypeOK' /\ \A r \in Requests :
          r \in ready' \/ (\E w \in Workers : unacked'[w] = r)
            => r \in ready \/ \E w \in Workers : unacked[w] = r
    BY <1>3, CloseStep, HostAssumption DEF LinkLoss, ChannelLoss, TypeOK, Links
  <2>. QED
    BY <1>3, <2>1, <2>2
    DEF LinkLoss, ChannelLoss, accountVars, requestVars, handlerVars, workerVars, ghostVars,
        TypeOK, AccountsTypeOK, LogTypeOK, NoOverdraft, WorkIsValid, InHand
<1>4. ASSUME NEW i \in Instances, Crash(i) PROVE Sound'
  <2>1. faults' \in 0 .. MaxFaults
    BY <1>4, FaultsStep DEF Crash, TypeOK
  <2>2. QueueTypeOK' /\ \A r \in Requests :
          r \in ready' \/ (\E w \in Workers : unacked'[w] = r)
            => r \in ready \/ \E w \in Workers : unacked[w] = r
    BY <1>4, CloseStep, HostAssumption DEF Crash, TypeOK, Links
  <2>3. phase' \in [Requests -> Phases]
        /\ \A r \in Requests : phase'[r] \in {phase[r], "dropped"}
    BY <1>4 DEF Crash, TypeOK, Phases
  <2>4. /\ wphase' \in [Workers -> WorkerPhases] /\ job' \in [Workers -> Requests \cup {NoMsg}]
        /\ reason' \in [Workers -> {"business", "system", "unrecorded"}]
        /\ \A w \in Workers : \/ wphase'[w] = "idle" /\ job'[w] = NoMsg
                              \/ wphase'[w] = wphase[w] /\ job'[w] = job[w]
    BY <1>4 DEF Crash, TypeOK, WorkerPhases
  <2>5. wlocal' \in [Workers -> [prev : Int, new : Int]]
    BY <1>4 DEF Crash, NoBalances, TypeOK
  <2>6. \A r \in Requests : InHand(r)' => InHand(r)
    BY <2>2, <2>4, HostAssumption DEF InHand
  <2>7. TypeOK' /\ NoOverdraft'
    BY <1>4, <2>1, <2>2, <2>3, <2>4, <2>5
    DEF Crash, accountVars, requestVars, ghostVars, TypeOK, AccountsTypeOK, LogTypeOK, NoOverdraft
  <2>8. WorkIsValid'
    BY <1>4, <2>3, <2>4, <2>6 DEF Crash, requestVars, WorkIsValid, Finished
  <2>. QED BY <2>7, <2>8
<1>5. ASSUME NEW r \in Requests, Expire(r) PROVE Sound'
  <2>1. faults' \in 0 .. MaxFaults
    BY <1>5, FaultsStep DEF Expire, TypeOK
  <2>. QED
    BY <1>5, <2>1
    DEF Expire, Drop, accountVars, requestVars, handlerVars, workerVars, ghostVars, TypeOK,
        AccountsTypeOK, LogTypeOK, QueueTypeOK, NoOverdraft, WorkIsValid, InHand
<1>. QED BY <1>1, <1>2, <1>3, <1>4, <1>5

LEMMA StepSound == Sound /\ [Next]_vars => Sound'
<1>. SUFFICES ASSUME Sound, [Next]_vars PROVE Sound'
  OBVIOUS
<1>1. CASE UNCHANGED vars
  BY <1>1
  DEF vars, accountVars, queueVars, requestVars, handlerVars, workerVars, ghostVars, Sound,
      TypeOK, AccountsTypeOK, LogTypeOK, QueueTypeOK, NoOverdraft, WorkIsValid, InHand
<1>2. CASE Rest
  BY <1>1, <1>2 DEF Rest
<1>. QED BY <1>1, <1>2, HandlerSound, WorkerSound, EnvironmentSound DEF Next

(* Every variable keeps its type, in every run of the service.             *)
THEOREM TypesHold == Spec => []TypeOK
BY InitSound, StepSound, PTL DEF Spec, Sound

(* No account is ever overdrawn or past its column's limit, however many   *)
(* handlers, workers and compensations meet, and whatever faults strike.   *)
THEOREM BalancesStayInRange == Spec => []NoOverdraft
BY InitSound, StepSound, PTL DEF Spec, Sound

-----------------------------------------------------------------------------
(* One way for each request through handler, queue and stores              *)

(* OneWayOut and DirectFollowsPhase, for one request.                      *)
Clean(r) ==
  /\ reply[r] # "none" => phase[r] = "done"
  /\ InHand(r) \/ effect[QueuedId(r)] # 0 => reply[r] = "accepted"
  /\ phase[r] \in {"idle", "validate", "create", "publish", "unqueued", "update"}
       => effect[DirectId(r)] = 0
  /\ phase[r] = "record" => effect[DirectId(r)] = 1
  /\ reply[r] = "ok" => log[DirectId(r)].status = "completed" /\ effect[DirectId(r)] = 1

Orderly == \A r \in Requests : Clean(r)

LEMMA OrderlyMeans == Orderly <=> OneWayOut /\ DirectFollowsPhase
BY DEF Orderly, Clean, OneWayOut, DirectFollowsPhase

(* What a step does to a request that is not its own: at most, a crash     *)
(* drops it or a worker that has its message applies its pending document. *)
Aside(r) ==
  /\ phase'[r] = phase[r] \/ (phase[r] \notin Finished /\ phase'[r] = "dropped")
  /\ reply'[r] = reply[r]
  /\ InHand(r)' => InHand(r)
  /\ effect'[QueuedId(r)] = effect[QueuedId(r)] \/ InHand(r)
  /\ effect'[DirectId(r)] = effect[DirectId(r)]
  /\ log'[DirectId(r)] = log[DirectId(r)]

LEMMA AsideClean ==
  ASSUME NEW r \in Requests, Clean(r), Aside(r)
  PROVE  Clean(r)'
BY DEF Clean, Aside, Finished

LEMMA InitOrderly == Init => Orderly
<1>. SUFFICES ASSUME Init, NEW r \in Requests PROVE Clean(r)
  BY DEF Orderly
<1>. QED
  BY Ids, HostAssumption DEF Init, QueueInit, Clean, InHand

(* A count for one document leaves the others alone.                       *)
LEMMA CountStep ==
  ASSUME TypeOK, NEW d \in TxnIds, NEW n \in Int, Count(d, n)
  PROVE  /\ effect'[d] = effect[d] + n
         /\ \A e \in TxnIds : e # d => effect'[e] = effect[e]
BY DEF Count, TypeOK

(* A handler's step touches its own request only, and in good order.       *)
LEMMA HandlerOrderly ==
  ASSUME TypeOK, Orderly, NEW r \in Requests, Handle(r) \/ Disconnect(r),
         NEW s \in Requests
  PROVE  Clean(s)'
<1>. USE DEF Goto, Finish
<1>1. Clean(s) /\ Clean(r)
  BY DEF Orderly
<1>2. CASE ReceiveTransaction(r)
  <2>1. UNCHANGED <<log, effect>> /\ (InHand(s)' <=> InHand(s))
    BY <1>2 DEF ReceiveTransaction, queueVars, workerVars, ghostVars, InHand
  <2>. QED
    BY <1>1, <1>2, <2>1 DEF ReceiveTransaction, Clean, TypeOK
<1>3. CASE ValidateAccount(r)
  <2>1. UNCHANGED <<log, effect>> /\ (InHand(s)' <=> InHand(s))
    BY <1>3 DEF ValidateAccount, GetAccountByID, queueVars, workerVars, ghostVars, InHand
  <2>. QED BY <1>1, <1>3, <2>1 DEF ValidateAccount, GetAccountByID, Clean, TypeOK
<1>4. CASE CreatePending(r)
  <2>1. UNCHANGED effect /\ (InHand(s)' <=> InHand(s))
    BY <1>4 DEF CreatePending, queueVars, workerVars, ghostVars, InHand
  <2>2. log'[DirectId(s)] = log[DirectId(s)]
    BY <1>4, Ids DEF CreatePending, CreateTransaction, Write, TypeOK, LogTypeOK
  <2>. QED BY <1>1, <1>4, <2>1, <2>2 DEF CreatePending, Clean, TypeOK
<1>5. CASE PublishPending(r)
  <2>1. UNCHANGED <<log, effect>>
    BY <1>5 DEF PublishPending, ghostVars
  <2>2. /\ s # r => (InHand(s)' <=> InHand(s))
        /\ phase'[r] = "unqueued" => (InHand(r)' <=> InHand(r))
    BY <1>5 DEF PublishPending, PublishTransaction, workerVars, InHand, TypeOK
  <2>. QED BY <1>1, <1>5, <2>1, <2>2 DEF PublishPending, Clean, TypeOK
<1>6. CASE MarkUnqueued(r)
  <2>1. UNCHANGED effect /\ (InHand(s)' <=> InHand(s))
    BY <1>6 DEF MarkUnqueued, queueVars, workerVars, ghostVars, InHand
  <2>2. log'[DirectId(s)] = log[DirectId(s)]
    BY <1>6, Ids
    DEF MarkUnqueued, UpdateTransactionStatusWithError, Write, TypeOK, LogTypeOK
  <2>. QED BY <1>1, <1>6, <2>1, <2>2 DEF MarkUnqueued, Clean, TypeOK
<1>7. CASE SyncUpdateBalance(r)
  <2>1. UNCHANGED log /\ (InHand(s)' <=> InHand(s))
    BY <1>7 DEF SyncUpdateBalance, queueVars, workerVars, InHand
  <2>2. PICK out \in UpdateOutcomes :
          /\ Count(DirectId(r), IF Applied(out) THEN 1 ELSE 0)
          /\ IF out = "ok" THEN Goto(r, "record")
             ELSE Finish(r, IF out = "business" THEN "rejected" ELSE "error")
    BY <1>7 DEF SyncUpdateBalance
  <2>3. /\ effect'[DirectId(r)] = effect[DirectId(r)] + (IF Applied(out) THEN 1 ELSE 0)
        /\ \A e \in TxnIds : e # DirectId(r) => effect'[e] = effect[e]
    BY <2>2, CountStep, Ids
  <2>. QED
    BY <1>1, <1>7, <2>1, <2>2, <2>3, Ids DEF SyncUpdateBalance, Clean, Applied, TypeOK
<1>8. CASE SyncRecord(r)
  <2>1. UNCHANGED effect /\ (InHand(s)' <=> InHand(s))
    BY <1>8 DEF SyncRecord, queueVars, workerVars, ghostVars, InHand
  <2>2. /\ s # r => log'[DirectId(s)] = log[DirectId(s)]
        /\ reply'[r] = "ok" => \/ log'[DirectId(r)].status = "completed"
                               \/ reply[r] = "ok"
    BY <1>8, Ids DEF SyncRecord, CreateTransaction, Write, TypeOK, LogTypeOK
  <2>. QED BY <1>1, <1>8, <2>1, <2>2 DEF SyncRecord, Clean, TypeOK
<1>9. CASE SyncRollback(r)
  <2>1. UNCHANGED log /\ (InHand(s)' <=> InHand(s))
    BY <1>9 DEF SyncRollback, queueVars, workerVars, InHand
  <2>2. \A e \in TxnIds : e # DirectId(r) => effect'[e] = effect[e]
    BY <1>9, CountStep, Ids DEF SyncRollback
  <2>. QED BY <1>1, <1>9, <2>1, <2>2, Ids DEF SyncRollback, Clean, TypeOK
<1>10. CASE Disconnect(r)
  <2>1. UNCHANGED <<log, effect, phase, reply>> /\ (InHand(s)' <=> InHand(s))
    BY <1>10 DEF Disconnect, queueVars, workerVars, ghostVars, InHand
  <2>. QED BY <1>1, <2>1 DEF Clean
<1>. QED
  BY <1>2, <1>3, <1>4, <1>5, <1>6, <1>7, <1>8, <1>9, <1>10 DEF Handle

(* A worker's step counts only for the request whose message it has.       *)
LEMMA WorkerAside ==
  ASSUME Sound, NEW w \in Workers, Work(w), NEW s \in Requests
  PROVE  Aside(s)
<1>. USE DEF Sound, WGoto, WReturn, WFail
<1>1. UNCHANGED <<phase, reply>>
  BY DEF Work, TakeDelivery, LoadPending, AsyncUpdateBalance, AsyncComplete, AsyncRollback,
         AsyncMarkFailed, AckDelivery, NackDelivery, handlerVars
<1>2. CASE TakeDelivery(w)
  <2>1. UNCHANGED <<log, effect>>
    BY <1>2 DEF TakeDelivery, ghostVars
  <2>2. InHand(s)' => InHand(s)
    BY <1>2, HostAssumption DEF TakeDelivery, Deliver, TypeOK, QueueTypeOK, InHand
  <2>. QED BY <1>1, <2>1, <2>2 DEF Aside
<1>3. CASE LoadPending(w)
  BY <1>1, <1>3
  DEF LoadPending, GetTransactionByID, queueVars, ghostVars, InHand, Aside
<1>4. CASE AsyncUpdateBalance(w) \/ AsyncRollback(w)
  <2>1. job[w] \in Requests /\ InHand(job[w])
    BY <1>4, BusyWorker DEF AsyncUpdateBalance, AsyncRollback, InHand
  <2>2. UNCHANGED log /\ (InHand(s)' <=> InHand(s))
    BY <1>4 DEF AsyncUpdateBalance, AsyncRollback, queueVars, InHand
  <2>3. \A e \in TxnIds : e # QueuedId(job[w]) => effect'[e] = effect[e]
    <3>1. PICK out \in UpdateOutcomes :
            \/ Count(QueuedId(job[w]), IF Applied(out) THEN 1 ELSE 0)
            \/ Count(QueuedId(job[w]), IF Applied(out) THEN -1 ELSE 0)
      BY <1>4 DEF AsyncUpdateBalance, AsyncRollback
    <3>. QED BY <2>1, <3>1, CountStep, Ids
  <2>. QED BY <1>1, <2>1, <2>2, <2>3, Ids DEF Aside
<1>5. CASE AsyncComplete(w) \/ AsyncMarkFailed(w)
  <2>1. job[w] \in Requests
    BY <1>5, BusyWorker DEF AsyncComplete, AsyncMarkFailed
  <2>2. UNCHANGED effect /\ (InHand(s)' <=> InHand(s))
    BY <1>5 DEF AsyncComplete, AsyncMarkFailed, queueVars, ghostVars, InHand
  <2>3. log'[DirectId(s)] = log[DirectId(s)]
    BY <1>5, <2>1, Ids
    DEF AsyncComplete, AsyncMarkFailed, UpdateTransaction, UpdateTransactionStatusWithError,
        Write, TypeOK, LogTypeOK
  <2>. QED BY <1>1, <2>2, <2>3 DEF Aside
<1>6. CASE AckDelivery(w) \/ NackDelivery(w)
  <2>1. UNCHANGED <<log, effect>>
    BY <1>6 DEF AckDelivery, NackDelivery, ghostVars
  <2>2. InHand(s)' => InHand(s)
    BY <1>6, HostAssumption
    DEF AckDelivery, NackDelivery, Ack, Nack, WRest, TypeOK, QueueTypeOK, InHand
  <2>. QED BY <1>1, <2>1, <2>2 DEF Aside
<1>. QED BY <1>2, <1>3, <1>4, <1>5, <1>6 DEF Work

(* The environment may drop a request or lose its message, no more.        *)
LEMMA EnvironmentAside ==
  ASSUME Sound, NEW s \in Requests,
         \/ \E a \in Accounts, n \in OpeningBalances : OpenAccount(a, n)
         \/ \E i \in Instances : Start(i) \/ LinkLoss(i) \/ ChannelLoss(i) \/ Crash(i)
         \/ \E r \in Requests : Expire(r)
  PROVE  Aside(s)
<1>. USE DEF Sound
<1>1. ASSUME NEW a \in Accounts, NEW n \in OpeningBalances, OpenAccount(a, n) PROVE Aside(s)
  BY <1>1 DEF OpenAccount, queueVars, handlerVars, workerVars, InHand, Aside
<1>2. ASSUME NEW i \in Instances, Start(i) PROVE Aside(s)
  BY <1>2 DEF Start, handlerVars, workerVars, ghostVars, InHand, Aside
<1>3. ASSUME NEW i \in Instances, LinkLoss(i) \/ ChannelLoss(i) PROVE Aside(s)
  <2>1. UNCHANGED <<log, job, phase, reply, effect>>
    BY <1>3 DEF LinkLoss, ChannelLoss, handlerVars, workerVars, ghostVars
  <2>2. InHand(s)' => InHand(s)
    BY <1>3, <2>1, CloseStep, HostAssumption DEF LinkLoss, ChannelLoss, TypeOK, Links, InHand
  <2>. QED BY <2>1, <2>2 DEF Aside
<1>4. ASSUME NEW i \in Instances, Crash(i) PROVE Aside(s)
  <2>1. /\ UNCHANGED <<log, reply, effect>>
        /\ phase'[s] = phase[s] \/ (phase[s] \notin Finished /\ phase'[s] = "dropped")
        /\ \A w \in Workers : job'[w] \in {job[w], NoMsg}
    BY <1>4 DEF Crash, ghostVars
  <2>2. InHand(s)' => InHand(s)
    <3>1. QueueTypeOK /\ Close(i, "down")
      BY <1>4 DEF Crash, TypeOK
    <3>. QED BY <2>1, <3>1, CloseStep, HostAssumption DEF Links, InHand
  <2>. QED BY <2>1, <2>2 DEF Aside
<1>5. ASSUME NEW r \in Requests, Expire(r) PROVE Aside(s)
  BY <1>5 DEF Expire, Drop, handlerVars, workerVars, ghostVars, InHand, Aside
<1>. QED BY <1>1, <1>2, <1>3, <1>4, <1>5

LEMMA StepOrderly == Sound /\ Orderly /\ [Next]_vars => Orderly'
<1>. SUFFICES ASSUME Sound, Orderly, [Next]_vars, NEW s \in Requests PROVE Clean(s)'
  BY DEF Orderly
<1>1. CASE UNCHANGED vars \/ Rest
  <2>1. UNCHANGED vars
    BY <1>1 DEF Rest
  <2>. QED
    BY <2>1 DEF vars, queueVars, handlerVars, workerVars, ghostVars, Orderly, Clean, InHand
<1>2. ASSUME Aside(s) PROVE Clean(s)'
  BY <1>2, AsideClean DEF Orderly
<1>. QED
  BY <1>1, <1>2, HandlerOrderly, WorkerAside, EnvironmentAside DEF Next, Sound

LEMMA StepService == ServiceInvariant /\ [Next]_vars => ServiceInvariant'
<1>1. ServiceInvariant <=> Sound /\ Orderly
  BY OrderlyMeans DEF ServiceInvariant, Sound
<1>2. ServiceInvariant' <=> Sound' /\ Orderly'
  BY <1>1, PTL
<1>. QED BY <1>1, <1>2, StepSound, StepOrderly

(* The inductive invariant of the service.                                 *)
THEOREM ServiceInvariantHolds == Spec => []ServiceInvariant
<1>1. Init => ServiceInvariant
  BY InitSound, InitOrderly, OrderlyMeans DEF ServiceInvariant, Sound
<1>. QED BY <1>1, StepService, PTL DEF Spec

(* A client that is told 200 has its update in the balance exactly once,   *)
(* and the synchronous fallback never runs beside a worker on the same     *)
(* request, under every fault and with any number of instances.            *)
THEOREM OkRepliesAreExact == Spec => []OkReplyIsExact
<1>1. ServiceInvariant => OkReplyIsExact
  BY DEF ServiceInvariant, OneWayOut, DirectFollowsPhase, OkReplyIsExact
<1>. QED BY <1>1, ServiceInvariantHolds, PTL

-----------------------------------------------------------------------------
(* After the answer                                                        *)

(* A handler counts for its direct document only, and not once it ended.   *)
LEMMA HandlerEffect ==
  ASSUME TypeOK, NEW r \in Requests, Handle(r) \/ Disconnect(r)
  PROVE  /\ phase[r] \notin {"done", "dropped"}
         /\ \A e \in TxnIds : e # DirectId(r) => effect'[e] = effect[e]
<1>1. phase[r] \notin {"done", "dropped"}
  BY DEF Handle, ReceiveTransaction, ValidateAccount, GetAccountByID,
         CreatePending, PublishPending,
         MarkUnqueued, SyncUpdateBalance, SyncRecord, SyncRollback, Disconnect, Finished
<1>2. CASE SyncUpdateBalance(r) \/ SyncRollback(r)
  <2>1. PICK out \in UpdateOutcomes :
          \/ Count(DirectId(r), IF Applied(out) THEN 1 ELSE 0)
          \/ Count(DirectId(r), IF Applied(out) THEN -1 ELSE 0)
    BY <1>2 DEF SyncUpdateBalance, SyncRollback
  <2>. QED BY <1>1, <2>1, CountStep, Ids
<1>3. CASE ~(SyncUpdateBalance(r) \/ SyncRollback(r))
  BY <1>1, <1>3
  DEF Handle, ReceiveTransaction, ValidateAccount, GetAccountByID,
      CreatePending, PublishPending,
      MarkUnqueued, SyncRecord, Disconnect, ghostVars
<1>. QED BY <1>2, <1>3

LEMMA StepAnswered == ServiceInvariant /\ [Next]_vars => LeavesAnsweredAlone
<1>. SUFFICES ASSUME ServiceInvariant, [Next]_vars, NEW s \in Requests,
                     reply[s] \in {"ok", "rejected", "error"}
              PROVE  /\ effect'[DirectId(s)] = effect[DirectId(s)]
                     /\ effect'[QueuedId(s)] = effect[QueuedId(s)]
  BY DEF LeavesAnsweredAlone
<1>1. phase[s] = "done" /\ ~InHand(s) /\ Sound
  BY DEF ServiceInvariant, OneWayOut, Sound
<1>2. ASSUME NEW r \in Requests, Handle(r) \/ Disconnect(r)
      PROVE  /\ effect'[DirectId(s)] = effect[DirectId(s)]
             /\ effect'[QueuedId(s)] = effect[QueuedId(s)]
  BY <1>1, <1>2, HandlerEffect, Ids DEF Sound
<1>3. CASE Aside(s)
  BY <1>1, <1>3 DEF Aside
<1>4. CASE UNCHANGED vars \/ Rest
  BY <1>4 DEF Rest, vars, ghostVars
<1>. QED BY <1>1, <1>2, <1>3, <1>4, WorkerAside, EnvironmentAside DEF Next

(* No balance ever changes for a request whose client already has a final  *)
(* answer: no worker, redelivery or late compensation reaches it.          *)
THEOREM AnswersAreFinal == Spec => NoEffectAfterAnswer
<1>1. ServiceInvariant /\ [Next]_vars => [LeavesAnsweredAlone]_vars
  BY StepAnswered
<1>. QED BY <1>1, ServiceInvariantHolds, PTL DEF Spec, NoEffectAfterAnswer

-----------------------------------------------------------------------------
(* Refusals, where nothing needs to be undone                              *)

(* No ambiguous commit, and nothing that makes a ledger write fail.        *)
NothingToUndo == Faults \cap {"pgCommit", "mongo", "mongoReply", "cancel"} = {}

(* Then no handler ever compensates, and what a handler refused it did not *)
(* apply.                                                                  *)
PlainRefusals ==
  \A r \in Requests :
    /\ phase[r] # "rollback" /\ ~cancelled[r]
    /\ reply[r] \in {"rejected", "error"} => effect[DirectId(r)] = 0

LEMMA InitPlain == Init => PlainRefusals
BY DEF Init, PlainRefusals

LEMMA StepPlain ==
  ASSUME NothingToUndo
  PROVE  ServiceInvariant /\ PlainRefusals /\ [Next]_vars => PlainRefusals'
<1>. SUFFICES ASSUME ServiceInvariant, PlainRefusals, [Next]_vars, NEW s \in Requests
              PROVE  /\ phase'[s] # "rollback" /\ ~cancelled'[s]
                     /\ reply'[s] \in {"rejected", "error"} => effect'[DirectId(s)] = 0
  BY DEF PlainRefusals
<1>1. TypeOK /\ Sound /\ ~cancelled[s] /\ phase[s] # "rollback"
  BY DEF ServiceInvariant, Sound, PlainRefusals
<1>2. ASSUME NEW r \in Requests, Handle(r)
      PROVE  /\ phase'[s] # "rollback" /\ ~cancelled'[s]
             /\ reply'[s] \in {"rejected", "error"} => effect'[DirectId(s)] = 0
  <2>1. UNCHANGED cancelled
    BY <1>2 DEF Handle, ReceiveTransaction, ValidateAccount, GetAccountByID,
                CreatePending, PublishPending,
                MarkUnqueued, SyncUpdateBalance, SyncRecord, SyncRollback, handlerVars
  <2>2. phase[r] # "rollback" /\ ~cancelled[r]
    BY DEF PlainRefusals
  <2>3. CASE s # r
    <3>1. phase'[s] = phase[s] /\ reply'[s] = reply[s]
      BY <1>2, <2>3, <1>1
      DEF Handle, ReceiveTransaction, ValidateAccount, GetAccountByID,
          CreatePending, PublishPending,
          MarkUnqueued, SyncUpdateBalance, SyncRecord, SyncRollback, Goto, Finish, TypeOK
    <3>. QED BY <1>1, <1>2, <2>1, <2>3, <3>1, HandlerEffect, Ids DEF PlainRefusals
  <2>4. CASE s = r /\ SyncUpdateBalance(r)
    <3>1. PICK out \in UpdateOutcomes :
            /\ AtomicBalanceUpdate(cancelled[r], Account(r), body[r].type, body[r].amount, out)
            /\ Count(DirectId(r), IF Applied(out) THEN 1 ELSE 0)
            /\ IF out = "ok" THEN Goto(r, "record")
               ELSE Finish(r, IF out = "business" THEN "rejected" ELSE "error")
      BY <2>4 DEF SyncUpdateBalance
    <3>2. out # "unsure"
      BY <3>1 DEF AtomicBalanceUpdate, Applied, Strike, NothingToUndo
    <3>3. effect[DirectId(r)] = 0 /\ reply[r] = "none"
      BY <2>4 DEF SyncUpdateBalance, ServiceInvariant, DirectFollowsPhase, OneWayOut, TypeOK, Replies
    <3>4. effect'[DirectId(r)] = IF Applied(out) THEN 1 ELSE 0
      BY <1>1, <3>1, <3>3, CountStep, Ids
    <3>. QED
      BY <1>1, <2>1, <2>4, <3>1, <3>2, <3>3, <3>4 DEF Goto, Finish, Applied, UpdateOutcomes, TypeOK
  <2>5. CASE s = r /\ SyncRecord(r)
    <3>1. PICK out \in WriteOutcomes :
            /\ CreateTransaction(FALSE, DirectId(r),
                                 [status |-> "completed", prev |-> local[r].prev,
                                  new |-> local[r].new, error |-> "none"], out)
            /\ IF out = "ok" THEN Finish(r, "ok") ELSE Goto(r, "rollback")
      BY <2>2, <2>5, <1>1 DEF SyncRecord, TypeOK
    <3>2. out = "ok"
      BY <3>1 DEF CreateTransaction, Write, Strike, NothingToUndo
    <3>. QED BY <1>1, <2>1, <2>5, <3>1, <3>2 DEF Finish, TypeOK
  <2>6. CASE s = r /\ ~SyncUpdateBalance(r) /\ ~SyncRecord(r)
    <3>1. UNCHANGED effect /\ phase'[r] # "rollback"
          /\ phase[r] \in {"idle", "validate", "create", "publish", "unqueued"}
      BY <1>1, <1>2, <2>2, <2>6
      DEF Handle, ReceiveTransaction, ValidateAccount, GetAccountByID,
          CreatePending, PublishPending,
          MarkUnqueued, SyncRollback, Goto, Finish, ghostVars, TypeOK
    <3>. QED BY <1>1, <2>1, <2>6, <3>1 DEF ServiceInvariant, DirectFollowsPhase
  <2>. QED BY <2>3, <2>4, <2>5, <2>6
<1>3. ASSUME NEW r \in Requests PROVE ~Disconnect(r)
  BY DEF Disconnect, Strike, NothingToUndo
<1>4. ASSUME Aside(s), UNCHANGED cancelled
      PROVE  /\ phase'[s] # "rollback" /\ ~cancelled'[s]
             /\ reply'[s] \in {"rejected", "error"} => effect'[DirectId(s)] = 0
  BY <1>1, <1>4 DEF Aside, PlainRefusals
<1>5. ASSUME NEW w \in Workers, Work(w) PROVE UNCHANGED cancelled
  BY <1>5
  DEF Work, TakeDelivery, LoadPending, AsyncUpdateBalance, AsyncComplete, AsyncRollback,
      AsyncMarkFailed, AckDelivery, NackDelivery, handlerVars
<1>6. ASSUME \/ \E a \in Accounts, n \in OpeningBalances : OpenAccount(a, n)
             \/ \E i \in Instances : Start(i) \/ LinkLoss(i) \/ ChannelLoss(i) \/ Crash(i)
             \/ \E r \in Requests : Expire(r)
      PROVE  UNCHANGED cancelled
  BY <1>6 DEF OpenAccount, Start, LinkLoss, ChannelLoss, Crash, Expire, handlerVars
<1>7. CASE UNCHANGED vars \/ Rest
  BY <1>1, <1>7 DEF Rest, vars, handlerVars, ghostVars, PlainRefusals
<1>. QED
  BY <1>1, <1>2, <1>3, <1>4, <1>5, <1>6, <1>7, WorkerAside, EnvironmentAside DEF Next

(* As long as both databases answer truthfully and clients stay, a 4xx or  *)
(* 5xx answer means the request has no effect, in spite of crashes, lost   *)
(* links, lost and expired messages, with any number of instances.         *)
THEOREM RefusalsAreClean ==
  ASSUME NothingToUndo
  PROVE  Spec => []RefusalHasNoEffect
<1>1. ServiceInvariant /\ PlainRefusals => RefusalHasNoEffect
  BY DEF ServiceInvariant, OneWayOut, PlainRefusals, RefusalHasNoEffect, TypeOK, Replies
<1>2. ServiceInvariant /\ PlainRefusals /\ [Next]_vars => PlainRefusals'
  BY StepPlain
<1>. QED BY <1>1, <1>2, InitPlain, ServiceInvariantHolds, PTL DEF Spec

=============================================================================
