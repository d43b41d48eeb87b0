------------------------ MODULE LedgerContractProofs ------------------------
(***************************************************************************)
(* Under every fault the service implements LedgerContract as far as       *)
(* AnswersAreKept goes, and where nothing is lost no accepted request is   *)
(* forgotten.                                                              *)
(***************************************************************************)
EXTENDS BankingServiceProofs, FiniteInduction

-----------------------------------------------------------------------------
(* What one step of the service does to one request                        *)

Moved(r, type) ==
  LET b == body[r]
  IN  /\ opened[b.account]
      /\ ~ShortOf(balance[b.account], type, b.amount)
      /\ ~TooLarge(balance[b.account], type, b.amount)
      /\ balance' = [balance EXCEPT ![b.account] = After(@, type, b.amount)]
      /\ UNCHANGED opened

Recounted(r, n) == Standing' = [Standing EXCEPT ![r] = @ + n]

Applies(r)  == Moved(r, body[r].type) /\ Recounted(r, 1)
Reverses(r) == Moved(r, Opposite(body[r].type)) /\ Recounted(r, -1)
Leaves      == UNCHANGED <<opened, balance, Standing>>

(* A step of r's handler or of a worker that has r's message.              *)
Serves(r) ==
  /\ UNCHANGED body
  /\ Applies(r) \/ Reverses(r) \/ Leaves
  /\ reply[r] \in {"none", "accepted"}
  /\ reply[r] = "accepted" => reply'[r] = "accepted"
  /\ \A s \in Requests \ {r} : /\ reply'[s] = reply[s]
                               /\ log'[QueuedId(s)] = log[QueuedId(s)]

(* A step that concerns no request.                                        *)
Idles == UNCHANGED <<opened, balance, body, reply, log, effect>>

(* A count for either document of r counts for r.                          *)
LEMMA CountStanding ==
  ASSUME TypeOK, NEW r \in Requests, NEW d \in {QueuedId(r), DirectId(r)}, NEW n \in Int,
         Count(d, n)
  PROVE  Recounted(r, n)
<1>1. /\ effect'[d] = effect[d] + n
      /\ \A e \in TxnIds : e # d => effect'[e] = effect[e]
  BY CountStep, Ids
<1>2. \A s \in Requests : /\ effect[QueuedId(s)] \in Int /\ effect[DirectId(s)] \in Int
                          /\ s # r => /\ effect'[QueuedId(s)] = effect[QueuedId(s)]
                                      /\ effect'[DirectId(s)] = effect[DirectId(s)]
  BY <1>1, Ids DEF TypeOK
<1>3. effect'[QueuedId(r)] + effect'[DirectId(r)] = effect[QueuedId(r)] + effect[DirectId(r)] + n
  BY <1>1, <1>2, Ids
<1>4. \A s \in Requests : /\ Standing[s] = effect[DirectId(s)] + effect[QueuedId(s)]
                          /\ Standing'[s] = effect'[DirectId(s)] + effect'[QueuedId(s)]
  BY DEF Standing
<1>5. /\ Standing  = [s \in Requests |-> Standing[s]]
      /\ Standing' = [s \in Requests |-> Standing'[s]]
  BY DEF Standing
<1>6. Standing'[r] = Standing[r] + n
  BY <1>2, <1>3, <1>4, Ids, <1>1
<1>7. \A s \in Requests : s # r => Standing'[s] = Standing[s]
  BY <1>2, <1>4
<1>. QED BY <1>5, <1>6, <1>7 DEF Recounted

(* An outcome of AtomicBalanceUpdate, with its count, is one of the three. *)
LEMMA UpdateServes ==
  ASSUME TypeOK, NEW r \in Requests, NEW d \in {QueuedId(r), DirectId(r)},
         NEW done, NEW type, NEW out \in UpdateOutcomes, NEW n \in {-1, 1},
         AtomicBalanceUpdate(done, Account(r), type, body[r].amount, out),
         Count(d, IF Applied(out) THEN n ELSE 0)
  PROVE  (Moved(r, type) /\ Recounted(r, n)) \/ Leaves
<1>1. CASE Applied(out)
  <2>1. Recounted(r, n)
    BY <1>1, CountStanding
  <2>2. Moved(r, type)
    BY <1>1 DEF AtomicBalanceUpdate, Applied, Refuses, Moved, Account
  <2>. QED BY <2>1, <2>2
<1>2. CASE ~Applied(out)
  <2>1. Recounted(r, 0)
    BY <1>2, CountStanding
  <2>2. Standing' = Standing
    <3>1. \A s \in Requests : Standing[s] \in Int
      BY Ids DEF Standing, TypeOK
    <3>2. Standing = [s \in Requests |-> Standing[s]]
      BY DEF Standing
    <3>. QED BY <2>1, <3>1, <3>2 DEF Recounted
  <2>3. UNCHANGED <<opened, balance>>
    BY <1>2 DEF AtomicBalanceUpdate, Applied, UpdateOutcomes, accountVars
  <2>. QED BY <2>2, <2>3 DEF Leaves
<1>. QED BY <1>1, <1>2

LEMMA QuietStanding == UNCHANGED effect => UNCHANGED Standing
BY DEF Standing

LEMMA HandlerServes ==
  ASSUME ServiceInvariant, NEW r \in Requests, Handle(r)
  PROVE  Serves(r)
<1>. USE DEF Goto, Finish
<1>1. TypeOK /\ reply[r] = "none"
  BY HandlerEffect DEF ServiceInvariant, OneWayOut
<1>2. CASE SyncUpdateBalance(r) \/ SyncRollback(r)
  <2>1. Applies(r) \/ Reverses(r) \/ Leaves
    <3>1. CASE SyncUpdateBalance(r)
      <4>1. PICK out \in UpdateOutcomes :
              /\ AtomicBalanceUpdate(cancelled[r], Account(r), body[r].type, body[r].amount, out)
              /\ Count(DirectId(r), IF Applied(out) THEN 1 ELSE 0)
        BY <3>1 DEF SyncUpdateBalance
      <4>. QED BY <1>1, <4>1, UpdateServes DEF Applies
    <3>2. CASE SyncRollback(r)
      <4>1. PICK out \in UpdateOutcomes :
              /\ AtomicBalanceUpdate(cancelled[r], Account(r), Opposite(body[r].type),
                                     body[r].amount, out)
              /\ Count(DirectId(r), IF Applied(out) THEN -1 ELSE 0)
        BY <3>2 DEF SyncRollback
      <4>. QED BY <1>1, <4>1, UpdateServes DEF Reverses
    <3>. QED BY <1>2, <3>1, <3>2
  <2>. QED
    BY <1>1, <1>2, <2>1 DEF SyncUpdateBalance, SyncRollback, requestVars, Serves, TypeOK
<1>3. CASE ~(SyncUpdateBalance(r) \/ SyncRollback(r))
  <2>1. UNCHANGED <<opened, balance, body, effect>>
    BY <1>3 DEF Handle, ReceiveTransaction, ValidateAccount, GetAccountByID, CreatePending,
                PublishPending, MarkUnqueued, SyncRecord, accountVars, requestVars, ghostVars
  <2>2. \A s \in Requests \ {r} : reply'[s] = reply[s]
    BY <1>1, <1>3
    DEF Handle, ReceiveTransaction, ValidateAccount, CreatePending, PublishPending,
        MarkUnqueued, SyncRecord, TypeOK
  <2>3. \A s \in Requests \ {r} : log'[QueuedId(s)] = log[QueuedId(s)]
    <3>1. CASE UNCHANGED log
      BY <3>1
    <3>2. CASE CreatePending(r) \/ MarkUnqueued(r) \/ SyncRecord(r)
      BY <1>1, <3>2, Ids
      DEF CreatePending, MarkUnqueued, SyncRecord, CreateTransaction,
          UpdateTransactionStatusWithError, Write, TypeOK, LogTypeOK
    <3>. QED
      BY <1>3, <3>1, <3>2 DEF Handle, ReceiveTransaction, ValidateAccount, PublishPending
  <2>. QED BY <1>1, <2>1, <2>2, <2>3, QuietStanding DEF Serves, Leaves
<1>. QED BY <1>2, <1>3

LEMMA WorkerServes ==
  ASSUME ServiceInvariant, NEW w \in Workers, Work(w)
  PROVE  \/ Idles
         \/ wphase[w] # "idle" /\ reply[job[w]] = "accepted" /\ Serves(job[w])
<1>. USE DEF WGoto, WReturn, WFail
<1>1. TypeOK /\ Sound
  BY DEF ServiceInvariant, Sound
<1>2. UNCHANGED <<body, reply>>
  BY DEF Work, TakeDelivery, LoadPending, AsyncUpdateBalance, AsyncComplete, AsyncRollback,
         AsyncMarkFailed, AckDelivery, NackDelivery, handlerVars, requestVars
<1>3. ASSUME wphase[w] # "idle"
      PROVE  job[w] \in Requests /\ reply[job[w]] = "accepted"
  BY <1>1, <1>3, BusyWorker DEF ServiceInvariant, OneWayOut, InHand
<1>4. CASE AsyncUpdateBalance(w) \/ AsyncRollback(w)
  <2>1. wphase[w] # "idle"
    BY <1>4 DEF AsyncUpdateBalance, AsyncRollback
  <2>2. Applies(job[w]) \/ Reverses(job[w]) \/ Leaves
    <3>1. CASE AsyncUpdateBalance(w)
      <4>1. PICK out \in UpdateOutcomes :
              /\ AtomicBalanceUpdate(FALSE, Account(job[w]), body[job[w]].type,
                                     body[job[w]].amount, out)
              /\ Count(QueuedId(job[w]), IF Applied(out) THEN 1 ELSE 0)
        BY <3>1 DEF AsyncUpdateBalance
      <4>. QED BY <1>1, <1>3, <2>1, <4>1, UpdateServes DEF Applies
    <3>2. CASE AsyncRollback(w)
      <4>1. PICK out \in UpdateOutcomes :
              /\ AtomicBalanceUpdate(FALSE, Account(job[w]), Opposite(body[job[w]].type),
                                     body[job[w]].amount, out)
              /\ Count(QueuedId(job[w]), IF Applied(out) THEN -1 ELSE 0)
        BY <3>2 DEF AsyncRollback
      <4>. QED BY <1>1, <1>3, <2>1, <4>1, UpdateServes DEF Reverses
    <3>. QED BY <1>4, <3>1, <3>2
  <2>3. UNCHANGED log
    BY <1>4 DEF AsyncUpdateBalance, AsyncRollback
  <2>. QED BY <1>2, <1>3, <2>1, <2>2, <2>3 DEF Serves
<1>5. CASE AsyncComplete(w) \/ AsyncMarkFailed(w)
  <2>1. wphase[w] # "idle" /\ UNCHANGED <<opened, balance, effect>>
    BY <1>5 DEF AsyncComplete, AsyncMarkFailed, accountVars, ghostVars
  <2>2. \A s \in Requests \ {job[w]} : log'[QueuedId(s)] = log[QueuedId(s)]
    BY <1>1, <1>3, <1>5, <2>1, Ids
    DEF AsyncComplete, AsyncMarkFailed, UpdateTransaction, UpdateTransactionStatusWithError,
        Write, TypeOK, LogTypeOK
  <2>. QED BY <1>2, <1>3, <2>1, <2>2, QuietStanding DEF Serves, Leaves
<1>6. CASE TakeDelivery(w) \/ LoadPending(w) \/ AckDelivery(w) \/ NackDelivery(w)
  BY <1>2, <1>6
  DEF TakeDelivery, LoadPending, GetTransactionByID, AckDelivery, NackDelivery, accountVars,
      ghostVars, Idles
<1>. QED BY <1>4, <1>5, <1>6 DEF Work

(* What is left of Next: new accounts, and steps that concern no request.  *)
LEMMA EnvironmentIdles ==
  ASSUME \/ \E i \in Instances : Start(i) \/ LinkLoss(i) \/ ChannelLoss(i) \/ Crash(i)
         \/ \E r \in Requests : Disconnect(r) \/ Expire(r)
         \/ Rest \/ UNCHANGED vars
  PROVE  Idles
BY DEF Start, LinkLoss, ChannelLoss, Crash, Disconnect, Expire, Rest, vars, accountVars,
       requestVars, handlerVars, ghostVars, Idles

-----------------------------------------------------------------------------
(* The books, under every fault                                            *)

(* What each document has added to its account's balance.                  *)
Weights == [d \in TxnIds |-> effect[d] * SignedAmount(d)]

(* The documents that count are finitely many, and explain the balance.    *)
Balanced(a) ==
  \E T \in SUBSET DocsOf(a) :
    /\ IsFiniteSet(T)
    /\ \A d \in DocsOf(a) \ T : effect[d] = 0
    /\ balance[a] = opening[a] + SumFunctionOnSet(Weights, T)

Booked(a) ==
  /\ Balanced(a)
  /\ opening[a] \in 0 .. MaxBalance
  /\ ~opened[a] => /\ balance[a] = 0 /\ opening[a] = 0
                   /\ \A d \in DocsOf(a) : effect[d] = 0

Books == /\ \A a \in Accounts : Booked(a)
         /\ \A d \in TxnIds : effect[d] # 0 => ValidRequest(body[d[1]])

LEMMA WeightType ==
  ASSUME TypeOK, NEW d \in TxnIds
  PROVE  /\ SignedAmount(d) \in Int /\ effect[d] \in Int
         /\ Weights[d] = effect[d] * SignedAmount(d) /\ Weights[d] \in Int
<1>1. body[d[1]].amount \in Int
  BY BodiesAssumption DEF TypeOK, TxnIds
<1>2. SignedAmount(d) \in Int /\ effect[d] \in Int
  BY <1>1 DEF SignedAmount, Signed, TypeOK
<1>3. \A m, n \in Int : m * n \in Int
  OBVIOUS
<1>. QED BY <1>2, <1>3 DEF Weights

LEMMA InitBooks == Init => Books
<1>. SUFFICES ASSUME Init, NEW a \in Accounts PROVE Balanced(a)
  BY LimitAssumption DEF Init, AccountsInit, Books, Booked, DocsOf
<1>1. \A d \in DocsOf(a) \ {} : effect[d] = 0
  BY DEF Init, DocsOf
<1>2. balance[a] = opening[a] + SumFunctionOnSet(Weights, {})
  BY SumOfNone DEF Init, AccountsInit
<1>. QED BY <1>1, <1>2, FS_EmptySet DEF Balanced

LEMMA QuietBooks ==
  ASSUME Books, UNCHANGED <<opened, balance, opening, effect, body>>
  PROVE  Books'
BY DEF Books, Booked, Balanced, DocsOf, Weights, SignedAmount

(* One update, with its count.                                             *)
LEMMA UpdateBooks ==
  ASSUME TypeOK, TypeOK', Books, NEW r \in Requests, ValidRequest(body[r]),
         NEW d \in {QueuedId(r), DirectId(r)}, NEW n \in {-1, 1},
         NEW done, NEW type, NEW out \in UpdateOutcomes,
         type = (IF n = 1 THEN body[r].type ELSE Opposite(body[r].type)),
         AtomicBalanceUpdate(done, Account(r), type, body[r].amount, out),
         Count(d, IF Applied(out) THEN n ELSE 0),
         UNCHANGED <<opening, body>>
  PROVE  Books'
<1>1. d \in TxnIds /\ d[1] = r
  BY DEF QueuedId, DirectId, TxnIds
<1>. PICK own \in Accounts : own = Account(r)
  BY ValidUpdate
<1>2. d \in DocsOf(own)
  BY <1>1 DEF DocsOf, Account
<1>3. CASE ~Applied(out)
  <2>1. UNCHANGED <<opened, balance>>
    BY <1>3 DEF AtomicBalanceUpdate, Applied, UpdateOutcomes, accountVars
  <2>2. effect' = effect
    <3>1. effect[d] + 0 = effect[d]
      BY <1>1 DEF TypeOK
    <3>. QED BY <1>1, <1>3, <3>1 DEF Count, TypeOK
  <2>. QED BY <2>1, <2>2, QuietBooks
<1>4. CASE Applied(out)
  <2>. DEFINE m == SignedAmount(d)
  <2>1. /\ opened[own] /\ UNCHANGED opened
        /\ balance' = [balance EXCEPT ![own] = After(@, type, body[r].amount)]
    BY <1>4 DEF AtomicBalanceUpdate, Applied, Refuses
  <2>2. balance'[own] = balance[own] + n * m /\ m \in Int /\ balance[own] \in Int
    <3>1. body[r].type \in Types /\ body[r].amount \in Int /\ balance[own] \in Int
      BY <1>1, ValidUpdate DEF TypeOK, AccountsTypeOK
    <3>2. m = Signed(body[r].type, body[r].amount)
      BY <1>1 DEF SignedAmount
    <3>3. balance'[own] = balance[own] + Signed(type, body[r].amount)
      BY <1>1, <2>1 DEF After, TypeOK, AccountsTypeOK
    <3>4. m \in Int /\ Signed(type, body[r].amount) = n * m
      BY <3>1, <3>2 DEF Signed, Opposite, Types
    <3>. QED BY <3>1, <3>3, <3>4
  <2>3. effect'[d] = effect[d] + n /\ \A e \in TxnIds \ {d} : effect'[e] = effect[e]
    BY <1>1, <1>4, CountStep
  <2>4. Weights'[d] = Weights[d] + n * m /\ \A e \in TxnIds \ {d} : Weights'[e] = Weights[e]
    <3>1. \A e \in TxnIds : /\ Weights[e] = effect[e] * SignedAmount(e)
                             /\ Weights'[e] = effect'[e] * SignedAmount(e)
      BY DEF Weights, SignedAmount
    <3>2. effect[d] \in Int
      BY <1>1 DEF TypeOK
    <3>3. (effect[d] + n) * m = effect[d] * m + n * m
      BY <2>2, <3>2
    <3>. QED BY <1>1, <2>3, <3>1, <3>3
  <2>5. \A e \in TxnIds : Weights[e] \in Int /\ Weights'[e] \in Int
    <3>1. \A e \in TxnIds : Weights[e] \in Int
      BY WeightType
    <3>2. \A e \in TxnIds : Weights'[e] \in Int
      BY <1>1, <2>2, <2>4, <3>1
    <3>. QED BY <3>1, <3>2
  <2>6. Balanced(own)'
    <3>1. PICK T \in SUBSET DocsOf(own) :
            /\ IsFiniteSet(T)
            /\ \A e \in DocsOf(own) \ T : effect[e] = 0
            /\ balance[own] = opening[own] + SumFunctionOnSet(Weights, T)
      BY DEF Books, Booked, Balanced
    <3>. DEFINE U == T \cup {d}
    <3>2. U \in SUBSET DocsOf(own) /\ IsFiniteSet(U) /\ d \in U /\ U \subseteq TxnIds /\ T \subseteq U
      BY <1>1, <1>2, <3>1, FS_AddElement DEF DocsOf
    <3>3. SumFunctionOnSet(Weights, T) = SumFunctionOnSet(Weights, U)
      <4>1. \A e \in U \ T : Weights[e] = 0
        <5>1. \A e \in U \ T : e = d /\ effect[e] = 0
          BY <1>2, <3>1
        <5>. QED BY <1>1, <5>1, WeightType
      <4>. HIDE DEF U
      <4>. QED BY <2>5, <3>2, <4>1, SumOfSupport
    <3>4. SumFunctionOnSet(Weights', U) = SumFunctionOnSet(Weights, U) - Weights[d] + Weights'[d]
      <4>. HIDE DEF U
      <4>. QED BY <2>4, <2>5, <3>2, SumChange
    <3>5. SumFunctionOnSet(Weights, U) \in Int
      <4>. HIDE DEF U
      <4>. QED BY <2>5, <3>2, SumType
    <3>6. balance'[own] = opening'[own] + SumFunctionOnSet(Weights', U)
      <4>1. opening[own] \in Int /\ Weights[d] \in Int /\ n * m \in Int
        BY <1>1, <2>2, <2>5 DEF TypeOK
      <4>. HIDE DEF m, U
      <4>. QED BY <2>2, <2>4, <3>1, <3>3, <3>4, <3>5, <4>1
    <3>7. U \in SUBSET DocsOf(own)' /\ \A e \in DocsOf(own)' \ U : effect'[e] = 0
      BY <1>1, <2>3, <3>1, <3>2 DEF DocsOf
    <3>. QED BY <3>2, <3>6, <3>7 DEF Balanced
  <2>7. ASSUME NEW a \in Accounts, a # own PROVE Balanced(a)'
    <3>1. PICK T \in SUBSET DocsOf(a) :
            /\ IsFiniteSet(T)
            /\ \A e \in DocsOf(a) \ T : effect[e] = 0
            /\ balance[a] = opening[a] + SumFunctionOnSet(Weights, T)
      BY DEF Books, Booked, Balanced
    <3>2. DocsOf(a)' = DocsOf(a) /\ d \notin DocsOf(a) /\ DocsOf(a) \subseteq TxnIds
      BY <1>1, <2>7 DEF DocsOf, Account
    <3>3. SumFunctionOnSet(Weights, T) = SumFunctionOnSet(Weights', T)
      BY <2>4, <2>5, <3>1, <3>2, SumOfSupport
    <3>4. balance'[a] = balance[a]
      BY <2>1, <2>7 DEF TypeOK, AccountsTypeOK
    <3>5. \A e \in DocsOf(a)' \ T : effect'[e] = 0
      BY <2>3, <3>1, <3>2
    <3>6. balance'[a] = opening'[a] + SumFunctionOnSet(Weights', T)
      BY <3>1, <3>3, <3>4
    <3>. QED BY <3>1, <3>2, <3>5, <3>6 DEF Balanced
  <2>8. ASSUME NEW a \in Accounts, ~opened'[a]
        PROVE  balance'[a] = 0 /\ opening'[a] = 0 /\ \A e \in DocsOf(a)' : effect'[e] = 0
    <3>1. a # own /\ ~opened[a]
      BY <2>1, <2>8
    <3>2. balance'[a] = balance[a] /\ d \notin DocsOf(a) /\ DocsOf(a)' = DocsOf(a)
      BY <1>1, <2>1, <3>1 DEF TypeOK, AccountsTypeOK, DocsOf, Account
    <3>. QED BY <2>3, <3>1, <3>2 DEF Books, Booked, DocsOf
  <2>9. \A a \in Accounts : opening'[a] \in 0 .. MaxBalance
    BY DEF Books, Booked
  <2>10. \A e \in TxnIds : effect'[e] # 0 => ValidRequest(body'[e[1]])
    BY <1>1, <2>3 DEF Books
  <2>. QED BY <2>6, <2>7, <2>8, <2>9, <2>10 DEF Books, Booked
<1>. QED BY <1>3, <1>4

LEMMA EnvironmentBooks ==
  ASSUME Books,
         \/ \E i \in Instances : Start(i) \/ LinkLoss(i) \/ ChannelLoss(i) \/ Crash(i)
         \/ \E r \in Requests : Disconnect(r) \/ Expire(r)
         \/ Rest \/ UNCHANGED vars
  PROVE  Books'
<1>1. UNCHANGED <<opened, balance, opening, effect, body>>
  BY DEF Start, LinkLoss, ChannelLoss, Crash, Disconnect, Expire, Rest, vars, accountVars,
         requestVars, ghostVars
<1>. QED BY <1>1, QuietBooks

LEMMA StepBooks == ServiceInvariant /\ Books /\ [Next]_vars => Books'
<1>. SUFFICES ASSUME ServiceInvariant, Books, [Next]_vars PROVE Books'
  OBVIOUS
<1>1. TypeOK /\ TypeOK' /\ Sound
  BY StepService DEF ServiceInvariant, Sound
<1>2. ASSUME UNCHANGED <<opened, balance, opening, effect, body>> PROVE Books'
  BY <1>2, QuietBooks
<1>3. ASSUME NEW r \in Requests, Handle(r) PROVE Books'
  <2>1. CASE SyncUpdateBalance(r) \/ SyncRollback(r)
    <3>1. ValidRequest(body[r]) /\ UNCHANGED <<opening, body>>
      BY <1>1, <2>1 DEF SyncUpdateBalance, SyncRollback, requestVars, Sound, WorkIsValid, Finished
    <3>2. CASE SyncUpdateBalance(r)
      <4>1. PICK out \in UpdateOutcomes :
              /\ AtomicBalanceUpdate(cancelled[r], Account(r), body[r].type, body[r].amount, out)
              /\ Count(DirectId(r), IF Applied(out) THEN 1 ELSE 0)
        BY <3>2 DEF SyncUpdateBalance
      <4>. QED BY <1>1, <3>1, <4>1, UpdateBooks
    <3>3. CASE SyncRollback(r)
      <4>1. PICK out \in UpdateOutcomes :
              /\ AtomicBalanceUpdate(cancelled[r], Account(r), Opposite(body[r].type),
                                     body[r].amount, out)
              /\ Count(DirectId(r), IF Applied(out) THEN -1 ELSE 0)
        BY <3>3 DEF SyncRollback
      <4>. QED BY <1>1, <3>1, <4>1, UpdateBooks
    <3>. QED BY <2>1, <3>2, <3>3
  <2>. QED
    BY <1>2, <1>3, <2>1
    DEF Handle, ReceiveTransaction, ValidateAccount, GetAccountByID, CreatePending, PublishPending,
        MarkUnqueued, SyncRecord, accountVars, requestVars, ghostVars
<1>4. ASSUME NEW w \in Workers, Work(w) PROVE Books'
  <2>1. CASE AsyncUpdateBalance(w) \/ AsyncRollback(w)
    <3>1. PICK r \in Requests :
            r = job[w] /\ ValidRequest(body[r]) /\ UNCHANGED <<opening, body>>
      BY <1>1, <2>1, BusyWorker DEF AsyncUpdateBalance, AsyncRollback, requestVars
    <3>2. CASE AsyncUpdateBalance(w)
      <4>1. PICK out \in UpdateOutcomes :
              /\ AtomicBalanceUpdate(FALSE, Account(r), body[r].type, body[r].amount, out)
              /\ Count(QueuedId(r), IF Applied(out) THEN 1 ELSE 0)
        BY <3>1, <3>2 DEF AsyncUpdateBalance
      <4>. QED BY <1>1, <3>1, <4>1, UpdateBooks
    <3>3. CASE AsyncRollback(w)
      <4>1. PICK out \in UpdateOutcomes :
              /\ AtomicBalanceUpdate(FALSE, Account(r), Opposite(body[r].type),
                                     body[r].amount, out)
              /\ Count(QueuedId(r), IF Applied(out) THEN -1 ELSE 0)
        BY <3>1, <3>3 DEF AsyncRollback
      <4>2. -1 \in {-1, 1} /\ QueuedId(r) \in {QueuedId(r), DirectId(r)} /\ -1 # 1
        OBVIOUS
      <4>. QED BY <1>1, <3>1, <4>1, <4>2, UpdateBooks
    <3>. QED BY <2>1, <3>2, <3>3
  <2>. QED
    BY <1>2, <1>4, <2>1
    DEF Work, TakeDelivery, LoadPending, AsyncComplete, AsyncMarkFailed, AckDelivery, NackDelivery,
        accountVars, requestVars, ghostVars
<1>5. ASSUME NEW a \in Accounts, NEW n \in OpeningBalances, OpenAccount(a, n) PROVE Books'
  <2>1. /\ ~opened[a] /\ opened' = [opened EXCEPT ![a] = TRUE]
        /\ balance' = [balance EXCEPT ![a] = n] /\ opening' = [opening EXCEPT ![a] = n]
        /\ UNCHANGED <<effect, body>> /\ n \in 0 .. MaxBalance /\ n \in Int
    BY <1>5, OpeningAssumption, LimitAssumption DEF OpenAccount, CreateAccount, requestVars
  <2>2. ASSUME NEW b \in Accounts PROVE Balanced(b)'
    <3>1. PICK T \in SUBSET DocsOf(b) :
            /\ IsFiniteSet(T)
            /\ \A e \in DocsOf(b) \ T : effect[e] = 0
            /\ balance[b] = opening[b] + SumFunctionOnSet(Weights, T)
      BY DEF Books, Booked, Balanced
    <3>2. SumFunctionOnSet(Weights, T) \in Int
      BY <1>1, <3>1, WeightType, SumType DEF DocsOf
    <3>3. balance'[b] = opening'[b] + SumFunctionOnSet(Weights, T)
      BY <1>1, <2>1, <3>1, <3>2 DEF Books, Booked, TypeOK, AccountsTypeOK
    <3>4. Weights' = Weights /\ DocsOf(b)' = DocsOf(b) /\ UNCHANGED effect
      BY <2>1 DEF Weights, SignedAmount, DocsOf
    <3>. QED BY <3>1, <3>3, <3>4 DEF Balanced
  <2>3. ASSUME NEW b \in Accounts
        PROVE  /\ opening'[b] \in 0 .. MaxBalance
               /\ ~opened'[b] => /\ balance'[b] = 0 /\ opening'[b] = 0
                                 /\ \A d \in DocsOf(b)' : effect'[d] = 0
    BY <1>1, <2>1 DEF Books, Booked, DocsOf, TypeOK, AccountsTypeOK
  <2>. QED BY <2>1, <2>2, <2>3 DEF Books, Booked
<1>. QED
  BY <1>2, <1>3, <1>4, <1>5, EnvironmentBooks DEF Next

(* The documents of an account that stand in its balance, and the balance  *)
(* they and the opening one add up to.                                     *)
Counting(a) == {d \in DocsOf(a) : effect[d] # 0}

BooksBalance ==
  \A a \in Accounts : balance[a] = opening[a] + SumFunctionOnSet(Weights, Counting(a))

LEMMA BooksMean ==
  ASSUME TypeOK, Books
  PROVE  BooksBalance /\ \A a \in Accounts : IsFiniteSet(Counting(a))
<1>. SUFFICES ASSUME NEW a \in Accounts
              PROVE  /\ balance[a] = opening[a] + SumFunctionOnSet(Weights, Counting(a))
                     /\ IsFiniteSet(Counting(a))
  BY DEF BooksBalance
<1>1. PICK T \in SUBSET DocsOf(a) :
        /\ IsFiniteSet(T)
        /\ \A e \in DocsOf(a) \ T : effect[e] = 0
        /\ balance[a] = opening[a] + SumFunctionOnSet(Weights, T)
  BY DEF Books, Booked, Balanced
<1>2. Counting(a) \subseteq T /\ \A d \in T \ Counting(a) : d \in TxnIds /\ effect[d] = 0
  BY <1>1 DEF Counting, DocsOf
<1>3. \A d \in T : Weights[d] \in Int
  BY WeightType DEF DocsOf
<1>4. \A d \in T \ Counting(a) : Weights[d] = 0
  BY <1>2, WeightType
<1>5. SumFunctionOnSet(Weights, T) = SumFunctionOnSet(Weights, Counting(a))
  BY <1>1, <1>2, <1>3, <1>4, SumOfSupport
<1>. QED BY <1>1, <1>2, <1>5, FS_Subset

LEMMA BooksHold == Spec => []Books
BY InitBooks, StepBooks, ServiceInvariantHolds, PTL DEF Spec

(* Whatever strikes, the balance of an account is what it was opened with  *)
(* and what its documents' updates, each as often as it was applied and    *)
(* not reversed, add to it: no cent comes or goes any other way.           *)
THEOREM EveryCentIsAccountedFor == Spec => []BooksBalance
BY BooksMean, BooksHold, TypesHold, PTL

-----------------------------------------------------------------------------
(* The contract of the answers                                             *)

LEMMA InitAnswers == Init => Answers!Init
<1>. SUFFICES ASSUME Init PROVE Answers!Init
  OBVIOUS
<1>1. \A r \in Requests : effect[DirectId(r)] + effect[QueuedId(r)] = 0
  BY Ids DEF Init
<1>. QED BY <1>1 DEF Init, AccountsInit, Answers!Init, Standing

LEMMA OpenAnswers ==
  ASSUME NEW a \in Accounts, NEW n \in OpeningBalances, OpenAccount(a, n)
  PROVE  Answers!Next
BY QuietStanding, OpeningAssumption
DEF OpenAccount, CreateAccount, requestVars, handlerVars, Answers!Next, Answers!OpenAccount

(* A served request fits the contract if its 200 is true.                  *)
LEMMA ServeAnswers ==
  ASSUME TypeOK, TypeOK', NEW r \in Requests, Serves(r),
         reply'[r] = "ok" => Standing'[r] = 1
  PROVE  Answers!Next \/ UNCHANGED Answers!vars
<1>. DEFINE o == reply'[r]
<1>1. o \in Answers!Outcomes /\ (o = reply[r] \/ Answers!Follows(reply[r], o))
  BY DEF Serves, TypeOK, Replies, Answers!Outcomes, Answers!Follows
<1>2. reply' = [reply EXCEPT ![r] = o]
  BY DEF Serves, TypeOK
<1>3. Answers!Conclude(r, o)
  BY <1>1, <1>2 DEF Serves, Answers!Conclude
<1>4. CASE Applies(r)
  <2>1. Answers!Apply(r, o)
    BY <1>3, <1>4
    DEF Applies, Moved, Recounted, Answers!Apply, Answers!Move, Answers!ShortOf, ShortOf,
        Answers!TooLarge, TooLarge, Answers!After, After, Answers!Signed, Signed
  <2>. QED BY <1>1, <2>1 DEF Answers!Next
<1>5. CASE Reverses(r)
  <2>1. Answers!Reverse(r, o)
    BY <1>3, <1>5
    DEF Reverses, Moved, Recounted, Answers!Reverse, Answers!Move, Answers!ShortOf, ShortOf,
        Answers!TooLarge, TooLarge, Answers!After, After, Answers!Signed, Signed,
        Answers!Opposite, Opposite
  <2>. QED BY <1>1, <2>1 DEF Answers!Next
<1>6. CASE Leaves
  <2>1. Answers!Settle(r, o)
    BY <1>3, <1>6 DEF Leaves, Answers!Settle
  <2>. QED BY <1>1, <2>1 DEF Answers!Next
<1>. QED BY <1>4, <1>5, <1>6 DEF Serves

(* A handler answers 200 from "record", and there the update stands once.  *)
LEMMA OkIsOnce ==
  ASSUME ServiceInvariant, ServiceInvariant', NEW r \in Requests, reply'[r] = "ok"
  PROVE  Standing'[r] = 1
<1>1. effect'[DirectId(r)] = 1 /\ effect'[QueuedId(r)] = 0
  BY Ids DEF ServiceInvariant, DirectFollowsPhase, OneWayOut, TypeOK
<1>. QED BY <1>1 DEF Standing

LEMMA StepAnswers ==
  ServiceInvariant /\ ServiceInvariant' /\ [Next]_vars
    => [Answers!Next]_(Answers!vars)
<1>. SUFFICES ASSUME ServiceInvariant, ServiceInvariant', [Next]_vars
              PROVE  Answers!Next \/ UNCHANGED Answers!vars
  OBVIOUS
<1>1. TypeOK /\ TypeOK' /\ Sound
  BY DEF ServiceInvariant, Sound
<1>2. ASSUME NEW r \in Requests, Serves(r)
      PROVE  Answers!Next \/ UNCHANGED Answers!vars
  BY <1>1, <1>2, ServeAnswers, OkIsOnce
<1>3. CASE Idles
  BY <1>3, QuietStanding DEF Idles, Answers!vars
<1>4. ASSUME NEW w \in Workers, Work(w)
      PROVE  Answers!Next \/ UNCHANGED Answers!vars
  BY <1>1, <1>2, <1>3, <1>4, WorkerServes, BusyWorker
<1>. QED
  BY <1>2, <1>3, <1>4, HandlerServes, EnvironmentIdles, OpenAnswers DEF Next

(* Whatever fails, balances change only by what a request asked for, for a *)
(* request that is not finished, and 200 is said of what stands once.      *)
THEOREM ServiceKeepsAnswers == Spec => AnswersAreKept
<1>1. Init /\ []ServiceInvariant /\ [][Next]_vars => Answers!Spec
  BY InitAnswers, StepAnswers, PTL DEF Answers!Spec
<1>. QED BY <1>1, ServiceInvariantHolds, PTL DEF Spec, AnswersAreKept

-----------------------------------------------------------------------------
(* Accepted requests are not forgotten, if the broker loses nothing        *)

(* No message is lost or expires, and MongoDB refuses no write.            *)
NothingLost == Faults \cap {"mongo", "lost", "expire"} = {}

(* A delivery belongs to a worker that has it in hand; one about to be     *)
(* acknowledged is decided; a published request has a document.            *)
Traced ==
  /\ \A w \in Workers : /\ unacked[w] # NoMsg => unacked[w] = job[w]
                        /\ wphase[w] = "ack" => ~Pending(job[w])
  /\ \A r \in Requests : phase[r] = "publish" \/ reply[r] = "accepted" => Found(QueuedId(r))

(* A document marked as failed says so.                                    *)
LEMMA FailedStatus ==
  ASSUME LogTypeOK, NEW d \in TxnIds, NEW message
  PROVE  [log[d] EXCEPT !.status = "failed", !.error = message].status = "failed"
BY DEF LogTypeOK, Doc

LEMMA FailedWrite ==
  ASSUME LogTypeOK, NEW done \in BOOLEAN, NEW d \in TxnIds, NEW message, NEW out, NEW e \in TxnIds,
         UpdateTransactionStatusWithError(done, d, message, out)
  PROVE  log'[e] = log[e] \/ (e = d /\ Found(d) /\ log'[e].status = "failed")
<1>. DEFINE doc == [log[d] EXCEPT !.status = "failed", !.error = message]
<1>1. doc.status = "failed"
  BY FailedStatus
<1>2. log' = log \/ (Found(d) /\ log' = [log EXCEPT ![d] = doc])
  BY DEF UpdateTransactionStatusWithError, Write
<1>. HIDE DEF doc
<1>. QED BY <1>1, <1>2 DEF LogTypeOK

(* Once created, a pending document only ever becomes a decided one.       *)
LEMMA LogStep ==
  ASSUME ServiceInvariant, [Next]_vars, NEW r \in Requests, phase[r] # "create"
  PROVE  \/ log'[QueuedId(r)] = log[QueuedId(r)]
         \/ log'[QueuedId(r)].status \in {"completed", "failed"}
<1>1. TypeOK /\ Sound
  BY DEF ServiceInvariant, Sound
<1>2. ASSUME NEW s \in Requests, Handle(s)
      PROVE  \/ log'[QueuedId(r)] = log[QueuedId(r)]
             \/ log'[QueuedId(r)].status \in {"completed", "failed"}
  <2>1. CASE r # s
    BY <1>2, <2>1, HandlerServes DEF Serves
  <2>2. CASE r = s
    <3>1. CASE MarkUnqueued(r)
      BY <1>1, <3>1, Ids, FailedWrite DEF MarkUnqueued, TypeOK
    <3>2. CASE SyncRecord(r)
      BY <1>1, <3>2, Ids DEF SyncRecord, CreateTransaction, Write, TypeOK, LogTypeOK
    <3>. QED
      BY <1>2, <2>2, <3>1, <3>2
      DEF Handle, ReceiveTransaction, ValidateAccount, CreatePending, PublishPending,
          SyncUpdateBalance, SyncRollback
  <2>. QED BY <2>1, <2>2
<1>3. ASSUME NEW w \in Workers, Work(w)
      PROVE  \/ log'[QueuedId(r)] = log[QueuedId(r)]
             \/ log'[QueuedId(r)].status \in {"completed", "failed"}
  <2>1. CASE AsyncComplete(w) \/ AsyncMarkFailed(w)
    <3>1. job[w] \in Requests
      BY <1>1, <2>1, BusyWorker DEF AsyncComplete, AsyncMarkFailed
    <3>2. \E out \in WriteOutcomes :
            \/ UpdateTransaction(FALSE, QueuedId(job[w]), wlocal[w].prev, wlocal[w].new, out)
            \/ UpdateTransactionStatusWithError(FALSE, QueuedId(job[w]), reason[w], out)
      BY <2>1 DEF AsyncComplete, AsyncMarkFailed
    <3>3. LogTypeOK /\ QueuedId(r) \in TxnIds /\ QueuedId(job[w]) \in TxnIds
      BY <1>1, <3>1, Ids DEF TypeOK
    <3>4. ASSUME NEW out \in WriteOutcomes,
                 UpdateTransaction(FALSE, QueuedId(job[w]), wlocal[w].prev, wlocal[w].new, out)
          PROVE  \/ log'[QueuedId(r)] = log[QueuedId(r)]
                 \/ log'[QueuedId(r)].status = "completed"
      BY <3>3, <3>4 DEF UpdateTransaction, Write, LogTypeOK
    <3>5. ASSUME NEW out \in WriteOutcomes,
                 UpdateTransactionStatusWithError(FALSE, QueuedId(job[w]), reason[w], out)
          PROVE  \/ log'[QueuedId(r)] = log[QueuedId(r)]
                 \/ log'[QueuedId(r)].status = "failed"
      <4>. DEFINE doc == [log[QueuedId(job[w])] EXCEPT !.status = "failed", !.error = reason[w]]
      <4>1. doc.status = "failed"
        BY <3>3, FailedStatus
      <4>2. log' = log \/ log' = [log EXCEPT ![QueuedId(job[w])] = doc]
        BY <3>5 DEF UpdateTransactionStatusWithError, Write
      <4>. HIDE DEF doc
      <4>. QED BY <3>3, <4>1, <4>2 DEF LogTypeOK
    <3>. QED BY <3>2, <3>4, <3>5
  <2>. QED
    BY <1>3, <2>1
    DEF Work, TakeDelivery, LoadPending, GetTransactionByID, AsyncUpdateBalance, AsyncRollback,
        AckDelivery, NackDelivery
<1>4. ASSUME NEW a \in Accounts, NEW n \in OpeningBalances, OpenAccount(a, n)
      PROVE  log'[QueuedId(r)] = log[QueuedId(r)]
  BY <1>4 DEF OpenAccount
<1>. QED BY <1>2, <1>3, <1>4, EnvironmentIdles DEF Next, Idles

(* So an accepted request has a document for good, and never turns back    *)
(* to pending.                                                             *)
LEMMA AcceptedStep ==
  ASSUME ServiceInvariant, [Next]_vars, NEW r \in Requests, reply[r] = "accepted"
  PROVE  /\ reply'[r] = "accepted"
         /\ log'[QueuedId(r)].status = "pending" => Pending(r)
         /\ Found(QueuedId(r)) => Found(QueuedId(r))'
<1>1. phase[r] = "done"
  BY DEF ServiceInvariant, OneWayOut
<1>2. reply'[r] = "accepted"
  <2>1. ASSUME NEW s \in Requests, Handle(s) PROVE reply'[r] = reply[r]
    BY <2>1, <1>1, HandlerServes, HandlerEffect DEF Serves, ServiceInvariant
  <2>2. ASSUME NEW w \in Workers, Work(w) PROVE reply'[r] = reply[r]
    BY <2>2, WorkerAside DEF Aside, ServiceInvariant, Sound
  <2>3. ASSUME NEW a \in Accounts, NEW n \in OpeningBalances, OpenAccount(a, n)
        PROVE  reply'[r] = reply[r]
    BY <2>3 DEF OpenAccount, handlerVars
  <2>. QED BY <2>1, <2>2, <2>3, EnvironmentIdles DEF Next, Idles
<1>. QED BY <1>1, <1>2, LogStep DEF Pending, Found

(* How the broker's and the workers' state changes while nothing is lost.  *)
LEMMA HandlerKeepsTrack ==
  ASSUME NothingLost, ServiceInvariant, Traced, AcceptedStaysTracked,
         NEW s \in Requests, Handle(s)
  PROVE  Traced' /\ AcceptedStaysTracked'
<1>. USE DEF Goto, Finish
<1>1. TypeOK /\ [Next]_vars
  BY DEF ServiceInvariant, Next
<1>2. UNCHANGED <<unacked, job, wphase>> /\ ready \subseteq ready'
  BY DEF Handle, ReceiveTransaction, ValidateAccount, CreatePending, PublishPending,
         PublishTransaction, MarkUnqueued, SyncUpdateBalance, SyncRecord, SyncRollback,
         queueVars, workerVars
<1>3. reply[s] = "none" /\ phase[s] \notin {"done", "dropped"}
  BY HandlerEffect DEF ServiceInvariant, OneWayOut
<1>4. \A r \in Requests \ {s} : phase'[r] = phase[r] /\ reply'[r] = reply[r]
  BY <1>1 DEF Handle, ReceiveTransaction, ValidateAccount, CreatePending, PublishPending,
         MarkUnqueued, SyncUpdateBalance, SyncRecord, SyncRollback, TypeOK
<1>5. phase'[s] = "publish" => Found(QueuedId(s))'
  <2>1. CASE CreatePending(s)
    BY <1>1, <2>1, Ids DEF CreatePending, CreateTransaction, Write, Found, TypeOK, LogTypeOK
  <2>2. CASE ~CreatePending(s)
    BY <1>1, <2>2
    DEF Handle, ReceiveTransaction, ValidateAccount, PublishPending,
        MarkUnqueued, SyncUpdateBalance, SyncRecord, SyncRollback, TypeOK
  <2>. QED BY <2>1, <2>2
<1>6. reply'[s] = "accepted" => PublishPending(s) /\ s \in ready' /\ Found(QueuedId(s))'
  <2>1. reply'[s] = "accepted" => PublishPending(s)
    BY <1>1, <1>3
    DEF Handle, ReceiveTransaction, ValidateAccount, CreatePending,
        MarkUnqueued, SyncUpdateBalance, SyncRecord, SyncRollback, TypeOK
  <2>2. ASSUME PublishPending(s), reply'[s] = "accepted" PROVE s \in ready'
    BY <2>2, <1>1, <1>3 DEF PublishPending, PublishTransaction, Strike, NothingLost, TypeOK
  <2>3. ASSUME PublishPending(s) PROVE Found(QueuedId(s))'
    BY <2>3 DEF PublishPending, Traced, Found
  <2>. QED BY <2>1, <2>2, <2>3
<1>7. ASSUME NEW w \in Workers, wphase[w] = "ack"
      PROVE  log'[QueuedId(job[w])].status # "pending"
  <2>1. job[w] \in Requests /\ reply[job[w]] = "accepted" /\ ~Pending(job[w])
    BY <1>7, BusyWorker DEF ServiceInvariant, Sound, OneWayOut, InHand, Traced
  <2>. QED BY <1>1, <2>1, AcceptedStep
<1>8. Traced'
  <2>1. \A w \in Workers : /\ unacked'[w] # NoMsg => unacked'[w] = job'[w]
                           /\ wphase'[w] = "ack" => log'[QueuedId(job'[w])].status # "pending"
    BY <1>2, <1>7 DEF Traced
  <2>2. ASSUME NEW r \in Requests, phase'[r] = "publish" \/ reply'[r] = "accepted"
        PROVE  Found(QueuedId(r))'
    <3>1. CASE r = s
      BY <2>2, <3>1, <1>5, <1>6
    <3>2. CASE r # s /\ phase[r] = "publish"
      BY <1>1, <3>2, LogStep DEF Traced, Found
    <3>3. CASE r # s /\ reply[r] = "accepted"
      BY <1>1, <3>3, AcceptedStep DEF Traced
    <3>. QED BY <2>2, <1>4, <3>1, <3>2, <3>3
  <2>. QED BY <2>1, <2>2 DEF Traced, Pending
<1>9. AcceptedStaysTracked'
  <2>. SUFFICES ASSUME NEW r \in Requests, reply'[r] = "accepted", Pending(r)'
                PROVE  Tracked(r)'
    BY DEF AcceptedStaysTracked
  <2>1. CASE r = s
    BY <2>1, <1>6 DEF Tracked
  <2>2. CASE r # s
    BY <2>2, <1>1, <1>2, <1>4, AcceptedStep DEF AcceptedStaysTracked, Tracked, Pending
  <2>. QED BY <2>1, <2>2
<1>. QED BY <1>8, <1>9

(* Deciding a document, where MongoDB refuses nothing.                     *)
LEMMA FailingDecides ==
  ASSUME NothingLost, TypeOK, NEW r \in Requests, Found(QueuedId(r)), NEW message,
         NEW out \in WriteOutcomes,
         UpdateTransactionStatusWithError(FALSE, QueuedId(r), message, out)
  PROVE  log'[QueuedId(r)].status = "failed"
<1>. DEFINE doc == [log[QueuedId(r)] EXCEPT !.status = "failed", !.error = message]
<1>1. doc.status = "failed"
  BY FailedStatus, Ids DEF TypeOK
<1>2. log' = [log EXCEPT ![QueuedId(r)] = doc]
  BY DEF UpdateTransactionStatusWithError, Write, Strike, NothingLost
<1>. HIDE DEF doc
<1>. QED BY <1>1, <1>2, Ids DEF TypeOK, LogTypeOK

LEMMA WorkerKeepsTrack ==
  ASSUME NothingLost, ServiceInvariant, Traced, AcceptedStaysTracked,
         NEW w \in Workers, Work(w)
  PROVE  Traced' /\ AcceptedStaysTracked'
<1>. USE DEF WGoto, WReturn, WFail
<1>1. TypeOK /\ Sound /\ [Next]_vars
  BY DEF ServiceInvariant, Sound, Next
<1>2. UNCHANGED <<phase, reply>>
  BY DEF Work, TakeDelivery, LoadPending, AsyncUpdateBalance, AsyncComplete, AsyncRollback,
         AsyncMarkFailed, AckDelivery, NackDelivery, handlerVars
<1>3. \A r \in Requests : reply[r] = "accepted" => Found(QueuedId(r))
                          /\ (log'[QueuedId(r)].status = "pending" => Pending(r) /\ Tracked(r))
  BY <1>1, AcceptedStep DEF Traced, AcceptedStaysTracked
<1>4. \A r \in Requests : phase'[r] = "publish" \/ reply'[r] = "accepted" => Found(QueuedId(r))'
  <2>1. ASSUME NEW r \in Requests, phase[r] = "publish" PROVE Found(QueuedId(r))'
    BY <1>1, <2>1, LogStep DEF Traced, Found
  <2>. QED BY <1>1, <1>2, <1>3, <2>1, AcceptedStep
<1>5. ASSUME NEW v \in Workers, wphase[v] # "idle"
      PROVE  job[v] \in Requests /\ reply[job[v]] = "accepted"
  BY <1>1, <1>5, BusyWorker DEF ServiceInvariant, OneWayOut, InHand
<1>6. \A v \in Workers : wphase[v] = "ack" => log'[QueuedId(job[v])].status # "pending"
  BY <1>3, <1>5 DEF Traced
<1>7. CASE TakeDelivery(w)
  <2>1. PICK x \in ready : Deliver(w, x) /\ job' = [job EXCEPT ![w] = x]
    BY <1>7 DEF TakeDelivery
  <2>2. x \in Requests /\ unacked[w] = NoMsg /\ NoMsg \notin Requests
    BY <1>1, <2>1, HostAssumption DEF Deliver, TypeOK, QueueTypeOK
  <2>3. /\ unacked' = [unacked EXCEPT ![w] = x] /\ ready' = ready \ {x}
        /\ wphase' = [wphase EXCEPT ![w] = "load"]
    BY <1>7, <2>1 DEF TakeDelivery, Deliver
  <2>4. \A v \in Workers : /\ unacked'[v] # NoMsg => unacked'[v] = job'[v]
                           /\ wphase'[v] = "ack" => log'[QueuedId(job'[v])].status # "pending"
    BY <1>1, <1>6, <2>1, <2>3 DEF Traced, TypeOK, QueueTypeOK
  <2>5. \A r \in Requests : Tracked(r) => Tracked(r)'
    BY <1>1, <2>1, <2>2, <2>3 DEF Tracked, TypeOK, QueueTypeOK
  <2>. QED BY <1>2, <1>3, <1>4, <2>4, <2>5 DEF Traced, AcceptedStaysTracked, Pending
<1>8. CASE \/ LoadPending(w) \/ AsyncUpdateBalance(w) \/ AsyncComplete(w)
           \/ AsyncRollback(w) \/ AsyncMarkFailed(w)
  <2>1. /\ UNCHANGED <<ready, unacked, job>> /\ wphase[w] # "idle"
        /\ \A v \in Workers : v # w => wphase'[v] = wphase[v]
    BY <1>1, <1>8
    DEF LoadPending, AsyncUpdateBalance, AsyncComplete, AsyncRollback, AsyncMarkFailed,
        queueVars, TypeOK
  <2>2. wphase'[w] = "ack" => log'[QueuedId(job[w])].status # "pending"
    <3>1. CASE LoadPending(w)
      BY <1>1, <3>1 DEF LoadPending, GetTransactionByID, Pending, TypeOK
    <3>2. CASE AsyncUpdateBalance(w) \/ AsyncRollback(w)
      BY <1>1, <3>2 DEF AsyncUpdateBalance, AsyncRollback, TypeOK
    <3>3. CASE AsyncComplete(w)
      BY <1>1, <1>5, <2>1, <3>3, Ids
      DEF AsyncComplete, AfterUpdate, UpdateTransaction, Write, TypeOK, LogTypeOK
    <3>4. CASE AsyncMarkFailed(w)
      <4>1. PICK out \in WriteOutcomes :
              UpdateTransactionStatusWithError(FALSE, QueuedId(job[w]), reason[w], out)
        BY <3>4 DEF AsyncMarkFailed
      <4>2. job[w] \in Requests /\ Found(QueuedId(job[w]))
        BY <1>3, <1>5, <2>1
      <4>. QED BY <1>1, <4>1, <4>2, FailingDecides
    <3>. QED BY <1>8, <3>1, <3>2, <3>3, <3>4
  <2>3. \A v \in Workers : /\ unacked'[v] # NoMsg => unacked'[v] = job'[v]
                           /\ wphase'[v] = "ack" => log'[QueuedId(job'[v])].status # "pending"
    BY <1>6, <2>1, <2>2 DEF Traced
  <2>4. \A r \in Requests : Tracked(r) => Tracked(r)'
    BY <2>1 DEF Tracked
  <2>. QED BY <1>2, <1>3, <1>4, <2>3, <2>4 DEF Traced, AcceptedStaysTracked, Pending
<1>9. CASE AckDelivery(w) \/ NackDelivery(w)
  <2>1. /\ UNCHANGED log
        /\ unacked' = [unacked EXCEPT ![w] = NoMsg] /\ job' = [job EXCEPT ![w] = NoMsg]
        /\ wphase' = [wphase EXCEPT ![w] = "idle"]
        /\ \/ wphase[w] = "ack" /\ ready' = ready
           \/ ready' = ready \cup ({unacked[w]} \ {NoMsg})
    BY <1>9 DEF AckDelivery, NackDelivery, Ack, Nack, WRest
  <2>2. \A v \in Workers : /\ unacked'[v] # NoMsg => unacked'[v] = job'[v]
                           /\ wphase'[v] = "ack" => log'[QueuedId(job'[v])].status # "pending"
    BY <1>1, <1>6, <2>1 DEF Traced, TypeOK, QueueTypeOK
  <2>3. \A r \in Requests : Pending(r) /\ Tracked(r) => Tracked(r)'
    BY <1>1, <2>1, HostAssumption DEF Tracked, Traced, TypeOK, QueueTypeOK
  <2>. QED BY <1>2, <1>3, <1>4, <2>2, <2>3 DEF Traced, AcceptedStaysTracked, Pending
<1>. QED BY <1>7, <1>8, <1>9 DEF Work

(* Whatever closes a channel, the broker gets the deliveries back.         *)
LEMMA EnvironmentKeepsTrack ==
  ASSUME NothingLost, ServiceInvariant, Traced, AcceptedStaysTracked,
         \/ \E a \in Accounts, n \in OpeningBalances : OpenAccount(a, n)
         \/ \E i \in Instances : Start(i) \/ LinkLoss(i) \/ ChannelLoss(i) \/ Crash(i)
         \/ \E r \in Requests : Disconnect(r) \/ Expire(r)
         \/ Rest \/ UNCHANGED vars
  PROVE  Traced' /\ AcceptedStaysTracked'
<1>1. TypeOK
  BY DEF ServiceInvariant
<1>2. UNCHANGED <<log, reply>>
  BY DEF OpenAccount, Start, LinkLoss, ChannelLoss, Crash, Disconnect, Expire, Rest, vars,
         handlerVars
<1>3. \A r \in Requests : phase'[r] = "publish" => phase[r] = "publish"
  BY <1>1 DEF OpenAccount, Start, LinkLoss, ChannelLoss, Crash, Disconnect, Expire, Rest, vars,
              handlerVars, TypeOK
<1>4. \/ UNCHANGED <<ready, unacked, job, wphase>>
      \/ \E i \in Instances :
           /\ ready' = ready \cup ({unacked[w] : w \in {v \in Workers : Host[v] = i}} \ {NoMsg})
           /\ \A w \in Workers :
                /\ unacked'[w] = IF Host[w] = i THEN NoMsg ELSE unacked[w]
                /\ \/ job'[w] = job[w] /\ wphase'[w] = wphase[w]
                   \/ Host[w] = i /\ wphase'[w] = "idle"
  <2>1. ASSUME NEW i \in Instances, LinkLoss(i) \/ ChannelLoss(i) \/ Crash(i)
        PROVE  /\ ready' = ready \cup ({unacked[w] : w \in {v \in Workers : Host[v] = i}} \ {NoMsg})
               /\ \A w \in Workers :
                    /\ unacked'[w] = IF Host[w] = i THEN NoMsg ELSE unacked[w]
                    /\ \/ job'[w] = job[w] /\ wphase'[w] = wphase[w]
                       \/ Host[w] = i /\ wphase'[w] = "idle"
    BY <2>1 DEF LinkLoss, ChannelLoss, Crash, Close, workerVars
  <2>2. CASE \A i \in Instances : ~(LinkLoss(i) \/ ChannelLoss(i) \/ Crash(i))
    BY <2>2 DEF OpenAccount, Start, Disconnect, Expire, Strike, NothingLost, Rest, vars,
                queueVars, workerVars
  <2>. QED BY <2>1, <2>2
<1>5. Traced'
  BY <1>1, <1>2, <1>3, <1>4 DEF Traced, TypeOK, QueueTypeOK, Found, Pending
<1>6. \A r \in Requests : Tracked(r) => Tracked(r)'
  BY <1>1, <1>4, HostAssumption DEF Tracked, TypeOK, QueueTypeOK
<1>. QED BY <1>2, <1>5, <1>6 DEF AcceptedStaysTracked, Pending

(* Two instances, crashes, closed channels, ambiguous answers: as long as  *)
(* the broker keeps what it took and MongoDB does not refuse the write     *)
(* that records a failure, an accepted request stays with the broker until *)
(* it is decided.                                                          *)
THEOREM AcceptedIsNeverForgotten ==
  ASSUME NothingLost
  PROVE  Spec => []AcceptedStaysTracked
<1>1. Init => Traced /\ AcceptedStaysTracked
  BY HostAssumption DEF Init, QueueInit, Traced, AcceptedStaysTracked
<1>2. ServiceInvariant /\ Traced /\ AcceptedStaysTracked /\ [Next]_vars
        => Traced' /\ AcceptedStaysTracked'
  BY HandlerKeepsTrack, WorkerKeepsTrack, EnvironmentKeepsTrack DEF Next
<1>. QED BY <1>1, <1>2, ServiceInvariantHolds, PTL DEF Spec

=============================================================================
