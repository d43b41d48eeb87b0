-------------------------- MODULE LedgerBooksProofs --------------------------
(***************************************************************************)
(* The ledger against the balances, for any number of requests, accounts   *)
(* and workers, under the hypotheses of LedgerDecisionsProofs: what the    *)
(* completed documents say adds up to the balance, and, where MongoDB      *)
(* refuses no write, leads to it one balance after the other.              *)
(***************************************************************************)
EXTENDS LedgerDecisionsProofs

-----------------------------------------------------------------------------
(* What counts is what is completed                                        *)

LEMMA CompletedCount ==
  ASSUME Settling, NEW a \in Accounts, Settled(a)
  PROVE  /\ Counting(a) = CompletedOf(a)
         /\ \A d \in Counting(a) : d \in TxnIds /\ effect[d] = 1
<1>. SUFFICES ASSUME NEW d \in DocsOf(a)
              PROVE  IF log[d].status = "completed" THEN effect[d] = 1 ELSE effect[d] = 0
  BY DEF Counting, CompletedOf, DocsOf
<1>1. PICK r \in Requests : d = QueuedId(r) \/ d = DirectId(r)
  BY DEF DocsOf, TxnIds, QueuedId, DirectId
<1>2. TypeOK /\ Told(r) /\ Account(r) = a
  BY <1>1 DEF Settling, ServiceInvariant, Truth, DocsOf, QueuedId, DirectId, Account
<1>3. ~Completing(r) /\ phase[r] \notin {"record", "rollback"}
  BY <1>2 DEF Settled, Completing
<1>4. log[d].status \in {"none", "pending", "completed", "failed"}
  BY <1>2 DEF TypeOK, LogTypeOK, Doc, Statuses, DocsOf
<1>5. CASE d = QueuedId(r)
  BY <1>2, <1>3, <1>4, <1>5 DEF Told
<1>6. CASE d = DirectId(r)
  <2>1. reply[r] = "ok" => effect[d] = 1
    BY <1>6 DEF Settling, ServiceInvariant, DirectFollowsPhase
  <2>. QED BY <1>2, <1>3, <1>6, <2>1 DEF Told
<1>. QED BY <1>1, <1>5, <1>6

LEMMA SettlingReconciles == Settling => LedgerReconciles
<1>. SUFFICES ASSUME Settling, NEW a \in Accounts, Settled(a)
              PROVE  balance[a] = opening[a] + SumFunctionOnSet(SignedAmounts, CompletedOf(a))
  BY DEF LedgerReconciles
<1>1. TypeOK /\ Books
  BY DEF Settling, ServiceInvariant
<1>2. /\ IsFiniteSet(Counting(a))
      /\ balance[a] = opening[a] + SumFunctionOnSet(Weights, Counting(a))
  BY <1>1, BooksMean DEF BooksBalance
<1>3. \A d \in Counting(a) : Weights[d] \in Int /\ SignedAmounts[d] = Weights[d]
  BY <1>1, CompletedCount, WeightType DEF SignedAmounts
<1>4. SumFunctionOnSet(Weights, Counting(a)) = SumFunctionOnSet(SignedAmounts, Counting(a))
  BY <1>2, <1>3, SumOfSupport
<1>. QED BY <1>2, <1>4, CompletedCount

(* While nobody stands between an update and its record, the balance is    *)
(* the opening balance plus the completed documents: connections that      *)
(* break, redeliveries, refused writes and their compensations leave       *)
(* nothing unrecorded and nothing recorded that was undone.                *)
THEOREM LedgerIsReconciled ==
  ASSUME SingleHost, Truthful, Reversible
  PROVE  Spec => []LedgerReconciles
BY SettlingReconciles, SettlingHolds, PTL

(* What the handler refused does not stand in the balance, although it may *)
(* have been applied and then taken back.                                  *)
THEOREM RefusalsHaveNoEffect ==
  ASSUME SingleHost, Truthful, Reversible
  PROVE  Spec => []RefusalHasNoEffect
<1>1. ASSUME Settling, NEW r \in Requests, reply[r] \in {"rejected", "error"}
      PROVE  effect[DirectId(r)] = 0 /\ effect[QueuedId(r)] = 0
  <2>1. TypeOK /\ phase[r] = "done" /\ effect[QueuedId(r)] = 0
    BY <1>1 DEF Settling, ServiceInvariant, OneWayOut
  <2>. QED BY <1>1, <2>1 DEF Settling, Truth, Told
<1>2. Settling => RefusalHasNoEffect
  BY <1>1 DEF RefusalHasNoEffect
<1>. QED BY <1>2, SettlingHolds, PTL

(* An accepted request that nobody will decide any more was not applied:   *)
(* its message is lost, expired or acknowledged without a record, and its  *)
(* document, pending for good, is right about the balance.                 *)
THEOREM ForgottenIsUnapplied ==
  ASSUME SingleHost, Truthful, Reversible
  PROVE  Spec => []ForgottenMeansUnapplied
<1>1. Settling => ForgottenMeansUnapplied
  BY DEF Settling, Truth, Told, Completing, ForgottenMeansUnapplied, Pending
<1>. QED BY <1>1, SettlingHolds, PTL

-----------------------------------------------------------------------------
(* The chain of balances                                                   *)

(* prev and new: what each document that counts did to its account.  The   *)
(* completed documents say it; of an update that is not recorded yet the   *)
(* handler or the worker knows it.                                         *)
Recorded(prev, new) ==
  /\ \A d \in TxnIds : log[d].status = "completed" => /\ prev[d] = log[d].prev
                                                      /\ new[d] = log[d].new
  /\ \A r \in Requests : phase[r] = "record" => /\ prev[DirectId(r)] = local[r].prev
                                                /\ new[DirectId(r)] = local[r].new
  /\ \A w \in Workers : wphase[w] = "complete" => /\ prev[QueuedId(job[w])] = wlocal[w].prev
                                                  /\ new[QueuedId(job[w])] = wlocal[w].new

One(u, v) == IF u = v THEN 1 ELSE 0

At(S, f, v) == Cardinality({d \in S : f[d] = v})

(* The updates of an account lead from its opening balance to its balance. *)
Linked(a, prev, new) ==
  /\ \A d \in Counting(a) : new[d] = prev[d] + SignedAmount(d)
  /\ \A v \in Int : One(v, opening[a]) + At(Counting(a), new, v)
                      = One(v, balance[a]) + At(Counting(a), prev, v)

Chained ==
  \E prev, new \in [TxnIds -> Int] :
    Recorded(prev, new) /\ \A a \in Accounts : Linked(a, prev, new)

LEMMA CountOfSame ==
  ASSUME NEW S, NEW f, NEW g, \A e \in S : g[e] = f[e]
  PROVE  \A v : At(S, g, v) = At(S, f, v)
<1>. SUFFICES ASSUME NEW v PROVE At(S, g, v) = At(S, f, v)
  OBVIOUS
<1>1. {e \in S : g[e] = v} = {e \in S : f[e] = v}
  OBVIOUS
<1>. QED BY <1>1 DEF At

LEMMA CountType ==
  ASSUME NEW S, IsFiniteSet(S)
  PROVE  \A f, v : At(S, f, v) \in Nat
<1>. SUFFICES ASSUME NEW f, NEW v PROVE Cardinality({d \in S : f[d] = v}) \in Nat
  BY DEF At
<1>. QED BY FS_Subset, FS_CardinalityType

(* One document more.                                                      *)
(* R is S with one more element, and g is f with a value for it.           *)
Adds(R, g, S, f, d) ==
  /\ IsFiniteSet(S) /\ d \notin S /\ R = S \cup {d}
  /\ \A e \in S : g[e] = f[e]

LEMMA CountOfMore ==
  ASSUME NEW R, NEW g, NEW S, NEW f, NEW d, Adds(R, g, S, f, d), NEW v
  PROVE  At(R, g, v) = At(S, f, v) + One(v, g[d])
<1>. USE DEF Adds
<1>. DEFINE T == {e \in S : f[e] = v}
            U == {e \in R : g[e] = v}
<1>1. IsFiniteSet(T) /\ Cardinality(T) \in Nat /\ d \notin T
  BY FS_Subset, FS_CardinalityType
<1>2. At(S, f, v) = Cardinality(T) /\ At(R, g, v) = Cardinality(U)
  BY DEF At
<1>3. CASE v = g[d]
  <2>1. U = T \cup {d}
    BY <1>3
  <2>. HIDE DEF T, U
  <2>2. Cardinality(U) = Cardinality(T) + 1
    BY <1>1, <2>1, FS_AddElement
  <2>. QED BY <1>1, <1>2, <1>3, <2>2 DEF One
<1>4. CASE v # g[d]
  <2>1. U = T
    BY <1>4
  <2>. HIDE DEF T, U
  <2>. QED BY <1>1, <1>2, <1>4, <2>1 DEF One
<1>. QED BY <1>3, <1>4

LEMMA InitChained == Init => Chained
<1>. SUFFICES ASSUME Init PROVE Chained
  OBVIOUS
<1>. DEFINE zero == [d \in TxnIds |-> 0]
<1>1. zero \in [TxnIds -> Int]
  OBVIOUS
<1>2. Recorded(zero, zero)
  BY DEF Init, LogInit, NoDoc, Recorded
<1>3. ASSUME NEW a \in Accounts PROVE Linked(a, zero, zero)
  <2>1. Counting(a) = {} /\ opening[a] = 0 /\ balance[a] = 0
    BY DEF Init, AccountsInit, Counting, DocsOf
  <2>. QED BY <2>1 DEF Linked
<1>. QED BY <1>1, <1>2, <1>3 DEF Chained

LEMMA QuietLinks ==
  ASSUME NEW a \in Accounts, NEW prev, NEW new, Linked(a, prev, new),
         UNCHANGED <<effect, body>>, balance'[a] = balance[a], opening'[a] = opening[a]
  PROVE  Linked(a, prev, new)'
BY DEF Linked, Counting, DocsOf, SignedAmount, At

(* An update leads from the balance it found to the balance it left.       *)
LEMMA UpdateLinks ==
  ASSUME TypeOK, Books, NEW r \in Requests, ValidRequest(body[r]),
         NEW d, d \in {QueuedId(r), DirectId(r)}, effect[d] = 0, effect'[d] = 1,
         \A e \in TxnIds \ {d} : effect'[e] = effect[e],
         balance' = [balance EXCEPT ![Account(r)] = After(@, body[r].type, body[r].amount)],
         UNCHANGED <<opening, body>>,
         NEW prev, prev \in [TxnIds -> Int], NEW new, new \in [TxnIds -> Int],
         NEW from, from = balance[Account(r)], NEW to, to = balance'[Account(r)],
         NEW a \in Accounts, Linked(a, prev, new)
  PROVE  Linked(a, [prev EXCEPT ![d] = from], [new EXCEPT ![d] = to])'
<1>. PICK p, n : p = [prev EXCEPT ![d] = from] /\ n = [new EXCEPT ![d] = to]
  OBVIOUS
<1>1. d \in TxnIds /\ d[1] = r /\ p[d] = from /\ n[d] = to
  BY DEF QueuedId, DirectId, TxnIds
<1>. PICK own \in Accounts : own = Account(r)
  BY ValidUpdate
<1>2. from \in Int /\ to = from + SignedAmount(d) /\ SignedAmount(d) \in Int
  <2>1. to = from + Signed(body[r].type, body[r].amount)
    BY DEF After, TypeOK, AccountsTypeOK
  <2>. QED BY <1>1, <2>1, WeightType DEF SignedAmount, TypeOK, AccountsTypeOK
<1>3. \A e \in TxnIds \ {d} : p[e] = prev[e] /\ n[e] = new[e]
  OBVIOUS
<1>4. d \notin Counting(a) /\ Counting(a) \subseteq TxnIds /\ IsFiniteSet(Counting(a))
  BY BooksMean DEF Counting, DocsOf
<1>5. \A e \in TxnIds : SignedAmount(e)' = SignedAmount(e)
  BY DEF SignedAmount
<1>. PICK S : S = Counting(a)
  OBVIOUS
<1>6. CASE a # own
  <2>1. Counting(a)' = Counting(a)
    <3>1. d \notin DocsOf(a) /\ DocsOf(a)' = DocsOf(a)
      BY <1>1, <1>6 DEF DocsOf, Account
    <3>. QED BY <3>1 DEF Counting, DocsOf
  <2>2. \A v : At(S, p, v) = At(S, prev, v) /\ At(S, n, v) = At(S, new, v)
    <3>1. (\A e \in S : p[e] = prev[e]) /\ (\A e \in S : n[e] = new[e])
      BY <1>3, <1>4
    <3>2. \A v : At(S, p, v) = At(S, prev, v)
      BY ONLY <3>1, CountOfSame
    <3>3. \A v : At(S, n, v) = At(S, new, v)
      BY ONLY <3>1, CountOfSame
    <3>. QED BY <3>2, <3>3
  <2>3. balance'[a] = balance[a]
    BY <1>6 DEF TypeOK, AccountsTypeOK
  <2>4. \A e \in Counting(a) : n[e] = p[e] + SignedAmount(e)
    BY <1>3, <1>4 DEF Linked
  <2>5. \A v \in Int : One(v, opening[a]) + At(S, n, v)
                         = One(v, balance[a]) + At(S, p, v)
    BY <2>2 DEF Linked
  <2>6. Linked(a, p, n)'
    BY <1>4, <1>5, <2>1, <2>3, <2>4, <2>5 DEF Linked, At
  <2>. QED BY <2>6
<1>7. CASE a = own
  <2>1. Counting(a)' = Counting(a) \cup {d}
    <3>1. d \in DocsOf(a) /\ DocsOf(a)' = DocsOf(a) /\ DocsOf(a) \subseteq TxnIds
      BY <1>1, <1>7 DEF DocsOf, Account
    <3>. QED BY <3>1 DEF Counting
  <2>2. ASSUME NEW v
        PROVE  /\ At(S \cup {d}, p, v) = At(S, prev, v) + One(v, from)
               /\ At(S \cup {d}, n, v) = At(S, new, v) + One(v, to)
               /\ At(S, prev, v) \in Nat /\ At(S, new, v) \in Nat
    <3>1. IsFiniteSet(S)
      BY <1>4
    <3>2. d \notin S
      BY <1>4
    <3>3. \A e \in S : p[e] = prev[e]
      BY <1>3, <1>4
    <3>4. \A e \in S : n[e] = new[e]
      BY <1>3, <1>4
    <3>5. Adds(S \cup {d}, p, S, prev, d) /\ Adds(S \cup {d}, n, S, new, d)
      BY <3>1, <3>2, <3>3, <3>4 DEF Adds
    <3>6. /\ At(S \cup {d}, p, v) = At(S, prev, v) + One(v, p[d])
          /\ At(S \cup {d}, n, v) = At(S, new, v) + One(v, n[d])
      BY ONLY <3>5, CountOfMore
    <3>. QED BY <1>1, <3>1, <3>6, CountType
  <2>3. balance[a] = from /\ balance'[a] = to
    BY <1>7
  <2>4. \A e \in Counting(a) \cup {d} : n[e] = p[e] + SignedAmount(e)
    BY <1>1, <1>2, <1>3, <1>4 DEF Linked
  <2>5. ASSUME NEW v \in Int
        PROVE  One(v, opening[a]) + At(S \cup {d}, n, v)
                 = One(v, to) + At(S \cup {d}, p, v)
    <3>1. One(v, opening[a]) + At(S, new, v) = One(v, from) + At(S, prev, v)
      BY <2>3 DEF Linked
    <3>2. One(v, opening[a]) \in Nat /\ One(v, from) \in Nat /\ One(v, to) \in Nat
      BY DEF One
    <3>3. /\ At(S \cup {d}, p, v) = At(S, prev, v) + One(v, from)
          /\ At(S \cup {d}, n, v) = At(S, new, v) + One(v, to)
          /\ At(S, prev, v) \in Nat /\ At(S, new, v) \in Nat
      BY <2>2
    <3>. QED BY ONLY <3>1, <3>2, <3>3
  <2>6. Linked(a, p, n)'
    BY <1>4, <1>5, <2>1, <2>3, <2>4, <2>5, <1>1 DEF Linked, At
  <2>. QED BY <2>6
<1>. QED BY <1>6, <1>7

(* So the chain of its account grows by what the update did.               *)
LEMMA UpdateChains ==
  ASSUME TypeOK, TypeOK', Books, NEW r \in Requests, ValidRequest(body[r]),
         NEW d, d \in {QueuedId(r), DirectId(r)}, effect[d] = 0,
         NEW done, AtomicBalanceUpdate(done, Account(r), body[r].type, body[r].amount, "ok"),
         Count(d, 1), UNCHANGED <<opening, body>>,
         NEW prev \in [TxnIds -> Int], NEW new \in [TxnIds -> Int],
         \A a \in Accounts : Linked(a, prev, new)
  PROVE  \E p, n \in [TxnIds -> Int] :
           /\ \A a \in Accounts : Linked(a, p, n)'
           /\ p[d] = balance[Account(r)] /\ n[d] = balance'[Account(r)]
           /\ \A e \in TxnIds \ {d} : p[e] = prev[e] /\ n[e] = new[e]
<1>1. d \in TxnIds
  BY DEF QueuedId, DirectId, TxnIds
<1>2. effect'[d] = 1 /\ \A e \in TxnIds \ {d} : effect'[e] = effect[e]
  BY <1>1, CountStep
<1>3. balance' = [balance EXCEPT ![Account(r)] = After(@, body[r].type, body[r].amount)]
  BY DEF AtomicBalanceUpdate
<1>. PICK from, to : from = balance[Account(r)] /\ to = balance'[Account(r)]
  OBVIOUS
<1>4. from \in Int /\ to \in Int
  BY ValidUpdate DEF TypeOK, AccountsTypeOK
<1>. PICK p, n : p = [prev EXCEPT ![d] = from] /\ n = [new EXCEPT ![d] = to]
  OBVIOUS
<1>5. \A a \in Accounts : Linked(a, p, n)'
  BY <1>2, <1>3, UpdateLinks
<1>6. p \in [TxnIds -> Int] /\ n \in [TxnIds -> Int]
  BY <1>4
<1>. QED BY <1>1, <1>5, <1>6

LEMMA HandlerChains ==
  ASSUME Truthful, "mongo" \notin Faults, Settling, Settling', Chained,
         NEW s \in Requests, Handle(s)
  PROVE  Chained'
<1>. USE DEF Goto, Finish
<1>1. TypeOK /\ TypeOK' /\ Sound /\ Books /\ Told(s) /\ reply[s] = "none"
  BY HandlerEffect DEF Settling, ServiceInvariant, Sound, Truth, OneWayOut
<1>2. PICK prev, new \in [TxnIds -> Int] :
        Recorded(prev, new) /\ \A a \in Accounts : Linked(a, prev, new)
  BY DEF Chained
<1>3. UNCHANGED <<body, opening, wphase, job, wlocal>>
  BY DEF Handle, ReceiveTransaction, ValidateAccount, CreatePending, PublishPending, MarkUnqueued,
         SyncUpdateBalance, SyncRecord, SyncRollback, requestVars, workerVars, ghostVars
<1>4. CASE SyncUpdateBalance(s)
  <2>1. PICK out \in UpdateOutcomes :
          /\ AtomicBalanceUpdate(cancelled[s], Account(s), body[s].type, body[s].amount, out)
          /\ Count(DirectId(s), IF Applied(out) THEN 1 ELSE 0)
          /\ \/ /\ out = "ok" /\ Goto(s, "record")
                /\ local' = [local EXCEPT ![s] = [prev |-> balance[Account(s)],
                                                  new |-> balance'[Account(s)]]]
             \/ out # "ok" /\ phase' = [phase EXCEPT ![s] = "done"] /\ UNCHANGED local
    BY <1>4 DEF SyncUpdateBalance
  <2>2. /\ out # "unsure" /\ UNCHANGED log
        /\ effect[DirectId(s)] = 0 /\ log[DirectId(s)].status # "completed"
        /\ ValidRequest(body[s])
    BY <1>1, <1>4, <2>1
    DEF SyncUpdateBalance, AtomicBalanceUpdate, Applied, Strike, Truthful, Settling,
        ServiceInvariant, DirectFollowsPhase, Told, Sound, WorkIsValid, Finished
  <2>3. CASE out = "ok"
    <3>1. PICK p, n \in [TxnIds -> Int] :
            /\ \A a \in Accounts : Linked(a, p, n)'
            /\ p[DirectId(s)] = balance[Account(s)] /\ n[DirectId(s)] = balance'[Account(s)]
            /\ \A e \in TxnIds \ {DirectId(s)} : p[e] = prev[e] /\ n[e] = new[e]
      <4>1. AtomicBalanceUpdate(cancelled[s], Account(s), body[s].type, body[s].amount, "ok")
            /\ Count(DirectId(s), 1)
        BY <2>1, <2>3 DEF Applied
      <4>. QED BY <1>1, <1>2, <1>3, <2>2, <4>1, UpdateChains
    <3>2. \A d \in TxnIds : log'[d].status = "completed" => /\ p[d] = log'[d].prev
                                                           /\ n[d] = log'[d].new
      BY <1>2, <2>2, <3>1 DEF Recorded
    <3>3. ASSUME NEW r \in Requests, phase'[r] = "record"
          PROVE  p[DirectId(r)] = local'[r].prev /\ n[DirectId(r)] = local'[r].new
      <4>1. CASE r = s
        BY <1>1, <2>1, <2>3, <3>1, <4>1 DEF TypeOK
      <4>2. CASE r # s
        <5>1. phase[r] = "record" /\ local'[r] = local[r]
          BY <1>1, <2>1, <2>3, <3>3, <4>2 DEF TypeOK
        <5>2. DirectId(r) \in TxnIds \ {DirectId(s)}
          BY <4>2, Ids
        <5>. QED BY <1>2, <3>1, <5>1, <5>2 DEF Recorded
      <4>. QED BY <4>1, <4>2
    <3>4. ASSUME NEW w \in Workers, wphase'[w] = "complete"
          PROVE  /\ p[QueuedId(job'[w])] = wlocal'[w].prev
                 /\ n[QueuedId(job'[w])] = wlocal'[w].new
      <4>1. wphase[w] = "complete" /\ job'[w] = job[w] /\ wlocal'[w] = wlocal[w]
        BY <1>3, <3>4
      <4>2. QueuedId(job[w]) \in TxnIds \ {DirectId(s)}
        BY <1>1, <4>1, BusyWorker, Ids
      <4>. QED BY <1>2, <3>1, <4>1, <4>2 DEF Recorded
    <3>5. Recorded(p, n)'
      BY <3>2, <3>3, <3>4 DEF Recorded
    <3>. QED BY <3>1, <3>5 DEF Chained
  <2>4. CASE out # "ok"
    <3>1. UNCHANGED <<balance, effect>>
      <4>1. effect[DirectId(s)] + 0 = effect[DirectId(s)]
        BY <2>2
      <4>. QED
        BY <1>1, <2>1, <2>2, <2>4, <4>1
        DEF AtomicBalanceUpdate, Applied, UpdateOutcomes, accountVars, Count, TypeOK
    <3>2. \A a \in Accounts : Linked(a, prev, new)'
      BY <1>2, <1>3, <3>1, QuietLinks
    <3>3. Recorded(prev, new)'
      BY <1>1, <1>2, <1>3, <2>1, <2>2, <2>4 DEF Recorded, TypeOK
    <3>. QED BY <3>2, <3>3 DEF Chained
  <2>. QED BY <2>3, <2>4
<1>5. CASE ~SyncUpdateBalance(s)
  <2>1. ~SyncRollback(s)
    BY <1>1 DEF SyncRollback, Told
  <2>2. UNCHANGED <<balance, effect>>
    BY <1>5, <2>1
    DEF Handle, ReceiveTransaction, ValidateAccount, GetAccountByID, CreatePending, PublishPending,
        MarkUnqueued, SyncRecord, accountVars, ghostVars
  <2>3. ASSUME NEW r \in Requests, phase'[r] = "record"
        PROVE  phase[r] = "record" /\ local'[r] = local[r]
    BY <1>1, <1>5, <2>1, <2>3
    DEF Handle, ReceiveTransaction, ValidateAccount, CreatePending, PublishPending,
        MarkUnqueued, SyncRecord, TypeOK
  <2>4. ASSUME NEW d \in TxnIds, log'[d].status = "completed"
        PROVE  prev[d] = log'[d].prev /\ new[d] = log'[d].new
    <3>1. CASE log'[d] = log[d]
      BY <1>2, <2>4, <3>1 DEF Recorded
    <3>2. CASE SyncRecord(s) /\ d = DirectId(s)
      <4>1. phase[s] = "record"
            /\ (log'[d] = log[d] \/ (log'[d].prev = local[s].prev /\ log'[d].new = local[s].new))
        BY <1>1, <3>2 DEF SyncRecord, CreateTransaction, Write, TypeOK, LogTypeOK
      <4>. QED BY <1>2, <3>1, <3>2, <4>1 DEF Recorded
    <3>3. CASE d = DirectId(s) /\ ~SyncRecord(s)
      <4>1. log'[d] = log[d]
        BY <1>1, <1>5, <2>1, <3>3, Ids
        DEF Handle, ReceiveTransaction, ValidateAccount, CreatePending, CreateTransaction,
            PublishPending, MarkUnqueued, UpdateTransactionStatusWithError, Write, TypeOK, LogTypeOK
      <4>. QED BY <3>1, <4>1
    <3>4. CASE d = QueuedId(s)
      <4>1. CASE CreatePending(s)
        <5>1. log'[d].status = "pending" \/ log'[d] = log[d]
          BY <1>1, <4>1 DEF CreatePending, CreateTransaction, Write, TypeOK, LogTypeOK
        <5>. QED BY <2>4, <3>1, <5>1
      <4>2. CASE MarkUnqueued(s)
        <5>1. PICK out \in WriteOutcomes :
                UpdateTransactionStatusWithError(cancelled[s], d, "unqueued", out)
          BY <3>4, <4>2 DEF MarkUnqueued
        <5>2. Found(d) /\ ~cancelled[s]
          BY <1>1, <3>4, <4>2 DEF MarkUnqueued, Told, Found
        <5>3. UpdateTransactionStatusWithError(FALSE, d, "unqueued", out)
          BY <1>1, <5>1, <5>2 DEF TypeOK
        <5>4. log'[d].status = "failed" \/ log'[d] = log[d]
          BY <1>1, <5>2, <5>3, TruthfulFailed
        <5>. QED BY <2>4, <3>1, <5>4
      <4>3. CASE ~CreatePending(s) /\ ~MarkUnqueued(s)
        <5>1. log'[d] = log[d]
          BY <1>1, <1>5, <2>1, <3>4, <4>3, Ids
          DEF Handle, ReceiveTransaction, ValidateAccount, PublishPending, SyncRecord,
              CreateTransaction, Write, TypeOK, LogTypeOK
        <5>. QED BY <3>1, <5>1
      <4>. QED BY <4>1, <4>2, <4>3
    <3>5. CASE d \notin {QueuedId(s), DirectId(s)}
      BY <1>1, <3>1, <3>5, HandlerLog
    <3>. QED BY <3>2, <3>3, <3>4, <3>5
  <2>5. Recorded(prev, new)'
    BY <1>2, <1>3, <2>3, <2>4 DEF Recorded
  <2>6. \A a \in Accounts : Linked(a, prev, new)'
    BY <1>2, <1>3, <2>2, QuietLinks
  <2>. QED BY <2>5, <2>6 DEF Chained
<1>. QED BY <1>4, <1>5

LEMMA WorkerChains ==
  ASSUME Truthful, "mongo" \notin Faults, Settling, Settling', Chained,
         NEW w \in Workers, Work(w)
  PROVE  Chained'
<1>. USE DEF WGoto, WReturn, WFail
<1>1. TypeOK /\ TypeOK' /\ Sound /\ Books /\ Informed(w) /\ Exclusive
  BY DEF Settling, ServiceInvariant, Sound, Truth
<1>2. PICK prev, new \in [TxnIds -> Int] :
        Recorded(prev, new) /\ \A a \in Accounts : Linked(a, prev, new)
  BY DEF Chained
<1>3. UNCHANGED <<body, opening, phase, local>>
  BY DEF Work, TakeDelivery, LoadPending, AsyncUpdateBalance, AsyncComplete, AsyncRollback,
         AsyncMarkFailed, AckDelivery, NackDelivery, requestVars, handlerVars, ghostVars
<1>4. CASE AsyncUpdateBalance(w)
  <2>1. PICK r \in Requests : r = job[w] /\ ValidRequest(body[r])
    BY <1>1, <1>4, BusyWorker DEF AsyncUpdateBalance
  <2>2. PICK out \in UpdateOutcomes :
          /\ AtomicBalanceUpdate(FALSE, Account(r), body[r].type, body[r].amount, out)
          /\ Count(QueuedId(r), IF Applied(out) THEN 1 ELSE 0)
          /\ \/ /\ out = "ok" /\ wphase' = [wphase EXCEPT ![w] = "complete"]
                /\ wlocal' = [wlocal EXCEPT ![w] = [prev |-> balance[Account(r)],
                                                    new |-> balance'[Account(r)]]]
             \/ /\ out # "ok" /\ wphase' = [wphase EXCEPT ![w] = "mark"] /\ UNCHANGED wlocal
    BY <1>4, <2>1 DEF AsyncUpdateBalance
  <2>3. /\ out # "unsure" /\ UNCHANGED <<log, job>>
        /\ effect[QueuedId(r)] = 0 /\ log[QueuedId(r)].status = "pending"
    BY <1>1, <1>4, <2>1, <2>2
    DEF AsyncUpdateBalance, AtomicBalanceUpdate, Applied, Strike, Truthful, Informed, Pending
  <2>4. CASE out = "ok"
    <3>1. PICK p, n \in [TxnIds -> Int] :
            /\ \A a \in Accounts : Linked(a, p, n)'
            /\ p[QueuedId(r)] = balance[Account(r)] /\ n[QueuedId(r)] = balance'[Account(r)]
            /\ \A e \in TxnIds \ {QueuedId(r)} : p[e] = prev[e] /\ n[e] = new[e]
      <4>1. PICK done : AtomicBalanceUpdate(done, Account(r), body[r].type, body[r].amount, "ok")
        BY <2>2, <2>4
      <4>2. Count(QueuedId(r), 1)
        BY <2>2, <2>4 DEF Applied
      <4>3. UNCHANGED <<opening, body>> /\ \A a \in Accounts : Linked(a, prev, new)
        BY <1>2, <1>3
      <4>. QED BY <1>1, <2>1, <2>3, <4>1, <4>2, <4>3, UpdateChains
    <3>2. \A d \in TxnIds : log'[d].status = "completed" => /\ p[d] = log'[d].prev
                                                           /\ n[d] = log'[d].new
      BY <1>2, <2>3, <3>1 DEF Recorded
    <3>3. ASSUME NEW q \in Requests, phase'[q] = "record"
          PROVE  p[DirectId(q)] = local'[q].prev /\ n[DirectId(q)] = local'[q].new
      <4>1. DirectId(q) \in TxnIds \ {QueuedId(r)}
        BY Ids
      <4>. QED BY <1>2, <1>3, <3>1, <3>3, <4>1 DEF Recorded
    <3>4. ASSUME NEW v \in Workers, wphase'[v] = "complete"
          PROVE  /\ p[QueuedId(job'[v])] = wlocal'[v].prev
                 /\ n[QueuedId(job'[v])] = wlocal'[v].new
      <4>1. CASE v = w
        BY <1>1, <2>1, <2>2, <2>3, <2>4, <3>1, <4>1 DEF TypeOK
      <4>2. CASE v # w
        <5>1. wphase[v] = "complete" /\ job'[v] = job[v] /\ wlocal'[v] = wlocal[v]
          BY <1>1, <2>2, <2>3, <2>4, <3>4, <4>2 DEF TypeOK
        <5>2. job[v] \in Requests /\ job[v] # r
          BY <1>1, <2>1, <4>2, <5>1, BusyWorker, HostAssumption DEF Exclusive
        <5>3. QueuedId(job[v]) \in TxnIds \ {QueuedId(r)}
          BY <5>2, Ids
        <5>. QED BY <1>2, <3>1, <5>1, <5>3 DEF Recorded
      <4>. QED BY <4>1, <4>2
    <3>5. Recorded(p, n)'
      BY <3>2, <3>3, <3>4 DEF Recorded
    <3>. QED BY <3>1, <3>5 DEF Chained
  <2>5. CASE out # "ok"
    <3>1. UNCHANGED <<balance, effect>>
      <4>1. effect[QueuedId(r)] + 0 = effect[QueuedId(r)]
        BY <2>3
      <4>. QED
        BY <1>1, <2>2, <2>3, <2>5, <4>1
        DEF AtomicBalanceUpdate, Applied, UpdateOutcomes, accountVars, Count, TypeOK
    <3>2. \A a \in Accounts : Linked(a, prev, new)'
      BY <1>2, <1>3, <3>1, QuietLinks
    <3>3. Recorded(prev, new)'
      BY <1>1, <1>2, <1>3, <2>2, <2>3, <2>5 DEF Recorded, TypeOK
    <3>. QED BY <3>2, <3>3 DEF Chained
  <2>. QED BY <2>4, <2>5
<1>5. CASE ~AsyncUpdateBalance(w)
  <2>1. ~AsyncRollback(w)
    BY <1>1 DEF AsyncRollback, Informed
  <2>2. UNCHANGED <<balance, effect>>
    BY <1>5, <2>1
    DEF Work, TakeDelivery, LoadPending, AsyncComplete, AsyncMarkFailed, AckDelivery, NackDelivery,
        accountVars, ghostVars
  <2>3. ASSUME NEW v \in Workers, wphase'[v] = "complete"
        PROVE  wphase[v] = "complete" /\ job'[v] = job[v] /\ wlocal'[v] = wlocal[v]
    BY <1>1, <1>5, <2>1, <2>3
    DEF Work, TakeDelivery, LoadPending, AsyncComplete, AsyncMarkFailed, AckDelivery,
        NackDelivery, WRest, AfterUpdate, NotPending, TypeOK
  <2>4. ASSUME NEW d \in TxnIds, log'[d].status = "completed"
        PROVE  prev[d] = log'[d].prev /\ new[d] = log'[d].new
    <3>1. CASE log'[d] = log[d]
      BY <1>2, <2>4, <3>1 DEF Recorded
    <3>2. CASE AsyncComplete(w)
      <4>1. wphase[w] = "complete" /\ job[w] \in Requests
        BY <1>1, <3>2, BusyWorker DEF AsyncComplete
      <4>2. \/ log'[d] = log[d]
            \/ /\ d = QueuedId(job[w])
               /\ log'[d].prev = wlocal[w].prev /\ log'[d].new = wlocal[w].new
        BY <1>1, <3>2 DEF AsyncComplete, UpdateTransaction, Write, TypeOK, LogTypeOK
      <4>. QED BY <1>2, <3>1, <4>1, <4>2 DEF Recorded
    <3>3. CASE AsyncMarkFailed(w)
      <4>1. job[w] \in Requests /\ Pending(job[w])
        BY <1>1, <3>3, BusyWorker DEF AsyncMarkFailed, Informed
      <4>2. QueuedId(job[w]) \in TxnIds /\ Found(QueuedId(job[w]))
        BY <4>1, Ids DEF Pending, Found
      <4>3. PICK out \in WriteOutcomes :
              UpdateTransactionStatusWithError(FALSE, QueuedId(job[w]), reason[w], out)
        BY <3>3 DEF AsyncMarkFailed
      <4>4. /\ log'[QueuedId(job[w])].status = "failed"
               \/ log'[QueuedId(job[w])] = log[QueuedId(job[w])]
            /\ \A e \in TxnIds : e # QueuedId(job[w]) => log'[e] = log[e]
        BY <1>1, <4>2, <4>3, TruthfulFailed
      <4>. QED BY <2>4, <3>1, <4>4
    <3>4. CASE ~AsyncComplete(w) /\ ~AsyncMarkFailed(w)
      <4>1. UNCHANGED log
        BY <1>5, <2>1, <3>4
        DEF Work, TakeDelivery, LoadPending, GetTransactionByID, AckDelivery, NackDelivery
      <4>. QED BY <3>1, <4>1
    <3>. QED BY <3>2, <3>3, <3>4
  <2>5. Recorded(prev, new)'
    BY <1>2, <1>3, <2>3, <2>4 DEF Recorded
  <2>6. \A a \in Accounts : Linked(a, prev, new)'
    BY <1>2, <1>3, <2>2, QuietLinks
  <2>. QED BY <2>5, <2>6 DEF Chained
<1>. QED BY <1>4, <1>5

LEMMA OpenChains ==
  ASSUME Settling, Settling', Chained, NEW a \in Accounts, NEW n \in OpeningBalances,
         OpenAccount(a, n)
  PROVE  Chained'
<1>1. TypeOK /\ Books
  BY DEF Settling, ServiceInvariant
<1>2. PICK prev, new \in [TxnIds -> Int] :
        Recorded(prev, new) /\ \A b \in Accounts : Linked(b, prev, new)
  BY DEF Chained
<1>3. /\ UNCHANGED <<log, body, effect, phase, local, wphase, job, wlocal>> /\ ~opened[a]
      /\ balance' = [balance EXCEPT ![a] = n] /\ opening' = [opening EXCEPT ![a] = n]
  BY DEF OpenAccount, CreateAccount, requestVars, handlerVars, workerVars
<1>4. Recorded(prev, new)'
  BY <1>2, <1>3 DEF Recorded
<1>5. ASSUME NEW b \in Accounts, b # a PROVE Linked(b, prev, new)'
  <2>1. balance'[b] = balance[b] /\ opening'[b] = opening[b]
    BY <1>1, <1>3, <1>5 DEF TypeOK, AccountsTypeOK
  <2>. QED BY <1>2, <1>3, <2>1, QuietLinks
<1>6. Linked(a, prev, new)'
  <2>1. Counting(a) = {} /\ Counting(a)' = {}
    BY <1>1, <1>3 DEF Books, Booked, Counting, DocsOf
  <2>2. balance'[a] = n /\ opening'[a] = n
    BY <1>1, <1>3 DEF TypeOK, AccountsTypeOK
  <2>. QED BY <2>1, <2>2 DEF Linked, At
<1>. QED BY <1>2, <1>4, <1>5, <1>6 DEF Chained

LEMMA StepChained ==
  ASSUME SingleHost, Truthful, "mongo" \notin Faults
  PROVE  Settling /\ Settling' /\ Chained /\ [Next]_vars => Chained'
<1>. SUFFICES ASSUME Settling, Settling', Chained, [Next]_vars PROVE Chained'
  OBVIOUS
<1>1. CASE \/ \E i \in Instances : Start(i) \/ LinkLoss(i) \/ ChannelLoss(i) \/ Crash(i)
           \/ \E r \in Requests : Disconnect(r) \/ Expire(r)
           \/ Rest \/ UNCHANGED vars
  <2>1. UNCHANGED <<balance, opening, effect, body, log, phase, local, wphase, job, wlocal>>
    BY <1>1
    DEF Start, LinkLoss, ChannelLoss, Crash, Disconnect, Expire, Rest, vars, Strike, Truthful,
        accountVars, requestVars, handlerVars, workerVars, ghostVars
  <2>2. PICK prev, new \in [TxnIds -> Int] :
          Recorded(prev, new) /\ \A a \in Accounts : Linked(a, prev, new)
    BY DEF Chained
  <2>3. Recorded(prev, new)'
    BY <2>1, <2>2 DEF Recorded
  <2>4. \A a \in Accounts : Linked(a, prev, new)'
    BY <2>1, <2>2, QuietLinks
  <2>. QED BY <2>2, <2>3, <2>4 DEF Chained
<1>. QED BY <1>1, HandlerChains, WorkerChains, OpenChains DEF Next

LEMMA ChainedMeans == Settling /\ Chained => RecordsChain
<1>. SUFFICES ASSUME Settling, Chained, NEW a \in Accounts, Settled(a)
              PROVE  LET docs   == CompletedOf(a)
                         Here(v)  == IF v THEN 1 ELSE 0
                         values == {log[d].prev : d \in docs} \cup {log[d].new : d \in docs}
                     IN  /\ \A d \in docs : log[d].new = log[d].prev + SignedAmount(d)
                         /\ \A v \in values :
                              Here(v = opening[a]) + Cardinality({d \in docs : log[d].new = v})
                                = Here(v = balance[a]) + Cardinality({d \in docs : log[d].prev = v})
  BY DEF RecordsChain
<1>1. PICK prev, new \in [TxnIds -> Int] : Recorded(prev, new) /\ Linked(a, prev, new)
  BY DEF Chained
<1>2. TypeOK /\ Counting(a) = CompletedOf(a)
  BY CompletedCount DEF Settling, ServiceInvariant
<1>3. \A d \in CompletedOf(a) : /\ d \in TxnIds
                                /\ prev[d] = log[d].prev /\ new[d] = log[d].new
                                /\ log[d].prev \in Int /\ log[d].new \in Int
  BY <1>1, <1>2 DEF Recorded, CompletedOf, DocsOf, TypeOK, LogTypeOK, Doc
<1>4. \A d \in CompletedOf(a) : log[d].new = log[d].prev + SignedAmount(d)
  BY <1>1, <1>2, <1>3 DEF Linked
<1>5. ASSUME NEW v \in Int
      PROVE  (IF v = opening[a] THEN 1 ELSE 0) + Cardinality({d \in CompletedOf(a) : log[d].new = v})
               = (IF v = balance[a] THEN 1 ELSE 0) + Cardinality({d \in CompletedOf(a) : log[d].prev = v})
  <2>1. /\ {d \in CompletedOf(a) : new[d] = v} = {d \in CompletedOf(a) : log[d].new = v}
        /\ {d \in CompletedOf(a) : prev[d] = v} = {d \in CompletedOf(a) : log[d].prev = v}
    BY <1>3
  <2>2. One(v, opening[a]) + At(CompletedOf(a), new, v) = One(v, balance[a]) + At(CompletedOf(a), prev, v)
    BY <1>1, <1>2 DEF Linked
  <2>. QED BY <2>1, <2>2 DEF One, At
<1>. QED BY <1>3, <1>4, <1>5

(* Where MongoDB refuses no write, the documents of an account say how its *)
(* balance came about: whatever handlers and workers do at the same time,  *)
(* however messages are redelivered, each update found the balance that    *)
(* another left, and its document says so.                                 *)
THEOREM RecordsFormChains ==
  ASSUME SingleHost, Truthful, "mongo" \notin Faults
  PROVE  Spec => []RecordsChain
<1>1. Reversible
  BY DEF Reversible
<1>2. Spec => []Settling
  BY <1>1, SettlingHolds
<1>3. Settling /\ Settling' /\ Chained /\ [Next]_vars => Chained'
  BY StepChained
<1>. QED BY <1>2, <1>3, InitChained, ChainedMeans, PTL DEF Spec

=============================================================================
