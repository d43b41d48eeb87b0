# Banking ledger service: formal model

TLA+ modules, TLC runs and TLAPS proofs about the service in `src/`. Paths below
are relative to `src/`. `PROJECT.json` maps every definition to the lines it
models, and lists the runs, the mutants each property is tested with, the
hazards, the findings and the theorems.

## The system

Clients ask an HTTP service to open accounts and to deposit or withdraw money.
Balances live in PostgreSQL, the log of transactions in MongoDB. A transaction
request normally becomes a `pending` document and a message in RabbitMQ, is
answered 202, and is carried out by a worker goroutine. Without a broker the
handler carries it out itself and answers 200.

| Component | Code | State | Operations | Talks to |
|---|---|---|---|---|
| Account store | `storage/postgres.go`, `services/account.go`, `handlers/account.go` | row per account, its balance, row locks | CreateAccount, GetAccountByID, AtomicBalanceUpdate | called by handlers and workers |
| Transaction log | `storage/mongodb.go`, `models/models.go` | document per transaction: status, balances, error | insert, complete, mark failed, find, page | called by handlers and workers |
| Queue | `queue/rabbitMQ.go` | connection and channel, ready and unacknowledged messages | connect, publish, consume, ack, nack, IsConnected | handlers publish, workers consume |
| Transaction handler | `handlers/trans.go`, `services/trans.go` | local variables of a request, its context | validate, pre-check, create pending, publish, fall back, update, record, compensate | all three stores |
| Worker pool | `worker/trans_worker.go`, `services/trans.go` | the delivery in hand | load, update, complete, compensate, mark failed, ack, nack | all three stores |
| Process lifecycle | `main.go` | connection, pool, wait group, shutdown goroutine | connect, launch, serve, signal, wait, exit | everything |
| History and lookups | `middleware/validation.go`, `handlers/trans.go`, `services/trans.go`, `storage/mongodb.go` | none | count and find a page; find by id | account store, log |
| Health and readiness | `handlers/health.go` | none | `/health`, `/ready` | account store, log, queue |
| Configuration | `config/config.go` | none | read the environment | `main.go` |
| Logging, gateway, deployment, API description, tests | `middleware/logger.go`, `utils/`, `gateway/`, `docker-compose.yml`, `docs/`, `*_test.go` | none | | |

What is hard here: two databases are written one after the other with no common
transaction, and the second write's failure is answered by a *compensating*
update whose own result is ignored; the same message may be delivered again
after a crash or a closed channel, and only a status read some steps earlier
says whether it was done; the handler switches path in the middle of a request
when publishing fails; commits and writes may take effect while their caller gets
an error; a client that leaves cancels the context that everything, the
compensation included, runs under; a signal comes while workers hold messages;
pages of the history and checks of readiness are several reads of something that
changes meanwhile; amounts are checked to two decimals with a tolerance.

What makes each component correct:

- account store: no update is lost, no balance leaves its column's range, no
  early return keeps a row locked, rounding never makes an update and its reversal differ;
- log: it adds up to the balances, its records form one chain, a decided document
  stays decided and tells the truth;
- queue and workers: an accepted request is not forgotten, takes effect once, and
  is eventually decided;
- handler: 200 means once and recorded, 4xx and 5xx mean nothing happened, and
  nothing happens after the answer;
- lifecycle and configuration: whatever `WORKER_COUNT` says, accepted requests have
  workers; a shutdown called graceful cut nothing off; a signal ends the process, and
  every end gives back what is unfinished;
- reads: a readiness answer is founded on what the stores were; a client that reads
  the history page by page misses nothing.

## Modules

```
Balances                 arithmetic of an update: range, shortage, opposite
  LedgerData             requests, documents, identifiers, faults
    AccountStorage       storage/postgres.go, one step per call
    TransactionStorage   storage/mongodb.go, one step per command
    TransactionQueue     queue/rabbitMQ.go and the broker
      BankingService     handlers + workers + processes over the three (composition)
        LedgerProperties what must hold
          MCBankingService       instances for TLC
          BankingServiceProofs   the inductive invariant
            LedgerContractProofs     answers, under every fault
              LedgerDecisionsProofs  decisions, for one process
                LedgerBooksProofs    the ledger against the balances
  LedgerContract         abstract: what clients are promised, request by request
  Amounts                amounts with fractions of a cent
    AtomicBalances       abstract: an update takes effect at one instant
    PostgresAccounts     AtomicBalanceUpdate statement by statement, with the row lock
      MCPostgresAccounts, PostgresAccountsProofs

GoIntegers               Go's int and its overflow
  Configuration          WORKER_COUNT
    ServiceProcess       main.go, the workers' loop, the broker's deliveries
      MCServiceProcess, ServiceProcessProofs

Backends                 stores that are up, refuse or hang
  Readiness              GET /ready
  HistoryPaging          GET /accounts/:id/transactions (with GoIntegers)
    ReadRequests         both (composition)
      MCReadRequests, ReadRequestsProofs

FiniteInduction          induction and sums over finite sets, for the proofs
```

### The ledger

In `BankingService` a step is one call to a store or to the broker with
the code around it up to the next such call. Code between two calls touches only
local variables, with one exception: the answer to the client is written in the step of the
call it reports (`PublishPending`, `SyncRecord`). A process that dies between `handlers/trans.go` 212
and 220, or between the record and its 200, therefore counts as having answered: `accepted`
means published, and `ok` means recorded, whether or not the client heard of it. `phase[r]` is where the
handler of request `r` stands, `wphase[w]` where worker `w` stands:

| phase | code |
|---|---|
| `idle` → | `handlers/trans.go` 94–142 `ReceiveTransaction`: validation, mode selection |
| `validate` | 149–172 `ValidateAccount` |
| `create`, `publish`, `unqueued` | 174–199, 201–226, 212–217 |
| `update`, `record`, `rollback` | `services/trans.go` 117–130, 132–150, 155–161 |
| `dropped` | the process died under the handler |
| worker `load`, `update`, `complete`, `rollback`, `mark` | `services/trans.go` 180–198, 200–206, 212–228, 233–238, 204 and 239 |
| worker `ack`, `nack` | `worker/trans_worker.go` 94–95 and 108, 99 |

A request has at most two documents: `QueuedId(r)` (the pending one) and
`DirectId(r)` (written by the synchronous path under a second fresh id).
`effect[d]` and `opening[a]` are history variables: how often the update of
document `d` stands in the balance (a compensation subtracts one), and the
balance the account was opened with. No guard reads them.

Two paths of the code are absent because they cannot be reached, and the
invariant proves it: the second validation in the service
(`services/trans.go` 117 and 195) cannot refuse what passed the handler's
(`WorkIsValid`), and a withdrawal of an invalid type cannot reach the `default` of
the switch in `storage/postgres.go`. Publishing cannot fail to encode a message,
and workers never meet a malformed one, as only this service publishes.
`CreateInitialTransaction` has no caller, so an opening balance has no document;
the properties therefore start from `opening`.

**Faults.** The environment may do what the code has an error path for
(`FaultKinds` in `LedgerData`): refuse an operation (`pg`, `mongo`), let it take
effect but lose the answer (`pgCommit`, `mongoReply`), close a connection or only
its channel (`link`), lose a published message (`lost`), expire a queued one
(`expire`), kill a process (`crash`), cancel a request's context (`cancel`). A run
names the kinds that may strike (`Faults`) and how many altogether (`MaxFaults`).
`Refuses`, an overflowing column and a cancelled context are outcomes of the
code and need no fault.

**Money.** `BankingService` counts whole cents; `MaxBalance` stands for the largest
`DECIMAL(15,2)`. The code uses `float64`, and its check of two decimals
(`handlers/trans.go` 60) lets amounts pass that are up to a tenth of a cent off. `Amounts`
and `PostgresAccounts` therefore count in tenths of a cent, with a row that holds whole
cents. `WholeCents` is what joins the two: every committed update moves the row by the
whole cents of its amount, the same for a deposit and a withdrawal, so `BankingService`'s
amounts are those whole cents. Two differences remain: a balance *recorded* in the ledger is
the unrounded one, a tenth of a cent off at most (also `WholeCents`), and a withdrawal of
the whole balance plus a tenth of a cent is refused. `LedgerReconciles` and `RecordsChain` are
thus statements about whole cents: of amounts and balances on record they hold up to that
fraction.

**Messages** carry the request they were made from. The broker may
deliver ready messages in any order: requeued ones come back out of turn and
several consumers drain the queue.

### The process

`ServiceProcess` follows one life of the process, from `main`'s attempts to connect to
`os.Exit`. `stage` is the main goroutine (`main.go` 61–82, 95–118, 172, 203), `keeper` the
shutdown goroutine (172–196), `worker[w]` goroutine `w` in
`TransactionWorker.Start` (`starting`, `waiting` in the select, `empty` with an empty
delivery of a closed channel, `working`, `settling`, `done`). What `BankingService`
does in many steps with a message is the one step `Process` here; what it does in one
step, `TakeDelivery`, is two here: the broker pushes a message into the consumer's buffer
(`Push`), and the goroutine takes it (`Take`). `OneHolder` is why that may be one step
there. `added` is the wait group. `Queues` is the handlers' choice of the
path through the queue, which looks at the mode and the connection only, and `Accepts` adds the open
channel that the publication needs. `finished` and `cut` are history variables. The
databases' connections are made before and only end the process when they fail.

### Reads

`ReadRequests` is the GET requests of more than one step; they share only the
backends, so a behaviour is about one route. A backend is up, refuses (`down`) or does not
answer (`hung`), and may change between any two steps (`MaxChanges`). `Readiness` is
`ReadyCheck` with one step per check under the 10 s context; `seen` is a history variable.
`HistoryPaging` is a client that reads page after page (`VerifyAccount`, `CountDocuments`, `Find`)
while documents arrive; documents are their timestamps, and equal
timestamps come in any order. The client stops at a short page or when the total says so
(`Habits`). `shown`, `start`, `first`, `before` and `found` are there for the properties.

## Runs

| Run | Bounds | Checks |
|---|---|---|
| `Steady` | 1 instance, 2 workers, 2 requests, 2 faults of `pg link lost expire` | `TypeOK`, `LedgerReconciles`, `RecordsChain`, `StatusTellsEffect`, `RefusalHasNoEffect`, `DecisionsAreKept` |
| `Compensation` | the same with withdrawals only, 3 faults of `mongo link lost expire` | `LedgerReconciles`, `StatusTellsEffect`, `RefusalHasNoEffect`, `ForgottenMeansUnapplied`, `FinalStatusIsStable`, `DecisionsAreKept` |
| `Failover` | 2 instances with a worker each, 2 faults of `pg pgCommit mongoReply crash link cancel` | `ServiceInvariant`, `NoOverdraft`, `OkReplyIsExact`, `AcceptedStaysTracked`, `NoEffectAfterAnswer`, `AnswersAreKept` |
| `Progress` | 1 instance, fairness, 2 faults of `pg pgCommit mongoReply crash cancel` | `AcceptedIsDecided`, `HandlersEnd`, `QueueDrains` |
| `RowLock` | 3 callers on one row of 0 to 3 cents, amounts of 0.9 to 2.1 cents | `LockInvariant`, `AtomicUpdates`, `WholeCents`, `CallsReturn` |
| `Shutdown` | `MaxInt` 3, every `WORKER_COUNT` of up to 3 characters (pools of 1 to 3), 2 messages, 2 attempts to connect | `ProcessTypeOK`, `EveryCountAsTold`, `GracefulCutsNothing`, `OnlyFinishedWorkIsAcked`, `OneHolder`, `AcceptedIsStaffed`, `SignalEnds` |
| `Reads` | `MaxInt` 7, 4 documents with 3 timestamps, pages of 1 or 3, one change of a backend | `ReadsTypeOK`, `ReadyIsFounded`, `WalkIsComplete`, `RepeatsAreArrivals`, `PageFitsTotal`, `ReadyCheckEnds` |

The books agree (`Steady`, `Compensation`) only under restricted faults, because
update and record are two writes: a crash or an ambiguous answer between them
breaks `LedgerReconciles`, and `Failover` keeps what holds regardless. A balance may
differ from the log while someone stands between update and record (`Settled`).

*Bounds.* Requests interact through one account, the queue and the workers, and
two requests with two workers already give every pair of actors: handler against
worker on the same request (fallback), worker against worker on one message
(redelivery), two requests competing for one balance. Every body is tried in
either role: the bodies include an invalid request, a deposit that overflows the
column on top of the other, and a withdrawal covered or not depending on what
came before. Accounts do not influence each other, so one suffices. Two faults allow a
failure and a failure of its repair; `Compensation` allows a third to reach the
broken compensations. In `RowLock` a third caller waits behind a waiter, and the amounts lie
on both sides of a cent and, refused, in the middle of one. In `Shutdown` two workers and two messages
let one worker hold a message while another returns, and a returned worker's consumer be given
one; with ints from -4 to 3 numerals of one digit wrap to 0 (`8`) and to a small count (`9`), those
of two to a negative one (`12`). In `Reads` pages run past the end, offsets overflow, and an
arrival can fall between count and find or between two pages. No run uses symmetry.

*Violations*, each against what the documentation or the code says of itself (see `findings`):

| Run | Faults | What happens |
|---|---|---|
| `DoubleApply` | one crash | the redelivered message of a worker that died between update and status write is applied again |
| `LostRollback` | lost broker, cancelled request | the compensation runs under the cancelled context; the request fails and its update stands |
| `SpentDeposit` | lost broker, one refused insert | the deposit to be compensated has been spent; the refused compensation is ignored (`FailureIsUndone`) |
| `NotRetried` | one refused operation | the document is marked failed before the message is requeued, so the retry is a no-op |
| `DeadLetters` | one expired message | its document stays pending: the dead letter exchange is never declared |

Variants of these configurations show what else the hypotheses of the proofs keep out:

- `SpentDeposit` with `Faults = {"mongo"}`: the worker's compensation of a deposit is refused in the same
  way, and the document says failed while the deposit stands.
- `DoubleApply` with `Instances = {i1, i2}`, `Host <- TwoHosts`, `Faults = {"link"}`: without a crash, the
  worker whose connection closed and the one its message is redelivered to both find the document
  pending and apply it. With `FinalStatusIsStable` as the property: the balance refuses one of
  the two, and the later of them writes over what the other decided.

## Refinement

`LedgerContract` states what clients are promised, with the requests' outcomes and their
count in the balance as its only state besides the accounts: a balance moves
only by one whole update or reversal of a request whose outcome is still open, and certain
outcomes say how often the request stands in the balance from then on. `LedgerProperties` maps
the service to it twice, with `count` as the sum of `effect` over the request's two documents:

- `Answers` (`outcome <- reply`): only the answers bind. `AnswersAreKept` holds under every
  fault, with several instances.
- `Decisions` (`outcome <- Outcome`, an accepted request's status in place of its answer):
  `completed`, `failed` and refusals bind as well. `DecisionsAreKept` holds for one process whose
  databases answer truthfully, and where MongoDB refuses writes if the requests are withdrawals
  (proved, under hypotheses that `Steady` and `Compensation` satisfy).

`PostgresAccounts` implements `AtomicBalances` (`AtomicUpdates`): `Commit` is the instant of
the update, `InsufficientFunds` and `SelectNoRows` refuse, the rest fails, returns or
stutters. The mapping is the identity on `balance`, `call` and `answer`. This is what
entitles `AccountStorage` to make the update one step.

## Fairness

`FairSpec` of `BankingService` assumes that a handler or worker with a call to make
makes it and gets an answer (goroutines are scheduled, drivers and broker answer
or report an error), and that a process that is down is started again. The last
is an assumption about operations: `docker-compose.yml` sets no restart policy.
Faults are never fair. `WF_vars(Work(w))` covers taking a delivery: a free
consumer is offered a ready message. In `PostgresAccounts` a transaction that
waits for a row is given strong fairness, as lock waiters queue; invoking a call
and failing are not fair.

`Progress` leaves out three kinds of fault on purpose: without a broker nobody
consumes (nothing reconnects), a lost or expired message is gone, and a document
whose failure could not be recorded is acknowledged and stays pending. Under any
of them `AcceptedIsDecided` fails; `ForgottenMeansUnapplied` is what holds instead.

`ServiceProcess` assumes that the goroutines run (weakly fair), but not that work on a message
ends, nor that a signal comes. `Stop` is strongly fair: a worker that spins on a closed
channel returns to its select again and again, and a select with both branches ready
chooses at random. Of the 30 s only this is assumed: they pass for a worker that never comes
back. `Readiness` assumes that the handler runs and its 10 s timer fires; a hanging store
never answers, but its driver lets go when the context ends.

## Proofs

For every number of accounts, requests, instances, workers, callers, messages and faults,
assuming only the named assumptions on the constants (`LimitAssumption`,
`AmountsAssumption`, `BodiesAssumption`, `FaultsAssumption`, `OpeningAssumption`, `HostAssumption`,
`CallersAssumption`, `ProcessAssumption`, ...) and the hypotheses given:

**Account store** (`PostgresAccountsProofs`)
- `LockInvariantHolds`: whoever is between `SELECT ... FOR UPDATE` and `COMMIT` holds
  the row, what it read is still the committed balance (`SnapshotIsCurrent`), and
  a lock belongs to a transaction in progress on that row (`LocksAreOwned`).
- `UpdatesAreAtomic`: the refinement above, step by step under that invariant.
- `UpdatesMoveWholeCents`: from the invariant and `RoundingCommutes`, that rounding a whole balance
  plus or minus a validated amount is adding or subtracting the rounded amount.

**Service** (`BankingServiceProofs`)
- `ServiceInvariantHolds`: the inductive invariant of the service. Types and the range of
  balances are not inductive alone: that an update keeps the range needs a positive amount,
  that is, that whatever a worker has in hand was validated (`WorkIsValid`), and that needs to
  know where messages come from (`OneWayOut`: a message or an effect under the pending
  document exists only for an accepted request, and an accepted request's handler has ended).
  `DirectFollowsPhase` ties the direct document's effect to the handler's phase. The proof
  splits into a lemma per layer: the stores' operations, each action's effect on types
  (`StepSound`), then the protocol of one request (`StepOrderly`), where steps that do not concern
  a request are shown to stand aside from it.
- From it: `TypesHold`, `BalancesStayInRange`, `OkRepliesAreExact` and `AnswersAreFinal`.
- `RefusalsAreClean`: if no commit or ledger write fails and no context is cancelled
  (`NothingToUndo`), a refused request has no effect. `Steady` checks an instance of
  it; `LostRollback` and `SpentDeposit` show that the hypothesis is needed.

**Answers** (`LedgerContractProofs`)
- `ServiceKeepsAnswers`: the service implements `Answers` under every fault. Each step is shown to
  serve one request (`Serves`) or none (`Idles`).
- `AcceptedIsNeverForgotten`: if no ledger write is refused and no message lost or expired
  (`NothingLost`), an accepted request that is still pending is in the queue or in the hands of the
  worker the broker has it outstanding at. `DeadLetters` shows that the hypothesis is needed.
- `EveryCentIsAccountedFor`: under every fault a balance is its opening balance plus the updates that
  the account's documents stand for, each counted as often as `effect` says. Its invariant
  `Books` says that some finite set of documents accounts for the balance, which one more
  update or reversal preserves. The reconciliation below rests on it.

**Decisions** (`LedgerDecisionsProofs`), where all workers belong to one process (`SingleHost`),
nothing crashes, is cancelled or answered ambiguously (`Truthful`), and what must be compensated can be
(`Reversible`: if MongoDB refuses writes, PostgreSQL answers and the requests are withdrawals).
Both `Steady` and `Compensation` satisfy these hypotheses:
- `StatusesTellTheTruth`, `DecidedStaysDecided`, `ServiceKeepsDecisions` (it implements `Decisions`).
  The inductive invariant is `Settling`: `Exclusive` (a message is with one
  worker or ready; a worker that lost its channel may share its message with the queue, but then
  nobody is left to take it), `Informed` (what a worker believes of the document it works on is
  true), `Told` (what each status says) and `Books`. `Books` is needed to show that a compensation
  never meets a full column: the balance is the opening one less withdrawals that stand
  (`SumOfDebts`), so giving one back stays in range. The hypotheses are needed: `DoubleApply`
  is what a crash does, and its two-instance variant what one closed connection does with a second
  process, to which the broker redelivers the message the first still works on; `LostRollback` and
  `SpentDeposit` are what a cancelled context and a deposit do to a compensation.

**The ledger** (`LedgerBooksProofs`), under the same hypotheses:
- `LedgerIsReconciled`: while nobody stands between an update and its record, the documents that
  count in the balance are the completed ones, once each (`CompletedCount`, from `Told`), so `Books`
  becomes the reconciliation.
- `RefusalsHaveNoEffect`, compensated updates included, and `ForgottenIsUnapplied`.
- `RecordsFormChains`, where MongoDB refuses no write at all: the invariant adds to the
  completed documents the updates that are not recorded yet, with the balances their handlers
  and workers carry (`Recorded`, `Linked`). An update adds a link at the end of the chain; a
  record turns a carried link into a document's.

**Process** (`ServiceProcessProofs`), for any number of workers and messages:
- `NothingIsCutShort`, `NothingIsAckedUnread`, `DeliveriesHaveOneHolder`: the invariant follows every
  message (ready, outstanding, in a buffer, in a hand, acknowledged: `Kept`, `Outstanding`), and says that
  every goroutine that has not returned is in the wait group (`Counted`).
- `CountsComeOutAsTold`: for every string of whatever length and every `MaxInt`, `getEnvInt`
  returns the number if it fits, and never less than 1. While the value read so far fits, `Wrap` does nothing, and a
  numeral whose value fits has only prefixes that fit. From it `ProcessTypesHold`, `PoolIsAsTold` and
  `AcceptedRequestsHaveWorkers` (`Staffed`: handlers use the queue only after the whole pool was launched, also
  where a failed attempt left the connection open, and launched workers return only after a signal or without
  a channel).

**Reads** (`ReadRequestsProofs`), for any number of documents, timestamps and arrivals, pages of
any size and any width of an int:
- `ReadyAnswersAreFounded`, however often the backends change.
- `ReadsTypesHold`, `PagesFitTheirTotals`, `WalksAreComplete`, `ArrivalsCauseRepeats`. The
  timestamps own ranks one after the other (`RanksAreApart`), so a find returns as many
  documents as its window holds (`PagesAreFull`), and a document with a timestamp of its own
  stands at the place that the number of newer documents gives it (`PagesShow`). Arrivals only
  push a document back. Hence `Underway`: what was there at the start and was not shown lies
  beyond the places passed; and the documents shown again, together with the shown ones that
  were pushed back into the places ahead (`Ahead`), number no more than the arrivals. A find
  moves documents from the second kind to the first.

**Induction** (`FiniteInduction`). The library's induction theorems take an operator as a parameter, which
the installed provers cannot instantiate, so induction is by least counterexample: the set of
refuting numbers or subsets has a least element (`LeastNumber`, `LeastSet`). It gives what sums over
finite sets are worth (`SumIs`, `SumChange`, `SumOfSupport`, `SumOfDebts`, `SumRaised`), and that
a recursion over `0 .. n` defines a function (`RecursionExists`), for `parseInt`.

Every invariant and every safety property of the passing runs is thus proved, some under the hypotheses named
above. Only model-checked is liveness (`AcceptedIsDecided`, `HandlersEnd`, `QueueDrains`,
`CallsReturn`, `SignalEnds`, `ReadyCheckEnds`), which rests on fairness and is out of the prover's reach.

## Not modelled

- The lookups of an account or a transaction by identifier: single reads that turn every error
  into 404. Like the account check of the history, which is modelled, they do not tell a
  lost connection from a missing account.
- Validation of names, identifiers, content types and initial balances: each decides on one
  request without state. An initial balance with a fraction of a cent passes the same check as
  amounts do and is rounded by the column.
- The error of `float64` itself. Of a legal amount it is far below the tenth of a cent that
  `Amounts` counts in; at exactly a tenth it decides, and the model lets the amount
  pass. Of a balance it grows to a tenth of a cent only near the largest `DECIMAL(15,2)`.
- The answer to `CreateAccount` when its insert took effect but reported an error: the
  client is told of a failure, and there is an account nobody knows of.
- `UpdateBalance`, `UpdateTransactionStatus` and `GetProcessingMode`, which no path of the
  ledger uses, and `PurgeQueue`, which only tests use. Nothing reconnects to the broker, so
  neither does the model.
- PostgreSQL, MongoDB and RabbitMQ are modelled from what the code relies on. A
  commit that neither takes effect nor reports is not among the outcomes. In
  `BankingService` a call either answers or fails; stores that hang are in `ReadRequests`.
- What a worker does on a closed delivery channel is in `ServiceProcess`; in `BankingService` it
  stays idle. Either way it does nothing for the ledger.
- A retry by a client that lost its answer is a new request: there is no idempotency key.
- Settings other than `WORKER_COUNT`, which are strings for the drivers; logging; the gateway
  (a reverse proxy whose effect on the service is the `cancel` fault); deployment files, API
  description, tests and mocks.
