----------------------- MODULE PostgresAccountsProofs -----------------------
(***************************************************************************)
(* AtomicBalanceUpdate is atomic for any number of accounts and callers:   *)
(* the lock invariant is inductive, and with it every statement of the     *)
(* database transaction is a step of AtomicBalances or a stutter.          *)
(***************************************************************************)
EXTENDS PostgresAccounts, TLAPS

(* Rounding yields whole cents.                                            *)
LEMMA CentsType == \A x \in Int : Cents(x) \in Int
BY DEF Cents

(* A legal amount moves a balance of whole cents by its own whole cents,   *)
(* upwards and downwards, and rounding adds at most a tenth of a cent.     *)
LEMMA RoundingCommutes ==
  ASSUME NEW b \in Int, NEW x \in Int, x - Tenths(Cents(x)) \in -1 .. 1
  PROVE  /\ Cents(Tenths(b) + x) = b + Cents(x)
         /\ Cents(Tenths(b) - x) = b - Cents(x)
<1> DEFINE n == Cents(x)
<1>1. n \in Int /\ x - 10 * n \in -1 .. 1
  BY CentsType DEF Tenths
<1>2. (10 * b + x + 5) \div 10 = b + n /\ (10 * b - x + 5) \div 10 = b - n
  <2>. HIDE DEF n
  <2>. QED BY <1>1
<1>. QED BY <1>2 DEF Cents, Tenths

(* An update that passed both checks leaves a legal balance.               *)
LEMMA LegalBalance ==
  ASSUME NEW m \in Int, NEW k \in Calls, ~ShortOf(m, k.type, k.amount), m >= 0,
         Cents(After(m, k.type, k.amount)) <= MaxBalance
  PROVE  Cents(After(m, k.type, k.amount)) \in 0 .. MaxBalance
<1> DEFINE n == After(m, k.type, k.amount)
<1>1. n \in Nat
  BY CallersAssumption DEF ShortOf, After, Signed, Types
<1>2. Cents(n) \in Nat
  <2>. HIDE DEF n
  <2>. QED BY <1>1 DEF Cents
<1>. QED BY <1>2, LimitAssumption

(* Any balance update yields an integer.                                   *)
LEMMA UpdateType ==
  ASSUME NEW m \in Int, NEW k \in Calls
  PROVE  After(m, k.type, k.amount) \in Int
BY CallersAssumption DEF After, Signed, Types

(* The value that stands for "no call" is not a call.                      *)
LEMMA NoCallIsNoCall == NoCall \notin Calls
BY CallersAssumption DEF NoCall, Abstract!NoCall, Types

LEMMA NoAnswerType == NoAnswer \in Abstract!Answers
BY DEF NoAnswer, Abstract!NoAnswer, Abstract!Answers, Abstract!Outcomes

(* In every initial state nobody is in a transaction and no row is locked. *)
LEMMA InitLock == Init => LockInvariant
BY NoAnswerType
DEF Init, LockInvariant, TypeOK, SnapshotIsCurrent, LocksAreOwned, CallsMatchSteps,
    CallsAreValid, Steps, InTransaction

(* Leaving the function frees the row and keeps the invariant, whatever    *)
(* the answer says, if no row changed but one the caller holds.            *)
LEMMA LeaveKeepsLock ==
  ASSUME LockInvariant, NEW c \in Callers, pc[c] \notin {"idle", "return"},
         NEW out \in Abstract!Outcomes \ {"none"}, NEW prev \in Int, NEW new \in Int,
         Leave(c, out, prev, new), UNCHANGED call,
         balance' \in [Accounts -> 0 .. MaxBalance],
         \A a \in Accounts : holder[a] # c => balance'[a] = balance[a]
  PROVE  LockInvariant'
<1>1. TypeOK'
  BY CallersAssumption
  DEF LockInvariant, TypeOK, Leave, Answer, Release, Goto, Steps, Abstract!Answers
<1>2. pc'[c] = "return" /\ answer'[c] # NoAnswer
  BY DEF LockInvariant, TypeOK, Leave, Answer, Goto, NoAnswer, Abstract!NoAnswer
<1>3. \A d \in Callers : d # c => /\ pc'[d] = pc[d] /\ answer'[d] = answer[d]
                                 /\ seen'[d] = seen[d] /\ written'[d] = written[d]
  BY DEF LockInvariant, TypeOK, Leave, Answer, Goto
<1>4. \A a \in Accounts : holder'[a] = IF holder[a] = c THEN NoCaller ELSE holder[a]
  BY DEF LockInvariant, TypeOK, Leave, Release
<1>5. SnapshotIsCurrent'
  <2>. SUFFICES ASSUME NEW d \in Callers
                PROVE  /\ InTransaction(d)' => /\ Row(d)' \in Accounts
                                              /\ holder'[Row(d)'] = d
                                              /\ seen'[d] = Tenths(balance'[Row(d)'])
                       /\ pc'[d] = "commit" =>
                            /\ ~ShortOf(seen'[d], call'[d].type, call'[d].amount)
                            /\ Cents(written'[d]) <= MaxBalance
                            /\ written'[d] = NewBalance(d)'
    BY DEF SnapshotIsCurrent
  <2>1. CASE d = c
    BY <2>1, <1>2 DEF InTransaction
  <2>2. CASE d # c
    BY <2>2, <1>3, <1>4 DEF LockInvariant, SnapshotIsCurrent, InTransaction, Row, NewBalance
  <2>. QED BY <2>1, <2>2
<1>6. LocksAreOwned'
  <2>. SUFFICES ASSUME NEW a \in Accounts, holder'[a] # NoCaller
                PROVE  /\ pc'[holder'[a]] \in {"update", "commit"}
                       /\ call'[holder'[a]].account = a
    BY DEF LocksAreOwned, InTransaction, Row
  <2>1. holder'[a] = holder[a] /\ holder[a] # c /\ holder[a] \in Callers
    BY <1>4 DEF LockInvariant, TypeOK
  <2>. QED BY <2>1, <1>3 DEF LockInvariant, LocksAreOwned, InTransaction, Row
<1>7. CallsMatchSteps'
  BY <1>2, <1>3 DEF LockInvariant, TypeOK, CallsMatchSteps
<1>8. CallsAreValid'
  BY DEF LockInvariant, CallsAreValid
<1>. QED BY <1>1, <1>5, <1>6, <1>7, <1>8 DEF LockInvariant

(* The lock invariant is inductive.                                        *)
LEMMA StepLock == LockInvariant /\ [Next]_vars => LockInvariant'
<1>. SUFFICES ASSUME LockInvariant, [Next]_vars PROVE LockInvariant'
  OBVIOUS
<1>. USE DEF LockInvariant
<1>1. ASSUME NEW c \in Callers, NEW k \in Calls, Invoke(c, k) PROVE LockInvariant'
  BY <1>1, NoCallIsNoCall
  DEF Invoke, Goto, TypeOK, SnapshotIsCurrent, LocksAreOwned, CallsMatchSteps,
      CallsAreValid, InTransaction, Row, NewBalance, Steps
<1>2. ASSUME NEW c \in Callers, BeginTx(c) PROVE LockInvariant'
  BY <1>2
  DEF BeginTx, Goto, TypeOK, SnapshotIsCurrent, LocksAreOwned, CallsMatchSteps,
      CallsAreValid, InTransaction, Row, NewBalance, Steps
<1>3. ASSUME NEW c \in Callers, SelectForUpdate(c) PROVE LockInvariant'
  <2>. USE <1>3 DEF SelectForUpdate, Goto
  <2>1. TypeOK'
    <3>1. Tenths(balance[Row(c)]) \in Int
      BY DEF TypeOK, Tenths
    <3>. QED BY <3>1 DEF TypeOK, Steps
  <2>2. SnapshotIsCurrent'
    <3>. SUFFICES ASSUME NEW d \in Callers
                  PROVE  /\ InTransaction(d)' => /\ Row(d)' \in Accounts
                                                /\ holder'[Row(d)'] = d
                                                /\ seen'[d] = Tenths(balance'[Row(d)'])
                         /\ pc'[d] = "commit" =>
                              /\ ~ShortOf(seen'[d], call'[d].type, call'[d].amount)
                              /\ Cents(written'[d]) <= MaxBalance
                              /\ written'[d] = NewBalance(d)'
      BY DEF SnapshotIsCurrent
    <3>1. CASE d = c
      BY <3>1 DEF TypeOK, InTransaction, Row
    <3>2. CASE d # c
      <4>1. pc'[d] = pc[d] /\ seen'[d] = seen[d]
        BY <3>2 DEF TypeOK
      <4>2. InTransaction(d) => Row(d) # Row(c) /\ holder'[Row(d)] = d
        BY <3>2, CallersAssumption DEF TypeOK, SnapshotIsCurrent
      <4>. QED BY <4>1, <4>2 DEF SnapshotIsCurrent, InTransaction, Row, NewBalance
    <3>. QED BY <3>1, <3>2
  <2>3. LocksAreOwned'
    BY CallersAssumption DEF TypeOK, LocksAreOwned, InTransaction, Row
  <2>4. CallsMatchSteps' /\ CallsAreValid'
    BY DEF TypeOK, CallsMatchSteps, CallsAreValid
  <2>. QED BY <2>1, <2>2, <2>3, <2>4
<1>4. ASSUME NEW c \in Callers, SelectNoRows(c) PROVE LockInvariant'
  BY <1>4, LeaveKeepsLock DEF SelectNoRows, TypeOK, Abstract!Outcomes
<1>5. ASSUME NEW c \in Callers, InsufficientFunds(c) PROVE LockInvariant'
  BY <1>5, LeaveKeepsLock DEF InsufficientFunds, TypeOK, Abstract!Outcomes
<1>6. ASSUME NEW c \in Callers, UpdateRow(c) PROVE LockInvariant'
  <2>1. CASE Cents(NewBalance(c)) > MaxBalance
    BY <1>6, <2>1, LeaveKeepsLock DEF UpdateRow, TypeOK, Abstract!Outcomes
  <2>2. CASE ~(Cents(NewBalance(c)) > MaxBalance)
    <3>. USE <1>6, <2>2 DEF UpdateRow, Goto
    <3>1. call[c] \in Calls
      BY DEF TypeOK, CallsMatchSteps
    <3>2. NewBalance(c) \in Int
      BY <3>1, UpdateType DEF TypeOK, NewBalance
    <3>3. TypeOK'
      BY <3>2 DEF TypeOK, Steps
    <3>4. SnapshotIsCurrent'
      BY <3>2, CentsType, LimitAssumption
      DEF TypeOK, SnapshotIsCurrent, InTransaction, Row, NewBalance
    <3>5. LocksAreOwned' /\ CallsMatchSteps' /\ CallsAreValid'
      BY CallersAssumption
      DEF TypeOK, LocksAreOwned, CallsMatchSteps, CallsAreValid, InTransaction, Row
    <3>. QED BY <3>3, <3>4, <3>5
  <2>. QED BY <2>1, <2>2
<1>7. ASSUME NEW c \in Callers, Commit(c) PROVE LockInvariant'
  <2>. USE <1>7 DEF Commit
  <2>1. call[c] \in Calls /\ Row(c) \in Accounts /\ holder[Row(c)] = c
    BY DEF TypeOK, CallsMatchSteps, SnapshotIsCurrent, InTransaction
  <2>2. Cents(written[c]) \in 0 .. MaxBalance
    <3>1. seen[c] = Tenths(balance[Row(c)]) /\ balance[Row(c)] \in Nat
      BY <2>1 DEF TypeOK, SnapshotIsCurrent, InTransaction
    <3>2. seen[c] \in Int /\ seen[c] >= 0
      BY <3>1 DEF Tenths
    <3>. QED
      BY <2>1, <3>2, LegalBalance DEF SnapshotIsCurrent, NewBalance
  <2>3. balance' \in [Accounts -> 0 .. MaxBalance]
    BY <2>1, <2>2 DEF TypeOK
  <2>4. \A a \in Accounts : holder[a] # c => balance'[a] = balance[a]
    BY <2>1 DEF TypeOK
  <2>5. seen[c] \in Int /\ written[c] \in Int
    BY DEF TypeOK
  <2>. QED BY <2>3, <2>4, <2>5, LeaveKeepsLock DEF Abstract!Outcomes
<1>8. ASSUME NEW c \in Callers, Fail(c) PROVE LockInvariant'
  BY <1>8, LeaveKeepsLock DEF Fail, TypeOK, Abstract!Outcomes
<1>9. ASSUME NEW c \in Callers, Return(c) PROVE LockInvariant'
  BY <1>9, NoAnswerType
  DEF Return, Goto, TypeOK, SnapshotIsCurrent, LocksAreOwned, CallsMatchSteps,
      CallsAreValid, InTransaction, Row, NewBalance, Steps
<1>10. CASE UNCHANGED vars
  BY <1>10
  DEF vars, TypeOK, SnapshotIsCurrent, LocksAreOwned, CallsMatchSteps,
      CallsAreValid, InTransaction, Row, NewBalance
<1>. QED
  BY <1>1, <1>2, <1>3, <1>4, <1>5, <1>6, <1>7, <1>8, <1>9, <1>10 DEF Next, Step

(* No two transactions ever compute from the same balance of a row, and no *)
(* balance leaves the range its column can hold (AtomicBalanceUpdate).     *)
THEOREM LockInvariantHolds == Spec => []LockInvariant
BY InitLock, StepLock, PTL DEF Spec

-----------------------------------------------------------------------------

(* What a commit does to its row and what it answers, in whole cents.      *)
LEMMA CommitMovesWholeCents ==
  ASSUME LockInvariant, NEW c \in Callers, Commit(c)
  PROVE  /\ balance'[Row(c)] = balance[Row(c)] + Signed(call[c].type, Cents(call[c].amount))
         /\ written[c] - Tenths(balance'[Row(c)]) \in -1 .. 1
<1> DEFINE b == balance[Row(c)]
           x == call[c].amount
<1>1. call[c] \in Calls /\ call[c] # NoCall /\ Row(c) \in Accounts
  BY CallersAssumption
  DEF Commit, LockInvariant, TypeOK, CallsMatchSteps, SnapshotIsCurrent, InTransaction
<1>2. x \in Int /\ call[c].type \in Types /\ x - Tenths(Cents(x)) \in -1 .. 1
  BY <1>1, CallersAssumption DEF LockInvariant, CallsAreValid, validateTransactionAmount
<1>3. b \in Int /\ balance'[Row(c)] = Cents(written[c])
  BY <1>1 DEF Commit, LockInvariant, TypeOK
<1>4. written[c] = Tenths(b) + Signed(call[c].type, x)
  BY DEF Commit, LockInvariant, SnapshotIsCurrent, InTransaction, NewBalance, After
<1>. HIDE DEF b, x
<1>5. /\ Cents(Tenths(b) + x) = b + Cents(x)
      /\ Cents(Tenths(b) - x) = b - Cents(x)
  BY <1>2, <1>3, RoundingCommutes
<1>6. CASE call[c].type = "withdraw"
  <2>1. written[c] = Tenths(b) - x /\ Signed(call[c].type, Cents(x)) = -Cents(x)
    BY <1>2, <1>3, <1>4, <1>6 DEF Signed, Tenths
  <2>2. balance'[Row(c)] = b - Cents(x) /\ Cents(x) \in Int
    BY <1>2, <1>3, <1>5, <2>1, CentsType
  <2>. QED BY <1>2, <1>3, <2>1, <2>2 DEF Tenths, b, x
<1>7. CASE call[c].type # "withdraw"
  <2>1. written[c] = Tenths(b) + x /\ Signed(call[c].type, Cents(x)) = Cents(x)
    BY <1>4, <1>7 DEF Signed
  <2>2. balance'[Row(c)] = b + Cents(x) /\ Cents(x) \in Int
    BY <1>2, <1>3, <1>5, <2>1, CentsType
  <2>. QED BY <1>2, <1>3, <2>1, <2>2 DEF Tenths, b, x
<1>. QED BY <1>6, <1>7

(* However many callers compete for a row, every committed update moves it *)
(* by the whole cents of its amount (AtomicBalanceUpdate, given what       *)
(* validateTransactionAmount lets pass).                                   *)
THEOREM UpdatesMoveWholeCents == Spec => WholeCents
<1>1. LockInvariant /\ [Next]_vars =>
        [\A c \in Callers : Commit(c) =>
           /\ balance'[Row(c)] = balance[Row(c)] + Signed(call[c].type, Cents(call[c].amount))
           /\ written[c] - Tenths(balance'[Row(c)]) \in -1 .. 1]_vars
  BY CommitMovesWholeCents
<1>. QED BY <1>1, LockInvariantHolds, PTL DEF Spec, WholeCents

-----------------------------------------------------------------------------

LEMMA InitAbstract == Init => Abstract!Init
BY DEF Init, Abstract!Init, NoCall, NoAnswer

(* An answered call was open until then, as far as AtomicBalances can see. *)
LEMMA OpenUntilReturn ==
  ASSUME LockInvariant, NEW c \in Callers, pc[c] \notin {"idle", "return"}
  PROVE  Abstract!Open(c) /\ call[c] \in Calls
BY DEF LockInvariant, TypeOK, CallsMatchSteps, Abstract!Open, NoCall, NoAnswer

(* Only Commit changes balances, and it is the instant of the update; the  *)
(* early returns are refusals or failures; all else is a stutter.          *)
LEMMA StepAbstract ==
  LockInvariant /\ [Next]_vars => [Abstract!Next]_(Abstract!vars)
<1>. SUFFICES ASSUME LockInvariant, [Next]_vars
              PROVE  Abstract!Next \/ UNCHANGED Abstract!vars
  OBVIOUS
<1>. USE DEF Abstract!vars
<1>1. ASSUME NEW c \in Callers, NEW k \in Calls, Invoke(c, k) PROVE Abstract!Next
  <2>1. call[c] = Abstract!NoCall
    BY <1>1 DEF Invoke, LockInvariant, CallsMatchSteps, NoCall
  <2>. QED BY <1>1, <2>1 DEF Invoke, Abstract!Next, Abstract!Invoke
<1>2. ASSUME NEW c \in Callers, BeginTx(c) \/ SelectForUpdate(c)
      PROVE  UNCHANGED Abstract!vars
  BY <1>2 DEF BeginTx, SelectForUpdate
<1>3. ASSUME NEW c \in Callers, SelectNoRows(c) PROVE Abstract!Next
  <2>1. Abstract!Open(c)
    BY <1>3, OpenUntilReturn DEF SelectNoRows
  <2>2. Abstract!Refuse(c)
    BY <1>3, <2>1
    DEF SelectNoRows, Leave, Answer, Row, Abstract!Refuse, Abstract!Decide
  <2>. QED BY <2>2 DEF Abstract!Next
<1>4. ASSUME NEW c \in Callers, InsufficientFunds(c) PROVE Abstract!Next
  <2>1. Abstract!Open(c)
    BY <1>4, OpenUntilReturn DEF InsufficientFunds
  <2>2. seen[c] = Tenths(balance[Row(c)])
    BY <1>4 DEF InsufficientFunds, LockInvariant, SnapshotIsCurrent, InTransaction
  <2>3. Abstract!Refuse(c)
    BY <1>4, <2>1, <2>2
    DEF InsufficientFunds, Leave, Answer, Row, Abstract!Refuse, Abstract!Decide,
        ShortOf, Abstract!ShortOf, Tenths, Abstract!Tenths
  <2>. QED BY <2>3 DEF Abstract!Next
<1>5. ASSUME NEW c \in Callers, UpdateRow(c)
      PROVE  Abstract!Next \/ UNCHANGED Abstract!vars
  <2>1. CASE Cents(NewBalance(c)) > MaxBalance
    <3>1. Abstract!Open(c)
      BY <1>5, OpenUntilReturn DEF UpdateRow
    <3>2. Abstract!Fail(c)
      BY <1>5, <2>1, <3>1 DEF UpdateRow, Leave, Answer, Abstract!Fail, Abstract!Decide
    <3>. QED BY <3>2 DEF Abstract!Next
  <2>2. CASE ~(Cents(NewBalance(c)) > MaxBalance)
    BY <1>5, <2>2 DEF UpdateRow
  <2>. QED BY <2>1, <2>2
<1>6. ASSUME NEW c \in Callers, Commit(c) PROVE Abstract!Next
  <2>1. Abstract!Open(c)
    BY <1>6, OpenUntilReturn DEF Commit
  <2>2. /\ Row(c) \in Accounts /\ seen[c] = Tenths(balance[Row(c)])
        /\ ~ShortOf(seen[c], call[c].type, call[c].amount)
        /\ Cents(written[c]) <= MaxBalance
        /\ written[c] = After(seen[c], call[c].type, call[c].amount)
    BY <1>6 DEF Commit, LockInvariant, SnapshotIsCurrent, InTransaction, NewBalance
  <2>3. Abstract!Apply(c)
    BY <1>6, <2>1, <2>2
    DEF Commit, Leave, Answer, Row, Abstract!Apply, Abstract!Decide,
        ShortOf, Abstract!ShortOf, After, Abstract!After, Signed, Abstract!Signed,
        Tenths, Abstract!Tenths, Cents, Abstract!Cents
  <2>. QED BY <2>3 DEF Abstract!Next
<1>7. ASSUME NEW c \in Callers, Fail(c) PROVE Abstract!Next
  <2>1. Abstract!Open(c)
    BY <1>7, OpenUntilReturn DEF Fail
  <2>2. Abstract!Fail(c)
    BY <1>7, <2>1 DEF Fail, Leave, Answer, Abstract!Fail, Abstract!Decide
  <2>. QED BY <2>2 DEF Abstract!Next
<1>8. ASSUME NEW c \in Callers, Return(c) PROVE Abstract!Next
  <2>1. answer[c] # Abstract!NoAnswer
    BY <1>8 DEF Return, LockInvariant, CallsMatchSteps, NoAnswer
  <2>2. Abstract!Return(c)
    BY <1>8, <2>1 DEF Return, Abstract!Return, NoCall, NoAnswer
  <2>. QED BY <2>2 DEF Abstract!Next
<1>9. CASE UNCHANGED vars
  BY <1>9 DEF vars
<1>. QED
  BY <1>1, <1>2, <1>3, <1>4, <1>5, <1>6, <1>7, <1>8, <1>9 DEF Next, Step

(* AtomicBalanceUpdate, statement by statement, implements an update that  *)
(* takes effect at one instant: what BankingService assumes of it.         *)
THEOREM UpdatesAreAtomic == Spec => AtomicUpdates
<1>1. Spec => []LockInvariant
  BY LockInvariantHolds
<1>2. Init /\ []LockInvariant /\ [][Next]_vars => Abstract!Spec
  BY InitAbstract, StepAbstract, PTL DEF Abstract!Spec
<1>. QED BY <1>1, <1>2, PTL DEF Spec, AtomicUpdates

=============================================================================
