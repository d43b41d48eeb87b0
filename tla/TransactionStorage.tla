------------------------- MODULE TransactionStorage -------------------------
(***************************************************************************)
(* storage/mongodb.go: the transactions collection.  Each call is one      *)
(* single-document command, atomic in the database.                        *)
(***************************************************************************)
EXTENDS LedgerData

VARIABLE log    \* log[d]: the document whose transactionid is d

LogInit == log = [d \in TxnIds |-> NoDoc]

Found(d) == log[d].status # "none"

(* A write is acknowledged, refused without effect, or takes effect while  *)
(* its caller gets an error.  A cancelled context refuses it at once; an   *)
(* update that matches no document reports an error and changes nothing.   *)
Write(done, matched, d, doc, out) ==
  \/ /\ out = "ok"
     /\ ~done /\ matched
     /\ Calm
     /\ log' = [log EXCEPT ![d] = doc]
  \/ /\ out = "error"
     /\ \/ (done \/ ~matched) /\ Calm
        \/ Strike("mongo")
     /\ UNCHANGED log
  \/ /\ out = "error"
     /\ ~done /\ matched
     /\ Strike("mongoReply")
     /\ log' = [log EXCEPT ![d] = doc]

WriteOutcomes == {"ok", "error"}

CreateTransaction(done, d, doc, out) == Write(done, TRUE, d, doc, out)

(* Mutants of UpdateTransaction: a field is missing from $set.             *)
UpdateWithoutStatus(done, d, prev, new, out) ==
  Write(done, Found(d), d, [log[d] EXCEPT !.prev = prev, !.new = new], out)

UpdateWithoutPrevious(done, d, prev, new, out) ==
  Write(done, Found(d), d, [log[d] EXCEPT !.status = "completed", !.new = new], out)

UpdateTransaction(done, d, prev, new, out) ==
  Write(done, Found(d), d,
        [status |-> "completed", prev |-> prev, new |-> new, error |-> "none"], out)

(* Mutant of UpdateTransactionStatusWithError: two strings change places.  *)
UpdateStatusSwapped(done, d, message, out) ==
  Write(done, Found(d), d,
        [log[d] EXCEPT !.status = message, !.error = "failed"], out)

UpdateTransactionStatusWithError(done, d, message, out) ==
  Write(done, Found(d), d,
        [log[d] EXCEPT !.status = "failed", !.error = message], out)

(* A read answers with the document or with an error.                      *)
GetTransactionByID(d, out) ==
  /\ \/ out = "ok" /\ Found(d) /\ Calm
     \/ out = "error" /\ ~Found(d) /\ Calm
     \/ out = "error" /\ Strike("mongo")
  /\ UNCHANGED log

LogTypeOK == log \in [TxnIds -> Doc]

=============================================================================
