---------------------------- MODULE HistoryPaging ---------------------------
(***************************************************************************)
(* GET /accounts/:id/transactions: middleware/validation.go, the handler,  *)
(* GetTransactionHistory and GetTransactionsByAccountID, for a client that *)
(* reads the history of one account page by page while transactions        *)
(* arrive.                                                                 *)
(***************************************************************************)
EXTENDS Backends, GoIntegers, FiniteSets, Functions, Sequences

CONSTANTS
  Times,           \* timestamps of transactions, in milliseconds
  MaxDocs,         \* bounds the documents, whose number is an int64
  PageParams,      \* what clients may send: integers, Absent or Bad
  LimitParams,
  Absent, Bad,
  DefaultLimit, MaxLimit,     \* 10 and 100 in the code
  Habits           \* how clients know that a page is the last one

ASSUME HistoryAssumption ==
  /\ Times \subseteq Nat /\ MaxDocs \in 0 .. MaxInt
  /\ (PageParams \cup LimitParams) \ {Absent, Bad} \subseteq Int
  /\ MaxLimit \in Nat \ {0} /\ DefaultLimit \in 1 .. MaxLimit
  /\ Habits \subseteq {"short page", "total"}

VARIABLES
  docs,        \* the timestamps of the account's documents, as inserted
  step,        \* where the request stands
  habit,       \* of the client
  page, limit, \* of the request in progress
  total,       \* the result of the count
  answer,      \* status of the last answer
  shown,       \* shown[d]: how often document d was shown
  last,        \* the documents of the last page
  first,       \* the page the walk began with
  start,       \* documents when the walk began
  before,      \* documents when the last count was made
  found        \* documents when the last find was made

requestVars == <<step, page, limit, total, answer, last, before, found>>
walkVars    == <<habit, shown, first, start>>
historyVars == <<docs, requestVars, walkVars>>

HistoryInit ==
  /\ docs = << >> /\ step = "idle" /\ habit \in Habits
  /\ page = 1 /\ limit = DefaultLimit /\ total = 0 /\ answer = 0
  /\ shown = [d \in 1 .. MaxDocs |-> 0] /\ last = {}
  /\ first = 1 /\ start = 0 /\ before = 0 /\ found = 0

(* time.Now() is read before the document is inserted, so documents need   *)
(* not come in the order of their timestamps.                              *)
Arrive ==
  /\ Len(docs) < MaxDocs
  /\ \E t \in Times : docs' = Append(docs, t)
  /\ UNCHANGED <<requestVars, walkVars, backendVars>>

-----------------------------------------------------------------------------
(* A request                                                               *)

Given(param, default) == IF param = Absent THEN default ELSE param

(* Mutant of ValidParam: any number passes.                                *)
ValidNumber(param, top) == param # Bad

ValidParam(param, top) == param = Absent \/ (param # Bad /\ param >= 1 /\ param <= top)

(* A first request.  What passes here makes the further defaults of the    *)
(* handler and of the service idle.                                        *)
ValidatePagination(p, l) ==
  /\ step = "idle" /\ answer = 0
  /\ IF ValidParam(p, MaxInt) /\ ValidParam(l, MaxLimit)
       THEN /\ page' = Given(p, 1) /\ limit' = Given(l, DefaultLimit)
            /\ step' = "account" /\ first' = page' /\ start' = Len(docs) /\ UNCHANGED answer
       ELSE step' = "ended" /\ answer' = 400 /\ UNCHANGED <<page, limit, first, start>>
  /\ UNCHANGED <<docs, total, last, before, found, habit, shown, backendVars>>

Fails(status) ==
  /\ step' = "ended" /\ answer' = status
  /\ UNCHANGED <<docs, page, limit, total, last, before, found, walkVars, backendVars>>

(* Whatever goes wrong here becomes "account not found".                   *)
VerifyAccount ==
  /\ step = "account"
  /\ \/ "found" \in Reads("postgres", TRUE, FALSE) /\ step' = "count"
        /\ UNCHANGED <<docs, page, limit, total, answer, last, before, found, walkVars, backendVars>>
     \/ "other error" \in Reads("postgres", TRUE, FALSE) /\ Fails(404)

CountDocuments ==
  /\ step = "count"
  /\ \/ /\ "found" \in Reads("mongodb", TRUE, FALSE)
        /\ step' = "find" /\ total' = Len(docs) /\ before' = Len(docs)
        /\ UNCHANGED <<docs, page, limit, answer, last, found, walkVars, backendVars>>
     \/ "other error" \in Reads("mongodb", TRUE, FALSE) /\ Fails(500)

(* Mutant of Skip: pages are taken to start at 0.                          *)
SkipFromZero == Wrap(page * limit)

Skip == Wrap((page - 1) * limit)

(* Newest first; documents of one timestamp come in any order.             *)
Ranks(t) ==
  LET newer == Cardinality({d \in DOMAIN docs : docs[d] > t})
      same  == Cardinality({d \in DOMAIN docs : docs[d] = t})
  IN  newer + 1 .. newer + same

(* Mutant of Window: pages overlap by one document.                        *)
WindowOffByOne == Skip .. Skip + limit

Window == Skip + 1 .. Skip + limit

Slices ==
  {slice \in SUBSET DOMAIN docs :
     \A t \in {docs[d] : d \in DOMAIN docs} :
       Cardinality({d \in slice : docs[d] = t}) = Cardinality(Ranks(t) \cap Window)}

Find ==
  /\ step = "find"
  /\ \/ /\ "found" \in Reads("mongodb", TRUE, FALSE) /\ Skip >= 0
        /\ last' \in Slices
        /\ shown' = [d \in DOMAIN shown |-> IF d \in last' THEN shown[d] + 1 ELSE shown[d]]
        /\ found' = Len(docs) /\ answer' = 200 /\ step' = "read"
        /\ UNCHANGED <<docs, page, limit, total, before, habit, first, start, backendVars>>
     \/ "other error" \in Reads("mongodb", TRUE, FALSE) /\ Fails(500)
     \/ condition["mongodb"] = "up" /\ Skip < 0 /\ Fails(500)

(* No deadline here: a request waits for a store that hangs until the      *)
(* client leaves.                                                          *)
GiveUp == step \in {"account", "count", "find"} /\ Fails(499)

-----------------------------------------------------------------------------
(* The client                                                              *)

IsLast == IF habit = "total" THEN page * limit >= total ELSE Cardinality(last) < limit

NextPage ==
  /\ step = "read" /\ ~IsLast /\ page < MaxInt
  /\ page' = page + 1 /\ step' = "account"
  /\ UNCHANGED <<docs, limit, total, answer, last, before, found, walkVars, backendVars>>

Stop ==
  /\ step = "read" /\ (IsLast \/ page = MaxInt)
  /\ step' = "ended"
  /\ UNCHANGED <<docs, page, limit, total, answer, last, before, found, walkVars, backendVars>>

HistoryNext ==
  \/ Arrive \/ \E b \in Stores : Change(b) /\ UNCHANGED historyVars
  \/ \E p \in PageParams, l \in LimitParams : ValidatePagination(p, l)
  \/ VerifyAccount \/ CountDocuments \/ Find \/ GiveUp \/ NextPage \/ Stop

-----------------------------------------------------------------------------
(* What a reader of the history may rely on.  Documents that share their   *)
(* timestamp with another one may change places between any two reads, so  *)
(* these speak of the others.                                              *)

Unique == {d \in DOMAIN docs : \A e \in DOMAIN docs \ {d} : docs[d] # docs[e]}

(* Who reads the pages from the first to a short one sees every document   *)
(* that was there at the start, whatever arrives meanwhile.  Who stops     *)
(* when the total says so may miss as many as arrived between the count    *)
(* and the find of the last page.                                          *)
WalkIsComplete ==
  step = "ended" /\ answer = 200 /\ first = 1 =>
    Cardinality({d \in Unique \cap 1 .. start : shown[d] = 0})
      <= IF habit = "total" THEN found - before ELSE 0

Again == [d \in 1 .. MaxDocs |-> shown[d] - 1]

(* A document is shown again only because others arrived.                  *)
RepeatsAreArrivals ==
  first = 1 => SumFunctionOnSet(Again, {d \in Unique : shown[d] > 0})
                 <= IF found > start THEN found - start ELSE 0

(* The page of an answer is as long as its total says, give or take what   *)
(* arrived between the two reads, unless its offset exceeds an int.        *)
PageFitsTotal ==
  LET offset == (page - 1) * limit
      Length(n) == IF n <= offset THEN 0 ELSE IF n - offset < limit THEN n - offset ELSE limit
  IN  step = "read" /\ offset <= MaxInt =>
        Cardinality(last) \in Length(total) .. Length(total + found - before)

=============================================================================
