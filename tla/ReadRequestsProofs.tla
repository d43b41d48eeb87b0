------------------------- MODULE ReadRequestsProofs -------------------------
(***************************************************************************)
(* GET /ready, however often the backends change and whatever the clients  *)
(* of the history do; and the history, read page by page, however many     *)
(* documents arrive meanwhile.                                             *)
(***************************************************************************)
EXTENDS ReadRequests, FiniteInduction

Verdicts == {"connected", "disconnected"}

(* What a check found is still borne out by what was seen.                 *)
Founded(s) ==
  /\ check # "idle" => condition[s] \in seen[s]
  /\ report[s] = "connected" => "up" \in seen[s]
  /\ report[s] = "disconnected" => late \/ (seen[s] # {"up"} /\ seen[s] # {})

Inv ==
  /\ condition \in [Backends -> Conditions]
  /\ report \in [Backends -> Verdicts \cup {"none"}]
  /\ \A s \in Stores : Founded(s)
  /\ check \notin {"idle", "postgres"} => report["postgres"] \in Verdicts
  /\ check \in {"rabbitmq", "reply"} => report["mongodb"] \in Verdicts
  /\ ReadyIsFounded

(* The readers of the history leave GET /ready alone.                      *)
Aside == route # "/ready" => check = "idle"

LEMMA InitInv == Init => Inv
<1>. SUFFICES ASSUME Init PROVE Inv
  OBVIOUS
<1>1. condition \in [Backends -> Conditions]
  BY DEF Init, Conditions
<1>. QED
  BY <1>1 DEF Init, ReadinessInit, Inv, Founded, ReadyIsFounded, Backends, Stores

(* A read that finds the store in order finds it up.                       *)
LEMMA Truthful ==
  ASSUME NEW s \in Stores, NEW result \in Reads(s, FALSE, late)
  PROVE  /\ Status(result) \in Verdicts
         /\ Status(result) = "connected" => condition[s] = "up"
         /\ Status(result) = "disconnected" => late \/ condition[s] # "up"
BY DEF Reads, Status, Verdicts

LEMMA CheckStep ==
  ASSUME Inv, NEW s \in Stores, NEW result \in Reads(s, FALSE, late), NEW next,
         check = s,
         \/ s = "postgres" /\ next = "mongodb"
         \/ s = "mongodb" /\ next = "rabbitmq",
         Record(s, Status(result), next)
  PROVE  Inv'
<1>1. /\ report' = [report EXCEPT ![s] = Status(result)] /\ check' = next
      /\ UNCHANGED <<late, ready, seen, condition>>
  BY DEF Record, backendVars
<1>2. Status(result) \in Verdicts
  BY Truthful
<1>3. ASSUME NEW t \in Stores PROVE Founded(t)'
  <2>1. CASE t = s
    <3>1. report'[s] = Status(result) /\ condition[s] \in seen[s]
      BY <1>1 DEF Inv, Founded, Stores, Backends
    <3>. QED BY <1>1, <2>1, <3>1, Truthful DEF Founded
  <2>2. CASE t # s
    BY <1>1, <2>2 DEF Inv, Founded, Stores, Backends
  <2>. QED BY <2>1, <2>2
<1>4. ReadyIsFounded'
  BY <1>1 DEF Inv, ReadyIsFounded
<1>. QED BY <1>1, <1>2, <1>3, <1>4 DEF Inv, Stores, Backends

LEMMA DisturbStep == ASSUME Inv, Disturb PROVE Inv'
<1>1. PICK b \in Backends : Change(b)
  BY DEF Disturb
<1>2. /\ condition' \in [Backends -> Conditions]
      /\ UNCHANGED <<check, late, report, ready>>
  BY <1>1 DEF Disturb, Change, Inv
<1>3. CASE check = "idle"
  BY <1>2, <1>3 DEF Disturb, Inv, Founded, ReadyIsFounded
<1>4. CASE check # "idle"
  <2>1. \A c \in Backends : seen'[c] = seen[c] \cup {condition'[c]}
    BY <1>4 DEF Disturb, Seen
  <2>2. \A s \in Stores : Founded(s)'
    BY <1>2, <1>4, <2>1 DEF Inv, Founded, Stores, Backends
  <2>3. ReadyIsFounded'
    BY <1>2, <1>4, <2>1 DEF Inv, Founded, ReadyIsFounded, Stores, Backends
  <2>. QED BY <1>2, <2>2, <2>3 DEF Inv
<1>. QED BY <1>3, <1>4

LEMMA HistoryStep ==
  ASSUME condition \in [Backends -> Conditions], HistoryNext \/ Ended
  PROVE  condition' \in [Backends -> Conditions]
<1>1. ASSUME NEW b \in Stores, Change(b) PROVE condition' \in [Backends -> Conditions]
  BY <1>1 DEF Change
<1>2. ASSUME UNCHANGED backendVars PROVE condition' \in [Backends -> Conditions]
  BY <1>2 DEF backendVars
<1>. QED
  BY <1>1, <1>2 DEF HistoryNext, Ended, Arrive, ValidatePagination, VerifyAccount,
                    CountDocuments, Find, GiveUp, NextPage, Stop, Fails

LEMMA ReadinessStep == ASSUME Inv, ReadinessNext PROVE Inv'
<1>1. CASE ReadyCheck
  <2>1. /\ check' = "postgres" /\ late' = FALSE /\ ready' = "none"
        /\ report' = [b \in Backends |-> "none"]
        /\ seen' = [b \in Backends |-> {condition[b]}] /\ condition' = condition
    BY <1>1 DEF ReadyCheck, backendVars
  <2>. QED BY <2>1 DEF Inv, Founded, ReadyIsFounded, Stores, Backends
<1>2. CASE checkPostgresConnection \/ checkMongoConnection
  BY <1>2, CheckStep
  DEF checkPostgresConnection, checkMongoConnection, GetAccountByID, GetTransactionByID, Stores
<1>3. CASE checkRabbitMQConnection
  <2>1. /\ check = "rabbitmq" /\ check' = "reply"
        /\ \/ report' = [report EXCEPT !["rabbitmq"] = "connected"]
           \/ report' = [report EXCEPT !["rabbitmq"] = "disconnected"]
        /\ UNCHANGED <<late, ready, seen, condition>>
    BY <1>3 DEF checkRabbitMQConnection, Record, backendVars
  <2>. QED
    BY <2>1 DEF Inv, Founded, ReadyIsFounded, Stores, Backends, Verdicts
<1>4. CASE ReadyReply
  <2>1. /\ check = "reply" /\ check' = "idle" /\ UNCHANGED <<late, report, seen, condition>>
        /\ ready' = IF allHealthy THEN "ready" ELSE "not_ready"
    BY <1>4 DEF ReadyReply, backendVars
  <2>2. ReadyIsFounded'
    BY <2>1 DEF Inv, Founded, ReadyIsFounded, allHealthy, Stores, Verdicts
  <2>. QED BY <2>1, <2>2 DEF Inv, Founded
<1>5. CASE Expire
  BY <1>5 DEF Expire, backendVars, Inv, Founded, ReadyIsFounded
<1>6. CASE Disturb
  BY <1>6, DisturbStep
<1>. QED BY <1>1, <1>2, <1>3, <1>4, <1>5, <1>6 DEF ReadinessNext, Probe

LEMMA StepInv == Inv /\ Aside /\ [Next]_vars => Inv' /\ Aside'
<1>. SUFFICES ASSUME Inv, Aside, [Next]_vars PROVE Inv' /\ Aside'
  OBVIOUS
<1>1. CASE UNCHANGED vars
  BY <1>1 DEF vars, backendVars, readinessVars, Inv, Aside, Founded, ReadyIsFounded
<1>2. CASE route = "/ready" /\ route' = route /\ ReadinessNext
  BY <1>2, ReadinessStep DEF Aside
<1>3. CASE /\ route # "/ready" /\ route' = route /\ UNCHANGED readinessVars
           /\ HistoryNext \/ Ended
  <2>1. condition' \in [Backends -> Conditions]
    BY <1>3, HistoryStep DEF Inv
  <2>. QED
    BY <1>3, <2>1 DEF readinessVars, Inv, Aside, Founded, ReadyIsFounded
<1>. QED BY <1>1, <1>2, <1>3 DEF Next

(* However often the stores change while they are asked one after the      *)
(* other: whoever is told "ready" was told so by stores that were up.      *)
THEOREM ReadyAnswersAreFounded == Spec => []ReadyIsFounded
<1>1. Init => Aside
  BY DEF Init, ReadinessInit, Aside
<1>2. Inv => ReadyIsFounded
  BY DEF Inv
<1>. QED BY <1>1, <1>2, InitInv, StepInv, PTL DEF Spec

-----------------------------------------------------------------------------
(* Documents and their places in the order                                 *)

Newer(d) == {e \in DOMAIN docs : docs[e] > docs[d]}

Stamps == {docs[d] : d \in DOMAIN docs}

LEMMA DocsAreFinite ==
  ASSUME docs \in Seq(Times)
  PROVE  /\ DOMAIN docs = 1 .. Len(docs) /\ Len(docs) \in Nat
         /\ IsFiniteSet(DOMAIN docs) /\ Cardinality(DOMAIN docs) = Len(docs)
         /\ \A d \in DOMAIN docs : docs[d] \in Times /\ docs[d] \in Nat
         /\ \A S \in SUBSET DOMAIN docs : IsFiniteSet(S) /\ Cardinality(S) \in 0 .. Len(docs)
<1>1. DOMAIN docs = 1 .. Len(docs) /\ Len(docs) \in Nat
  OBVIOUS
<1>2. \A d \in DOMAIN docs : docs[d] \in Times /\ docs[d] \in Nat
  <2>1. \A d \in DOMAIN docs : docs[d] \in Times
    OBVIOUS
  <2>. QED BY <2>1, HistoryAssumption
<1>3. IsFiniteSet(DOMAIN docs) /\ Cardinality(DOMAIN docs) = Len(docs)
  BY <1>1, FS_Interval
<1>4. ASSUME NEW S \in SUBSET DOMAIN docs
      PROVE  IsFiniteSet(S) /\ Cardinality(S) \in 0 .. Len(docs)
  BY <1>1, <1>3, FS_Subset, FS_CardinalityType
<1>. QED BY <1>1, <1>2, <1>3, <1>4

LEMMA StampsAreFinite ==
  ASSUME docs \in Seq(Times)
  PROVE  IsFiniteSet(Stamps)
<1>1. docs \in Surjection(DOMAIN docs, Stamps)
  BY DEF Surjection, Stamps
<1>. QED BY <1>1, DocsAreFinite, FS_Surjection

(* Two sets of documents that have none in common.                         *)
LEMMA Disjoint ==
  ASSUME NEW S, IsFiniteSet(S), NEW T, IsFiniteSet(T), S \cap T = {}
  PROVE  Cardinality(S \cup T) = Cardinality(S) + Cardinality(T)
<1>1. Cardinality(S \cap T) = 0
  BY FS_EmptySet
<1>2. Cardinality(S) \in Nat /\ Cardinality(T) \in Nat
  BY FS_CardinalityType
<1>3. Cardinality(S \cup T) = Cardinality(S) + Cardinality(T) - Cardinality(S \cap T)
  BY FS_Union
<1>. QED BY <1>1, <1>2, <1>3

(* Timestamps have their ranks one after the other.                        *)
LEMMA RanksAreApart ==
  ASSUME docs \in Seq(Times), NEW t \in Nat, NEW u \in Nat, t < u
  PROVE  \A r \in Ranks(t), q \in Ranks(u) : q < r
<1>. DEFINE newer(v) == {d \in DOMAIN docs : docs[d] > v}
            same(v)  == {d \in DOMAIN docs : docs[d] = v}
<1>1. \A v \in Nat : newer(v) \in SUBSET DOMAIN docs /\ same(v) \in SUBSET DOMAIN docs
  OBVIOUS
<1>2. newer(u) \cap same(u) = {} /\ newer(u) \cup same(u) \subseteq newer(t)
  BY DocsAreFinite
<1>3. Cardinality(newer(u) \cup same(u)) = Cardinality(newer(u)) + Cardinality(same(u))
  <2>. HIDE DEF newer, same
  <2>. QED BY <1>1, <1>2, DocsAreFinite, Disjoint
<1>4. Cardinality(newer(u) \cup same(u)) <= Cardinality(newer(t))
  <2>. HIDE DEF newer, same
  <2>. QED BY <1>1, <1>2, DocsAreFinite, FS_Subset
<1>5. Cardinality(newer(t)) \in Nat /\ Cardinality(newer(u)) \in Nat
      /\ Cardinality(same(t)) \in Nat /\ Cardinality(same(u)) \in Nat
  <2>. HIDE DEF newer, same
  <2>. QED BY <1>1, DocsAreFinite
<1>6. /\ Ranks(t) = Cardinality(newer(t)) + 1 .. Cardinality(newer(t)) + Cardinality(same(t))
      /\ Ranks(u) = Cardinality(newer(u)) + 1 .. Cardinality(newer(u)) + Cardinality(same(u))
  BY DEF Ranks
<1>. HIDE DEF newer, same
<1>. QED BY <1>3, <1>4, <1>5, <1>6

(* There are as many ranks as documents of a timestamp.                    *)
LEMMA RanksCount ==
  ASSUME docs \in Seq(Times), NEW t \in Nat
  PROVE  /\ Ranks(t) \subseteq 1 .. Len(docs) /\ IsFiniteSet(Ranks(t))
         /\ Cardinality(Ranks(t)) = Cardinality({d \in DOMAIN docs : docs[d] = t})
<1>. DEFINE newer == {d \in DOMAIN docs : docs[d] > t}
            same  == {d \in DOMAIN docs : docs[d] = t}
<1>1. /\ newer \in SUBSET DOMAIN docs /\ same \in SUBSET DOMAIN docs
      /\ newer \cup same \in SUBSET DOMAIN docs /\ newer \cap same = {}
  BY DocsAreFinite
<1>2. Ranks(t) = Cardinality(newer) + 1 .. Cardinality(newer) + Cardinality(same)
  BY DEF Ranks
<1>3. Cardinality(newer \cup same) = Cardinality(newer) + Cardinality(same)
  <2>. HIDE DEF newer, same
  <2>. QED BY <1>1, DocsAreFinite, Disjoint
<1>4. /\ Cardinality(newer) \in Nat /\ Cardinality(same) \in Nat
      /\ Cardinality(newer \cup same) <= Len(docs) /\ Len(docs) \in Nat
  <2>. HIDE DEF newer, same
  <2>. QED BY <1>1, DocsAreFinite
<1>5. Ranks(t) \subseteq 1 .. Len(docs)
  <2>. HIDE DEF newer, same
  <2>. QED BY <1>2, <1>3, <1>4
<1>6. IsFiniteSet(Ranks(t)) /\ Cardinality(Ranks(t)) = Cardinality(same)
  <2>. DEFINE a == Cardinality(newer) + 1
              b == Cardinality(newer) + Cardinality(same)
  <2>1. a \in Int /\ b \in Int /\ (IF a > b THEN 0 ELSE b - a + 1) = Cardinality(same)
    <3>. HIDE DEF newer, same
    <3>. QED BY <1>4
  <2>2. IsFiniteSet(a .. b) /\ Cardinality(a .. b) = IF a > b THEN 0 ELSE b - a + 1
    <3>. HIDE DEF a, b
    <3>. QED BY <2>1, FS_Interval
  <2>. QED BY <1>2, <2>1, <2>2
<1>. QED BY <1>5, <1>6

(* A slice that has as many documents of each timestamp as places in W     *)
(* belong to it has as many documents as W has places.                     *)
LEMMA SlicesCount ==
  ASSUME docs \in Seq(Times), NEW slice, slice \subseteq DOMAIN docs, NEW W,
         \A t \in Stamps : Cardinality({d \in slice : docs[d] = t}) = Cardinality(Ranks(t) \cap W)
  PROVE  Cardinality(slice) = Cardinality((UNION {Ranks(t) : t \in Stamps}) \cap W)
<1>. DEFINE Docs(C)   == {d \in slice : docs[d] \in C}
            Places(C) == (UNION {Ranks(t) : t \in C}) \cap W
            Odd == {C \in SUBSET Stamps : Cardinality(Docs(C)) # Cardinality(Places(C))}
<1>. SUFFICES ASSUME Odd # {} PROVE FALSE
  <2>1. Docs(Stamps) = slice /\ Stamps \in SUBSET Stamps
    BY DEF Stamps
  <2>. QED BY <2>1
<1>1. PICK C \in Odd : \A B \in Odd : B \subseteq C => B = C
  <2>1. Odd \subseteq SUBSET Stamps
    OBVIOUS
  <2>. HIDE DEF Odd
  <2>. QED BY <2>1, StampsAreFinite, LeastSet
<1>2. C \subseteq Stamps /\ Stamps \subseteq Nat
  BY DocsAreFinite DEF Stamps
<1>3. C # {}
  <2>. SUFFICES ASSUME C = {} PROVE FALSE
    OBVIOUS
  <2>1. Docs(C) = {} /\ Places(C) = {}
    OBVIOUS
  <2>. QED BY <1>1, <2>1
<1>4. PICK t : t \in C
  BY <1>3
<1>. DEFINE B == C \ {t}
            own == {d \in slice : docs[d] = t}
<1>5. Cardinality(Docs(B)) = Cardinality(Places(B))
  <2>1. B \in SUBSET Stamps /\ B \subseteq C /\ B # C
    BY <1>2, <1>4
  <2>. HIDE DEF B, Docs, Places
  <2>. QED BY <1>1, <2>1
<1>6. Docs(C) = Docs(B) \cup own /\ Docs(B) \cap own = {}
  BY <1>4
<1>7. Places(C) = Places(B) \cup (Ranks(t) \cap W)
  BY <1>4
<1>8. Places(B) \cap (Ranks(t) \cap W) = {}
  <2>. SUFFICES ASSUME NEW r \in Ranks(t), NEW u \in B, r \in Ranks(u) PROVE FALSE
    OBVIOUS
  <2>1. t \in Nat /\ u \in Nat /\ t # u
    BY <1>2, <1>4
  <2>2. r \in Nat
    <3>1. Ranks(t) \subseteq 1 .. Len(docs) /\ Len(docs) \in Nat
      BY <2>1, RanksCount, DocsAreFinite
    <3>. QED BY <3>1
  <2>3. CASE t < u
    BY <2>1, <2>2, <2>3, RanksAreApart
  <2>4. CASE u < t
    BY <2>1, <2>2, <2>4, RanksAreApart
  <2>. QED BY <2>1, <2>3, <2>4
<1>9. IsFiniteSet(Docs(B)) /\ IsFiniteSet(own)
  <2>1. Docs(B) \in SUBSET DOMAIN docs /\ own \in SUBSET DOMAIN docs
    OBVIOUS
  <2>. HIDE DEF Docs, own
  <2>. QED BY <2>1, DocsAreFinite
<1>10. IsFiniteSet(Places(B)) /\ IsFiniteSet(Ranks(t) \cap W)
  <2>1. Places(B) \subseteq 1 .. Len(docs) /\ Ranks(t) \cap W \subseteq 1 .. Len(docs)
    BY <1>2, <1>4, RanksCount
  <2>2. IsFiniteSet(1 .. Len(docs))
    BY DocsAreFinite
  <2>. HIDE DEF Places
  <2>. QED BY <2>1, <2>2, FS_Subset
<1>11. Cardinality(own) = Cardinality(Ranks(t) \cap W)
  BY <1>2, <1>4
<1>12. Cardinality(Docs(C)) = Cardinality(Places(C))
  <2>. HIDE DEF Docs, Places, own, B
  <2>1. Cardinality(Docs(C)) = Cardinality(Docs(B)) + Cardinality(own)
    BY <1>6, <1>9, Disjoint
  <2>2. Cardinality(Places(C)) = Cardinality(Places(B)) + Cardinality(Ranks(t) \cap W)
    BY <1>7, <1>8, <1>10, Disjoint
  <2>. QED BY <1>5, <1>11, <2>1, <2>2
<1>. QED BY <1>12

(* Every place belongs to a timestamp.                                     *)
LEMMA PlacesAreTaken ==
  ASSUME docs \in Seq(Times)
  PROVE  UNION {Ranks(t) : t \in Stamps} = 1 .. Len(docs)
<1>. DEFINE All == UNION {Ranks(t) : t \in Stamps}
<1>1. All \subseteq 1 .. Len(docs) /\ Stamps \subseteq Nat
  <2>1. Stamps \subseteq Nat
    BY DocsAreFinite DEF Stamps
  <2>2. \A t \in Stamps : Ranks(t) \subseteq 1 .. Len(docs)
    BY <2>1, RanksCount
  <2>. QED BY <2>1, <2>2
<1>2. ASSUME NEW t \in Stamps
      PROVE  Cardinality({d \in DOMAIN docs : docs[d] = t})
               = Cardinality(Ranks(t) \cap 1 .. Len(docs))
  <2>1. Ranks(t) \cap 1 .. Len(docs) = Ranks(t)
    BY <1>1, RanksCount
  <2>. QED BY <1>1, <2>1, RanksCount
<1>3. Cardinality(DOMAIN docs) = Cardinality(All \cap 1 .. Len(docs))
  BY <1>2, SlicesCount
<1>4. All \cap 1 .. Len(docs) = All
  BY <1>1
<1>. HIDE DEF All
<1>5. All = 1 .. Len(docs)
  BY <1>1, <1>3, <1>4, DocsAreFinite, FS_Subset
<1>. QED BY <1>5 DEF All

-----------------------------------------------------------------------------
(* Pages                                                                   *)

Offset == (page - 1) * limit

(* The documents of a page when there are n in all.                        *)
Shows(n) == IF n <= Offset THEN 0 ELSE IF n - Offset < limit THEN n - Offset ELSE limit

LEMMA NextOffset ==
  ASSUME NEW p \in Nat \ {0}, NEW l \in Nat
  PROVE  (p - 1) * l \in Nat /\ p * l \in Nat /\ p * l = (p - 1) * l + l
<1>1. PICK q \in Nat : p = q + 1
  <2>1. p - 1 \in Nat /\ p = (p - 1) + 1
    OBVIOUS
  <2>. QED BY <2>1
<1>2. (q + 1) * l = q * l + l /\ q * l \in Nat
  OBVIOUS
<1>. QED BY <1>1, <1>2

LEMMA WrapIdle == \A n \in 0 .. MaxInt : Wrap(n) = n
BY IntAssumption DEF Wrap

LEMMA SkipIsOffset ==
  ASSUME page \in Nat \ {0}, limit \in Nat, Offset <= MaxInt
  PROVE  Skip = Offset
<1>1. Offset \in 0 .. MaxInt
  BY NextOffset, IntAssumption DEF Offset
<1>. QED BY <1>1, WrapIdle DEF Skip, Offset

(* A page is filled with as many documents as there are.                   *)
LEMMA PagesAreFull ==
  ASSUME docs \in Seq(Times), page \in Nat \ {0}, limit \in Nat, Offset <= MaxInt,
         NEW slice \in Slices
  PROVE  Cardinality(slice) = Shows(Len(docs))
<1>1. slice \subseteq DOMAIN docs
  BY DEF Slices
<1>2. \A t \in Stamps : Cardinality({d \in slice : docs[d] = t}) = Cardinality(Ranks(t) \cap Window)
  BY DEF Slices, Stamps
<1>3. Cardinality(slice) = Cardinality((1 .. Len(docs)) \cap Window)
  BY <1>1, <1>2, SlicesCount, PlacesAreTaken
<1>. DEFINE n == Len(docs)
            b == IF n < Offset + limit THEN n ELSE Offset + limit
<1>4. n \in Nat /\ Offset \in Nat /\ limit \in Nat
  BY DocsAreFinite, NextOffset DEF Offset
<1>5. Window = Offset + 1 .. Offset + limit
  BY SkipIsOffset DEF Window
<1>. HIDE DEF n
<1>6. (1 .. n) \cap (Offset + 1 .. Offset + limit) = Offset + 1 .. b
  BY <1>4
<1>7. Cardinality(Offset + 1 .. b) = IF Offset + 1 > b THEN 0 ELSE b - (Offset + 1) + 1
  <2>1. Offset + 1 \in Int /\ b \in Int
    BY <1>4
  <2>. HIDE DEF b
  <2>. QED BY <2>1, FS_Interval
<1>8. (IF Offset + 1 > b THEN 0 ELSE b - (Offset + 1) + 1) = Shows(n)
  BY <1>4 DEF Shows
<1>. QED BY <1>3, <1>5, <1>6, <1>7, <1>8 DEF n

-----------------------------------------------------------------------------
(* Documents with a timestamp of their own                                 *)

LEMMA UniqueDocs == Unique \subseteq DOMAIN docs
BY DEF Unique

LEMMA NewerCount ==
  ASSUME docs \in Seq(Times), NEW d \in DOMAIN docs
  PROVE  /\ Newer(d) \in SUBSET DOMAIN docs /\ IsFiniteSet(Newer(d))
         /\ Cardinality(Newer(d)) \in 0 .. Len(docs) - 1
<1>1. Newer(d) \in SUBSET DOMAIN docs /\ d \notin Newer(d)
  BY DocsAreFinite DEF Newer
<1>2. IsFiniteSet(Newer(d)) /\ Cardinality(Newer(d)) \in 0 .. Len(docs)
  BY <1>1, DocsAreFinite
<1>3. Cardinality(Newer(d)) # Len(docs)
  BY <1>1, DocsAreFinite, FS_Subset
<1>. QED BY <1>1, <1>2, <1>3, DocsAreFinite

(* They have a place each.                                                 *)
LEMMA PlacesDiffer ==
  ASSUME docs \in Seq(Times), NEW d \in Unique, NEW e \in DOMAIN docs, d # e
  PROVE  Cardinality(Newer(d)) # Cardinality(Newer(e))
<1>1. d \in DOMAIN docs /\ docs[d] # docs[e] /\ docs[d] \in Nat /\ docs[e] \in Nat
  BY DocsAreFinite DEF Unique
<1>2. ASSUME NEW a \in DOMAIN docs, NEW b \in DOMAIN docs, docs[a] < docs[b]
      PROVE  Cardinality(Newer(a)) # Cardinality(Newer(b))
  <2>1. Newer(b) \subseteq Newer(a) /\ b \in Newer(a) /\ b \notin Newer(b)
    BY <1>2, DocsAreFinite DEF Newer
  <2>. QED BY <2>1, NewerCount, FS_Subset
<1>3. docs[d] < docs[e] \/ docs[e] < docs[d]
  BY <1>1
<1>. QED BY <1>1, <1>2, <1>3

(* They are on the page that their place belongs to.                       *)
LEMMA PagesShow ==
  ASSUME docs \in Seq(Times), page \in Nat \ {0}, limit \in Nat, Offset <= MaxInt,
         NEW slice \in Slices, NEW d \in Unique
  PROVE  d \in slice <=> /\ Offset <= Cardinality(Newer(d))
                         /\ Cardinality(Newer(d)) < Offset + limit
<1>. DEFINE n == Cardinality(Newer(d))
            t == docs[d]
<1>1. d \in DOMAIN docs /\ t \in Nat /\ slice \subseteq DOMAIN docs
  BY DocsAreFinite DEF Unique, Slices
<1>2. n \in Nat /\ Offset \in Nat
  BY <1>1, NewerCount, DocsAreFinite, NextOffset DEF Offset
<1>3. {e \in DOMAIN docs : docs[e] = t} = {d}
  BY <1>1 DEF Unique
<1>4. Ranks(t) = n + 1 .. n + 1
  <2>1. Cardinality({e \in DOMAIN docs : docs[e] = t}) = 1
    BY <1>3, FS_Singleton
  <2>. QED BY <2>1 DEF Ranks, Newer
<1>5. Ranks(t) = {n + 1}
  <2>. HIDE DEF n, t
  <2>. QED BY <1>2, <1>4
<1>6. Cardinality({e \in slice : docs[e] = t}) = Cardinality({n + 1} \cap Window)
  BY <1>1, <1>5 DEF Slices
<1>7. {e \in slice : docs[e] = t} = IF d \in slice THEN {d} ELSE {}
  BY <1>1, <1>3
<1>8. {n + 1} \cap Window = IF n + 1 \in Window THEN {n + 1} ELSE {}
  OBVIOUS
<1>9. d \in slice <=> n + 1 \in Window
  <2>. HIDE DEF n, t
  <2>. QED BY <1>6, <1>7, <1>8, FS_EmptySet, FS_Singleton
<1>10. Window = Offset + 1 .. Offset + limit
  BY SkipIsOffset DEF Window
<1>. HIDE DEF n
<1>11. n + 1 \in Window <=> Offset <= n /\ n < Offset + limit
  BY <1>2, <1>10
<1>. QED BY <1>9, <1>11 DEF n

-----------------------------------------------------------------------------
(* Types                                                                   *)

ReadinessTyped ==
  /\ condition \in [Backends -> Conditions] /\ changes \in 0 .. MaxChanges
  /\ check \in {"idle", "postgres", "mongodb", "rabbitmq", "reply"} /\ late \in BOOLEAN
  /\ report \in [Backends -> {"none", "connected", "disconnected"}]
  /\ ready \in {"none", "ready", "not_ready"} /\ seen \in [Backends -> SUBSET Conditions]

HistoryTyped ==
  /\ docs \in Seq(Times) /\ Len(docs) <= MaxDocs
  /\ step \in {"idle", "account", "count", "find", "read", "ended"}
  /\ page \in 1 .. MaxInt /\ first \in 1 .. MaxInt /\ limit \in 1 .. MaxLimit
  /\ answer \in {0, 200, 400, 404, 499, 500} /\ last \subseteq DOMAIN docs
  /\ shown \in [1 .. MaxDocs -> Nat] /\ {total, start, before, found} \subseteq 0 .. MaxDocs

LEMMA Bounds ==
  /\ MaxInt \in Nat \ {0} /\ MaxDocs \in Nat /\ MaxDocs <= MaxInt
  /\ MaxLimit \in Nat \ {0} /\ DefaultLimit \in 1 .. MaxLimit
<1>1. MaxDocs \in 0 .. MaxInt /\ MaxLimit \in Nat \ {0} /\ DefaultLimit \in 1 .. MaxLimit
  BY HistoryAssumption
<1>. QED BY <1>1, IntAssumption

LEMMA TypesAreTwo == ReadsTypeOK <=> ReadinessTyped /\ HistoryTyped
BY DEF ReadsTypeOK, ReadinessTyped, HistoryTyped

LEMMA InitReadinessTyped == Init => ReadinessTyped
<1>. SUFFICES ASSUME Init PROVE ReadinessTyped
  OBVIOUS
<1>1. condition \in [Backends -> Conditions] /\ changes = 0 /\ 0 \in 0 .. MaxChanges
  BY ChangesAssumption DEF Init, Conditions
<1>2. /\ check = "idle" /\ late = FALSE /\ ready = "none"
      /\ report = [b \in Backends |-> "none"] /\ seen = [b \in Backends |-> {}]
  BY DEF Init, ReadinessInit
<1>. QED BY <1>1, <1>2 DEF ReadinessTyped

LEMMA InitHistoryTyped == Init => HistoryTyped
<1>. SUFFICES ASSUME HistoryInit PROVE HistoryTyped
  BY DEF Init
<1>. USE DEF HistoryInit
<1>1. docs \in Seq(Times) /\ Len(docs) = 0
  OBVIOUS
<1>2. page \in 1 .. MaxInt /\ first \in 1 .. MaxInt /\ limit \in 1 .. MaxLimit
  BY Bounds
<1>3. {total, start, before, found} \subseteq 0 .. MaxDocs /\ 0 <= MaxDocs
  BY Bounds
<1>4. shown \in [1 .. MaxDocs -> Nat]
  OBVIOUS
<1>. QED BY <1>1, <1>2, <1>3, <1>4 DEF HistoryTyped

LEMMA ChangeTyped ==
  ASSUME ReadinessTyped, NEW b \in Backends, Change(b)
  PROVE  condition' \in [Backends -> Conditions] /\ changes' \in 0 .. MaxChanges
BY ChangesAssumption DEF ReadinessTyped, Change

LEMMA ReadinessStepTyped == ReadinessTyped /\ ReadinessNext => ReadinessTyped'
<1>. SUFFICES ASSUME ReadinessTyped, ReadinessNext PROVE ReadinessTyped'
  OBVIOUS
<1>2. CASE ReadyCheck
  <2>1. /\ check' = "postgres" /\ late' = FALSE /\ ready' = "none"
        /\ report' = [b \in Backends |-> "none"]
        /\ seen' = [b \in Backends |-> {condition[b]}]
        /\ UNCHANGED <<condition, changes>>
    BY <1>2 DEF ReadyCheck, backendVars
  <2>2. \A b \in Backends : {condition[b]} \in SUBSET Conditions
    BY DEF ReadinessTyped
  <2>3. seen' \in [Backends -> SUBSET Conditions]
    BY <2>1, <2>2
  <2>4. report' \in [Backends -> {"none", "connected", "disconnected"}]
    BY <2>1
  <2>. QED BY <2>1, <2>3, <2>4 DEF ReadinessTyped
<1>3. ASSUME NEW b \in Backends, NEW status \in {"connected", "disconnected"},
             NEW next \in {"mongodb", "rabbitmq", "reply"}, Record(b, status, next)
      PROVE  ReadinessTyped'
  <2>1. /\ report' = [report EXCEPT ![b] = status] /\ check' = next
        /\ UNCHANGED <<late, ready, seen, condition, changes>>
    BY <1>3 DEF Record, backendVars
  <2>2. report' \in [Backends -> {"none", "connected", "disconnected"}]
    BY <2>1 DEF ReadinessTyped
  <2>. QED BY <2>1, <2>2 DEF ReadinessTyped
<1>4. CASE checkPostgresConnection \/ checkMongoConnection \/ checkRabbitMQConnection
  <2>1. {"postgres", "mongodb", "rabbitmq"} \subseteq Backends
    BY DEF Backends, Stores
  <2>2. \A result : Status(result) \in {"connected", "disconnected"}
    BY DEF Status
  <2>3. CASE checkPostgresConnection
    BY <1>3, <2>1, <2>2, <2>3 DEF checkPostgresConnection
  <2>4. CASE checkMongoConnection
    BY <1>3, <2>1, <2>2, <2>4 DEF checkMongoConnection
  <2>5. CASE checkRabbitMQConnection
    BY <1>3, <2>1, <2>5 DEF checkRabbitMQConnection
  <2>. QED BY <1>4, <2>3, <2>4, <2>5
<1>5. CASE ReadyReply \/ Expire
  BY <1>5 DEF ReadyReply, Expire, backendVars, ReadinessTyped
<1>6. CASE Disturb
  <2>1. condition' \in [Backends -> Conditions] /\ changes' \in 0 .. MaxChanges
    BY <1>6, ChangeTyped DEF Disturb
  <2>2. UNCHANGED <<check, late, report, ready>>
    BY <1>6 DEF Disturb
  <2>3. seen' \in [Backends -> SUBSET Conditions]
    BY <1>6, <2>1 DEF Disturb, Seen, ReadinessTyped
  <2>. QED BY <2>1, <2>2, <2>3 DEF ReadinessTyped
<1>. QED BY <1>2, <1>4, <1>5, <1>6 DEF ReadinessNext, Probe

LEMMA HistoryStepReadiness ==
  ASSUME ReadinessTyped, UNCHANGED readinessVars, HistoryNext \/ Ended
  PROVE  ReadinessTyped'
<1>1. condition' \in [Backends -> Conditions] /\ changes' \in 0 .. MaxChanges
  <2>1. ASSUME NEW b \in Stores, Change(b)
        PROVE  condition' \in [Backends -> Conditions] /\ changes' \in 0 .. MaxChanges
    BY <2>1, ChangeTyped DEF Backends
  <2>2. ASSUME UNCHANGED backendVars
        PROVE  condition' \in [Backends -> Conditions] /\ changes' \in 0 .. MaxChanges
    BY <2>2 DEF backendVars, ReadinessTyped
  <2>. QED
    BY <2>1, <2>2
    DEF HistoryNext, Ended, Arrive, ValidatePagination, VerifyAccount, CountDocuments, Find,
        GiveUp, NextPage, Stop, Fails
<1>. QED BY <1>1 DEF ReadinessTyped, readinessVars

LEMMA GivenNumber ==
  ASSUME NEW p \in PageParams \cup LimitParams, NEW top \in Nat \ {0}, ValidParam(p, top),
         NEW default \in 1 .. top
  PROVE  Given(p, default) \in 1 .. top
<1>1. CASE p = Absent
  BY <1>1 DEF Given
<1>2. CASE p # Absent
  <2>1. p \in Int /\ p >= 1 /\ p <= top
    BY <1>2, HistoryAssumption DEF ValidParam
  <2>. QED BY <1>2, <2>1 DEF Given
<1>. QED BY <1>1, <1>2

LEMMA HistoryStepTyped == HistoryTyped /\ (HistoryNext \/ Ended) => HistoryTyped'
<1>. SUFFICES ASSUME HistoryTyped, HistoryNext \/ Ended PROVE HistoryTyped'
  OBVIOUS
<1>1. Len(docs) \in 0 .. MaxDocs /\ DOMAIN docs = 1 .. Len(docs) /\ MaxDocs \in Nat
  BY Bounds DEF HistoryTyped
<1>2. CASE Ended \/ \E b \in Stores : Change(b) /\ UNCHANGED historyVars
  BY <1>2 DEF Ended, historyVars, requestVars, walkVars, HistoryTyped
<1>3. CASE Arrive
  <2>1. PICK t \in Times : docs' = Append(docs, t)
    BY <1>3 DEF Arrive
  <2>2. /\ docs' \in Seq(Times) /\ Len(docs') = Len(docs) + 1
        /\ DOMAIN docs' = 1 .. Len(docs) + 1
    BY <2>1 DEF HistoryTyped
  <2>3. Len(docs') <= MaxDocs /\ DOMAIN docs \subseteq DOMAIN docs'
    BY <1>1, <1>3, <2>2 DEF Arrive
  <2>. QED BY <1>3, <2>2, <2>3 DEF Arrive, requestVars, walkVars, HistoryTyped
<1>4. ASSUME NEW p \in PageParams, NEW l \in LimitParams, ValidatePagination(p, l)
      PROVE  HistoryTyped'
  <2>1. CASE ValidParam(p, MaxInt) /\ ValidParam(l, MaxLimit)
    <3>1. Given(p, 1) \in 1 .. MaxInt
      BY <2>1, GivenNumber, Bounds
    <3>2. Given(l, DefaultLimit) \in 1 .. MaxLimit
      BY <2>1, GivenNumber, Bounds
    <3>. QED BY <1>1, <1>4, <2>1, <3>1, <3>2 DEF ValidatePagination, HistoryTyped
  <2>2. CASE ~(ValidParam(p, MaxInt) /\ ValidParam(l, MaxLimit))
    BY <1>4, <2>2 DEF ValidatePagination, HistoryTyped
  <2>. QED BY <2>1, <2>2
<1>5. CASE Fails(404) \/ Fails(499) \/ Fails(500)
  <2>1. /\ step' = "ended" /\ answer' \in {404, 499, 500}
        /\ UNCHANGED <<docs, page, limit, total, last, before, found, shown, first, start>>
    BY <1>5 DEF Fails, walkVars
  <2>. QED BY <2>1 DEF HistoryTyped
<1>6. CASE VerifyAccount
  <2>1. CASE /\ step' = "count"
             /\ UNCHANGED <<docs, page, limit, total, answer, last, before, found, walkVars>>
    BY <2>1 DEF walkVars, HistoryTyped
  <2>. QED BY <1>5, <1>6, <2>1 DEF VerifyAccount
<1>7. CASE CountDocuments
  <2>1. CASE /\ step' = "find" /\ total' = Len(docs) /\ before' = Len(docs)
             /\ UNCHANGED <<docs, page, limit, answer, last, found, walkVars>>
    BY <1>1, <2>1 DEF walkVars, HistoryTyped
  <2>. QED BY <1>5, <1>7, <2>1 DEF CountDocuments
<1>8. CASE Find
  <2>1. CASE /\ last' \in Slices
             /\ shown' = [d \in DOMAIN shown |-> IF d \in last' THEN shown[d] + 1 ELSE shown[d]]
             /\ found' = Len(docs) /\ answer' = 200 /\ step' = "read"
             /\ UNCHANGED <<docs, page, limit, total, before, habit, first, start>>
    <3>1. last' \subseteq DOMAIN docs'
      BY <2>1 DEF Slices
    <3>2. shown' \in [1 .. MaxDocs -> Nat]
      BY <2>1 DEF HistoryTyped
    <3>. QED BY <1>1, <2>1, <3>1, <3>2 DEF HistoryTyped
  <2>. QED BY <1>5, <1>8, <2>1 DEF Find
<1>9. CASE GiveUp
  BY <1>5, <1>9 DEF GiveUp
<1>11. CASE Stop
  <2>1. /\ step' = "ended"
        /\ UNCHANGED <<docs, page, limit, total, answer, last, before, found, walkVars>>
    BY <1>11 DEF Stop
  <2>. QED BY <2>1 DEF walkVars, HistoryTyped
<1>10. CASE NextPage
  <2>1. page + 1 \in 1 .. MaxInt
    BY <1>10, Bounds DEF NextPage, HistoryTyped
  <2>2. /\ page' = page + 1 /\ step' = "account"
        /\ UNCHANGED <<docs, limit, total, answer, last, before, found, walkVars>>
    BY <1>10 DEF NextPage
  <2>. QED BY <2>1, <2>2 DEF walkVars, HistoryTyped
<1>. QED BY <1>2, <1>3, <1>4, <1>6, <1>7, <1>8, <1>9, <1>10, <1>11 DEF HistoryNext

-----------------------------------------------------------------------------
(* What is counted and what is found                                       *)

Counted ==
  /\ start <= Len(docs)
  /\ step = "idle" => page = 1 /\ start = 0 /\ \A d \in 1 .. MaxDocs : shown[d] = 0
  /\ \A d \in 1 .. MaxDocs : d > Len(docs) => shown[d] = 0
  /\ step \in {"find", "read"} => total = before
  /\ step = "find" => before <= Len(docs)
  /\ step = "read" => before <= found /\ start <= found /\ found <= Len(docs)
  /\ step = "read" /\ Offset <= MaxInt => Cardinality(last) = Shows(found)

LEMMA InitCounted == Init => Counted
<1>. SUFFICES ASSUME HistoryInit PROVE Counted
  BY DEF Init
<1>1. docs = << >> /\ Len(docs) = 0 /\ step = "idle" /\ page = 1 /\ start = 0
  BY DEF HistoryInit
<1>2. \A d \in 1 .. MaxDocs : shown[d] = 0
  BY DEF HistoryInit
<1>. QED BY <1>1, <1>2 DEF Counted

LEMMA HistoryNumbers ==
  ASSUME HistoryTyped
  PROVE  /\ docs \in Seq(Times) /\ Len(docs) \in 0 .. MaxDocs /\ DOMAIN docs = 1 .. Len(docs)
         /\ page \in Nat \ {0} /\ limit \in Nat \ {0} /\ first \in Nat
         /\ total \in Nat /\ start \in Nat /\ before \in Nat /\ found \in Nat
         /\ MaxDocs \in Nat /\ Offset \in Nat
         /\ page * limit = Offset + limit
         /\ shown \in [1 .. MaxDocs -> Nat] /\ last \subseteq DOMAIN docs
<1>1. docs \in Seq(Times) /\ Len(docs) \in 0 .. MaxDocs /\ DOMAIN docs = 1 .. Len(docs)
  BY Bounds DEF HistoryTyped
<1>2. page \in Nat \ {0} /\ limit \in Nat \ {0} /\ first \in Nat /\ MaxDocs \in Nat
  BY Bounds DEF HistoryTyped
<1>3. total \in Nat /\ start \in Nat /\ before \in Nat /\ found \in Nat
  BY Bounds DEF HistoryTyped
<1>4. Offset \in Nat /\ page * limit = Offset + limit
  BY <1>2, NextOffset DEF Offset
<1>. QED BY <1>1, <1>2, <1>3, <1>4 DEF HistoryTyped

LEMMA FailsCounted ==
  ASSUME Counted, NEW status, Fails(status)
  PROVE  Counted'
BY DEF Fails, walkVars, Counted

LEMMA ArriveCounted == ASSUME HistoryTyped, Counted, Arrive PROVE Counted'
<1>1. PICK t \in Times : docs' = Append(docs, t)
  BY DEF Arrive
<1>2. Len(docs') = Len(docs) + 1 /\ Len(docs) \in Nat
  BY <1>1, HistoryNumbers
<1>3. UNCHANGED <<step, page, limit, total, last, before, found, shown, first, start>>
  BY DEF Arrive, requestVars, walkVars
<1>4. Offset' = Offset /\ Shows(found)' = Shows(found)
  BY <1>3 DEF Offset, Shows
<1>. QED BY <1>2, <1>3, <1>4, HistoryNumbers DEF Counted

LEMMA FindCounted ==
  ASSUME HistoryTyped, Counted, step = "find", last' \in Slices, found' = Len(docs),
         shown' = [d \in DOMAIN shown |-> IF d \in last' THEN shown[d] + 1 ELSE shown[d]],
         step' = "read", UNCHANGED <<docs, page, limit, total, before, first, start>>
  PROVE  Counted'
<1>1. last' \subseteq 1 .. Len(docs) /\ DOMAIN shown = 1 .. MaxDocs
  BY HistoryNumbers DEF Slices
<1>2. \A d \in 1 .. MaxDocs : d > Len(docs) => shown'[d] = 0
  BY <1>1 DEF Counted
<1>3. Offset' = Offset /\ Shows(found)' = Shows(Len(docs))
  BY DEF Offset, Shows
<1>4. Offset <= MaxInt => Cardinality(last') = Shows(Len(docs))
  BY HistoryNumbers, PagesAreFull
<1>. QED BY <1>2, <1>3, <1>4, HistoryNumbers DEF Counted

LEMMA HistoryStepCounted == HistoryTyped /\ Counted /\ (HistoryNext \/ Ended) => Counted'
<1>. SUFFICES ASSUME HistoryTyped, Counted, HistoryNext \/ Ended PROVE Counted'
  OBVIOUS
<1>2. CASE Ended \/ \E b \in Stores : Change(b) /\ UNCHANGED historyVars
  BY <1>2 DEF Ended, historyVars, requestVars, walkVars, Counted, Offset, Shows
<1>3. CASE Arrive
  BY <1>3, ArriveCounted
<1>4. ASSUME NEW p \in PageParams, NEW l \in LimitParams, ValidatePagination(p, l)
      PROVE  Counted'
  <2>1. CASE ValidParam(p, MaxInt) /\ ValidParam(l, MaxLimit)
    <3>1. step' = "account" /\ start' = Len(docs) /\ UNCHANGED <<docs, shown>>
      BY <1>4, <2>1 DEF ValidatePagination
    <3>. QED BY <3>1, HistoryNumbers DEF Counted
  <2>2. CASE ~(ValidParam(p, MaxInt) /\ ValidParam(l, MaxLimit))
    <3>1. step' = "ended" /\ UNCHANGED <<docs, shown, start>>
      BY <1>4, <2>2 DEF ValidatePagination
    <3>. QED BY <3>1 DEF Counted
  <2>. QED BY <2>1, <2>2
<1>6. CASE VerifyAccount
  <2>1. CASE step' = "count" /\ UNCHANGED <<docs, walkVars>>
    BY <2>1 DEF walkVars, Counted
  <2>. QED BY <1>6, <2>1, FailsCounted DEF VerifyAccount
<1>7. CASE CountDocuments
  <2>1. CASE /\ step' = "find" /\ total' = Len(docs) /\ before' = Len(docs)
             /\ UNCHANGED <<docs, walkVars>>
    BY <2>1, HistoryNumbers DEF walkVars, Counted
  <2>. QED BY <1>7, <2>1, FailsCounted DEF CountDocuments
<1>8. CASE Find
  BY <1>8, FindCounted, FailsCounted DEF Find
<1>9. CASE GiveUp
  BY <1>9, FailsCounted DEF GiveUp
<1>10. CASE NextPage
  BY <1>10 DEF NextPage, walkVars, Counted
<1>11. CASE Stop
  BY <1>11 DEF Stop, walkVars, Counted
<1>. QED BY <1>2, <1>3, <1>4, <1>6, <1>7, <1>8, <1>9, <1>10, <1>11 DEF HistoryNext

LEMMA CountedFits == HistoryTyped /\ Counted => PageFitsTotal
<1>. SUFFICES ASSUME HistoryTyped, Counted, step = "read", Offset <= MaxInt
              PROVE  Cardinality(last) \in Shows(total) .. Shows(total + found - before)
  BY DEF PageFitsTotal, Offset, Shows
<1>1. total = before /\ before <= found /\ Cardinality(last) = Shows(found)
  BY DEF Counted
<1>2. total + found - before = found
  BY <1>1, HistoryNumbers
<1>3. Shows(total) \in Nat /\ Shows(found) \in Nat /\ Shows(total) <= Shows(found)
  <2>1. total \in Nat /\ found \in Nat /\ limit \in Nat /\ Offset \in Nat /\ total <= found
    BY <1>1, HistoryNumbers
  <2>. QED BY ONLY <2>1 DEF Shows
<1>. QED BY <1>1, <1>2, <1>3

-----------------------------------------------------------------------------
(* A walk through the pages                                                *)

(* Documents that were there at the start and were not shown.              *)
Missed == {d \in Unique \cap 1 .. start : shown[d] = 0}

Viewed == {d \in Unique : shown[d] > 0}

Repeats == SumFunctionOnSet(Again, Viewed)

(* How many places the walk has left behind.                               *)
Passed == IF step = "read" THEN Offset + limit ELSE Offset

(* Documents that were shown and are yet to come again.                    *)
Ahead == {d \in Viewed : Passed <= Cardinality(Newer(d))}

Excess(n, m) == IF n > m THEN n - m ELSE 0

(* A walk does not leave behind what it has not shown, and each document   *)
(* that it shows again, or will show again, was pushed back by an arrival. *)
Underway ==
  /\ Offset <= MaxDocs
  /\ \A d \in Missed : Passed <= Cardinality(Newer(d))
  /\ Repeats + Cardinality(Ahead) <= Len(docs) - start

Walking ==
  /\ first = 1 /\ step # "ended" => Underway
  /\ first = 1 /\ step = "read" => Cardinality(Missed) <= Excess(found, Offset + limit)
  /\ first = 1 => Repeats <= Excess(found, start)
  /\ WalkIsComplete

LEMMA WalkSets ==
  ASSUME HistoryTyped
  PROVE  /\ Missed \in SUBSET DOMAIN docs /\ IsFiniteSet(Missed) /\ Cardinality(Missed) \in Nat
         /\ Viewed \in SUBSET DOMAIN docs /\ IsFiniteSet(Viewed) /\ Cardinality(Viewed) \in Nat
         /\ Ahead \in SUBSET DOMAIN docs /\ IsFiniteSet(Ahead) /\ Cardinality(Ahead) \in Nat
         /\ DOMAIN docs \subseteq 1 .. MaxDocs
         /\ \A d \in Viewed : Again[d] \in Nat
         /\ Repeats \in Nat /\ Passed \in Nat
<1>1. /\ Missed \in SUBSET DOMAIN docs /\ Viewed \in SUBSET DOMAIN docs
      /\ Ahead \in SUBSET DOMAIN docs
  BY DEF Missed, Viewed, Ahead, Unique
<1>2. docs \in Seq(Times) /\ DOMAIN docs \subseteq 1 .. MaxDocs
  BY HistoryNumbers
<1>3. /\ IsFiniteSet(Missed) /\ Cardinality(Missed) \in Nat
      /\ IsFiniteSet(Viewed) /\ Cardinality(Viewed) \in Nat
      /\ IsFiniteSet(Ahead) /\ Cardinality(Ahead) \in Nat
  BY <1>1, <1>2, DocsAreFinite
<1>4. ASSUME NEW d \in Viewed PROVE Again[d] \in Nat
  <2>1. shown[d] \in Nat /\ shown[d] > 0 /\ d \in 1 .. MaxDocs
    BY <1>1, <1>2, HistoryNumbers DEF Viewed
  <2>. QED BY <2>1 DEF Again
<1>5. Repeats \in Nat
  <2>1. SumFunctionOnSet(Again, Viewed) \in Int
    BY <1>3, <1>4, SumType
  <2>2. SumFunctionOnSet(Again, {}) <= SumFunctionOnSet(Again, Viewed)
    BY <1>3, <1>4, SumOfFewer
  <2>. QED BY <2>1, <2>2, SumOfNone DEF Repeats
<1>6. Passed \in Nat
  BY HistoryNumbers DEF Passed
<1>. QED BY <1>1, <1>2, <1>3, <1>4, <1>5, <1>6

LEMMA WalkStandsStill ==
  ASSUME UNCHANGED <<docs, shown, start>>
  PROVE  /\ Missed' = Missed /\ Viewed' = Viewed /\ Repeats' = Repeats /\ Unique' = Unique
         /\ \A d : Newer(d)' = Newer(d)
BY DEF Missed, Viewed, Repeats, Again, Unique, Newer

LEMMA WalkIsMissed ==
  WalkIsComplete <=>
    (step = "ended" /\ answer = 200 /\ first = 1 =>
       Cardinality(Missed) <= IF habit = "total" THEN found - before ELSE 0)
BY DEF WalkIsComplete, Missed

LEMMA InitWalking == Init => Walking
<1>. SUFFICES ASSUME HistoryInit, HistoryTyped PROVE Walking
  BY InitHistoryTyped DEF Init
<1>1. docs = << >> /\ step = "idle" /\ page = 1 /\ start = 0 /\ found = 0 /\ Len(docs) = 0
  BY DEF HistoryInit
<1>2. Missed = {} /\ Viewed = {} /\ Ahead = {}
  BY <1>1 DEF Missed, Viewed, Ahead, Unique
<1>3. Repeats = 0 /\ Cardinality(Ahead) = 0
  BY <1>2, SumOfNone, FS_EmptySet DEF Repeats
<1>4. Offset = 0
  BY <1>1, HistoryNumbers DEF Offset
<1>5. Underway
  BY <1>1, <1>2, <1>3, <1>4, HistoryNumbers DEF Underway
<1>. QED BY <1>1, <1>3, <1>5 DEF Walking, Excess, WalkIsComplete

LEMMA FailsWalking ==
  ASSUME Walking, NEW status \in {404, 499, 500}, Fails(status)
  PROVE  Walking'
<1>1. /\ step' = "ended" /\ answer' # 200
      /\ UNCHANGED <<docs, shown, start, first, found>>
  BY DEF Fails, walkVars
<1>2. Repeats' = Repeats /\ Excess(found, start)' = Excess(found, start)
  BY <1>1, WalkStandsStill DEF Excess
<1>. QED BY <1>1, <1>2 DEF Walking, WalkIsComplete

(* A step from one read of the same request to the next.                   *)
LEMMA NextReadWalking ==
  ASSUME Walking, step \in {"account", "count"}, step' \in {"count", "find"},
         UNCHANGED <<docs, page, limit, found, shown, first, start>>
  PROVE  Walking'
<1>1. Offset' = Offset /\ Passed' = Passed
  BY DEF Offset, Passed
<1>2. Missed' = Missed /\ Viewed' = Viewed /\ Repeats' = Repeats /\ Ahead' = Ahead
  BY <1>1, WalkStandsStill DEF Ahead
<1>3. Underway => Underway'
  BY <1>1, <1>2, WalkStandsStill DEF Underway
<1>4. Excess(found, start)' = Excess(found, start)
  BY DEF Excess
<1>. QED BY <1>2, <1>3, <1>4 DEF Walking, WalkIsComplete

LEMMA FirstWalking ==
  ASSUME HistoryTyped, Counted, Walking, HistoryTyped',
         NEW p \in PageParams, NEW l \in LimitParams, ValidatePagination(p, l)
  PROVE  Walking'
<1>1. step = "idle" /\ UNCHANGED <<docs, found, shown>>
  BY DEF ValidatePagination
<1>2. Viewed' = {} /\ Ahead' = {}
  BY <1>1, HistoryNumbers DEF Counted, Viewed, Ahead, Unique
<1>3. Repeats' = 0 /\ Cardinality(Ahead)' = 0
  BY <1>2, SumOfNone, FS_EmptySet DEF Repeats
<1>4. CASE ValidParam(p, MaxInt) /\ ValidParam(l, MaxLimit)
  <2>1. step' = "account" /\ first' = page' /\ start' = Len(docs)
    BY <1>4 DEF ValidatePagination
  <2>2. ASSUME first' = 1 PROVE Underway'
    <3>1. Offset' = 0 /\ Passed' = 0
      <4>1. page' = 1 /\ limit' \in Nat
        BY <2>1, <2>2, Bounds DEF HistoryTyped
      <4>2. \A k \in Nat : (1 - 1) * k = 0
        OBVIOUS
      <4>3. Offset' = 0
        BY <4>1, <4>2 DEF Offset
      <4>. QED BY <2>1, <4>3 DEF Passed
    <3>2. \A d \in Missed' : Cardinality(Newer(d))' \in Nat
      <4>1. \A d \in DOMAIN docs' : Cardinality(Newer(d)') \in 0 .. Len(docs') - 1
        BY <1>1, NewerCount, HistoryNumbers DEF Newer
      <4>. QED BY <4>1 DEF Missed, Unique
    <3>. QED BY <1>1, <1>3, <2>1, <3>1, <3>2, HistoryNumbers DEF Underway
  <2>3. Excess(found, start)' \in Nat
    BY <1>1, <2>1, HistoryNumbers DEF Excess
  <2>. QED BY <1>3, <2>1, <2>2, <2>3 DEF Walking, WalkIsComplete
<1>5. CASE ~(ValidParam(p, MaxInt) /\ ValidParam(l, MaxLimit))
  <2>1. step' = "ended" /\ answer' = 400 /\ UNCHANGED start
    BY <1>5 DEF ValidatePagination
  <2>2. Excess(found, start)' \in Nat
    BY <1>1, <2>1, HistoryNumbers DEF Excess
  <2>. QED BY <1>3, <2>1, <2>2 DEF Walking, WalkIsComplete
<1>. QED BY <1>4, <1>5

LEMMA NextPageWalking ==
  ASSUME HistoryTyped, Counted, Walking, NextPage
  PROVE  Walking'
<1>1. /\ step = "read" /\ ~IsLast /\ page' = page + 1 /\ step' = "account"
      /\ UNCHANGED <<docs, limit, found, shown, first, start>>
  BY DEF NextPage, walkVars
<1>2. Offset' = Offset + limit /\ Passed = Offset + limit
  BY <1>1, HistoryNumbers DEF Offset, Passed
<1>3. Passed' = Passed
  BY <1>1, <1>2 DEF Passed
<1>4. Missed' = Missed /\ Viewed' = Viewed /\ Repeats' = Repeats /\ Ahead' = Ahead
  BY <1>1, <1>3, WalkStandsStill DEF Ahead
<1>5. Underway => Offset + limit <= MaxDocs
  <2>. SUFFICES ASSUME Underway PROVE Offset + limit <= MaxDocs
    OBVIOUS
  <2>1. Cardinality(last) = Shows(found) /\ total = before /\ before <= found /\ found <= MaxDocs
    BY <1>1, Bounds, HistoryNumbers DEF Counted, Underway
  <2>2. CASE habit = "total"
    BY <1>1, <2>1, <2>2, HistoryNumbers DEF IsLast
  <2>3. CASE habit # "total"
    BY <1>1, <2>1, <2>3, HistoryNumbers DEF IsLast, Shows
  <2>. QED BY <2>2, <2>3
<1>6. Underway => Underway'
  BY <1>1, <1>2, <1>3, <1>4, <1>5, WalkStandsStill DEF Underway
<1>7. Excess(found, start)' = Excess(found, start)
  BY <1>1 DEF Excess
<1>. QED BY <1>1, <1>4, <1>6, <1>7 DEF Walking, WalkIsComplete

LEMMA StopWalking ==
  ASSUME HistoryTyped, Counted, Walking, Stop
  PROVE  Walking'
<1>1. /\ step = "read" /\ (IsLast \/ page = MaxInt) /\ step' = "ended"
      /\ UNCHANGED <<docs, page, limit, total, last, before, found, shown, first, start, habit>>
  BY DEF Stop, walkVars
<1>2. Missed' = Missed /\ Repeats' = Repeats
  BY <1>1, WalkStandsStill
<1>3. Excess(found, start)' = Excess(found, start)
  BY <1>1 DEF Excess
<1>4. ASSUME first = 1
      PROVE  Cardinality(Missed) <= IF habit = "total" THEN found - before ELSE 0
  <2>1. Underway /\ Cardinality(Missed) <= Excess(found, Offset + limit)
    BY <1>1, <1>4 DEF Walking
  <2>2. Cardinality(last) = Shows(found) /\ total = before /\ before <= found /\ found <= MaxDocs
    BY <1>1, <2>1, Bounds, HistoryNumbers DEF Counted, Underway
  <2>3. CASE page = MaxInt
    <3>1. MaxInt <= Offset + limit
      <4>1. ASSUME NEW k \in Nat \ {0}, NEW m \in Nat PROVE m <= m * k
        <5>1. k * m = (k - 1) * m + m /\ (k - 1) * m \in Nat
          BY NextOffset
        <5>2. m * k = k * m
          OBVIOUS
        <5>. QED BY <5>1, <5>2
      <4>2. page * limit = Offset + limit /\ limit \in Nat \ {0}
        BY HistoryNumbers
      <4>3. page <= page * limit
        BY <4>1, <4>2, HistoryNumbers
      <4>. QED BY <2>3, <4>2, <4>3
    <3>2. Excess(found, Offset + limit) = 0
      <4>1. found <= Offset + limit /\ found \in Nat /\ Offset + limit \in Nat
        BY <2>2, <3>1, Bounds, HistoryNumbers
      <4>. QED BY <4>1 DEF Excess
    <3>3. found \in Nat /\ before \in Nat /\ before <= found /\ Cardinality(Missed) \in Nat
      BY <2>2, HistoryNumbers, WalkSets
    <3>4. Cardinality(Missed) <= 0
      BY <2>1, <3>2
    <3>. HIDE DEF Missed
    <3>. QED BY ONLY <3>3, <3>4
  <2>4. /\ found \in Nat /\ before \in Nat /\ limit \in Nat \ {0} /\ Offset \in Nat
        /\ Cardinality(Missed) \in Nat /\ page * limit = Offset + limit
    BY HistoryNumbers, WalkSets
  <2>5. CASE IsLast /\ habit = "total"
    <3>1. before <= Offset + limit
      BY <2>2, <2>4, <2>5 DEF IsLast
    <3>2. Excess(found, Offset + limit) <= found - before
      BY ONLY <2>2, <2>4, <3>1 DEF Excess
    <3>3. Excess(found, Offset + limit) \in Nat
      BY ONLY <2>4 DEF Excess
    <3>. QED BY <2>1, <2>4, <2>5, <3>2, <3>3
  <2>6. CASE IsLast /\ habit # "total"
    <3>1. Shows(found) < limit
      BY <2>2, <2>6 DEF IsLast
    <3>2. Excess(found, Offset + limit) = 0
      BY ONLY <2>4, <3>1 DEF Excess, Shows
    <3>. QED BY <2>1, <2>4, <2>6, <3>2
  <2>. QED BY <1>1, <2>3, <2>5, <2>6
<1>5. WalkIsComplete'
  <2>1. first' = 1 => Cardinality(Missed)' <= IF habit' = "total" THEN found' - before' ELSE 0
    BY <1>1, <1>2, <1>4
  <2>. QED BY <2>1 DEF WalkIsComplete, Missed
<1>. QED BY <1>1, <1>2, <1>3, <1>5 DEF Walking

LEMMA OneMore ==
  ASSUME NEW S, IsFiniteSet(S), NEW x, NEW T, T \subseteq S \cup {x}
  PROVE  /\ IsFiniteSet(T) /\ Cardinality(T) \in Nat /\ Cardinality(S) \in Nat
         /\ Cardinality(T) <= Cardinality(S) + 1
         /\ T \subseteq S => Cardinality(T) <= Cardinality(S)
         /\ S \subseteq T => Cardinality(S) <= Cardinality(T)
<1>. DEFINE U == S \cup {x}
<1>1. /\ IsFiniteSet(U) /\ Cardinality(S) \in Nat
      /\ Cardinality(U) = IF x \in S THEN Cardinality(S) ELSE Cardinality(S) + 1
  BY FS_AddElement, FS_CardinalityType
<1>2. T \in SUBSET U
  OBVIOUS
<1>. HIDE DEF U
<1>3. IsFiniteSet(T) /\ Cardinality(T) <= Cardinality(U)
  BY <1>1, <1>2, FS_Subset
<1>4. Cardinality(T) \in Nat
  BY <1>3, FS_CardinalityType
<1>5. T \subseteq S => Cardinality(T) <= Cardinality(S)
  BY FS_Subset
<1>6. S \subseteq T => Cardinality(S) <= Cardinality(T)
  BY <1>3, FS_Subset
<1>. QED BY <1>1, <1>3, <1>4, <1>5, <1>6

LEMMA ArriveWalking ==
  ASSUME HistoryTyped, Counted, Walking, Arrive
  PROVE  Walking'
<1>. DEFINE n == Len(docs)
<1>1. PICK t \in Times : docs' = Append(docs, t)
  BY DEF Arrive
<1>2. /\ UNCHANGED <<step, page, limit, answer, habit, before, found, shown, first, start>>
      /\ n + 1 <= MaxDocs
  BY HistoryNumbers DEF Arrive, requestVars, walkVars
<1>3. /\ docs' \in Seq(Times) /\ Len(docs') = n + 1
      /\ DOMAIN docs = 1 .. n /\ DOMAIN docs' = 1 .. n + 1 /\ n \in Nat
      /\ \A d \in DOMAIN docs : docs'[d] = docs[d]
  BY <1>1, HistoryNumbers
<1>4. Unique' \cap DOMAIN docs \subseteq Unique
  BY <1>3 DEF Unique
<1>5. shown[n + 1] = 0
  BY <1>2, <1>3 DEF Counted
<1>6. Viewed' \subseteq Viewed /\ Missed' \subseteq Missed
  <2>1. Viewed' \subseteq Viewed
    BY <1>2, <1>3, <1>4, <1>5 DEF Viewed, Unique
  <2>2. 1 .. start \subseteq DOMAIN docs
    BY <1>3, HistoryNumbers DEF Counted
  <2>3. Missed' \subseteq Missed
    BY <1>2, <1>4, <2>2 DEF Missed
  <2>. QED BY <2>1, <2>3
<1>7. ASSUME NEW d \in DOMAIN docs
      PROVE  /\ Cardinality(Newer(d)) \in Nat /\ Cardinality(Newer(d)') \in Nat
             /\ Cardinality(Newer(d)) <= Cardinality(Newer(d)')
             /\ Cardinality(Newer(d)') <= Cardinality(Newer(d)) + 1
  <2>1. IsFiniteSet(Newer(d)) /\ Cardinality(Newer(d)) \in Nat
    BY NewerCount, HistoryNumbers
  <2>2. Newer(d) \subseteq Newer(d)' /\ Newer(d)' \subseteq Newer(d) \cup {n + 1}
    BY <1>3 DEF Newer
  <2>. QED BY <2>1, <2>2, OneMore
<1>8. Offset' = Offset /\ Passed' = Passed
  BY <1>2 DEF Offset, Passed
<1>9. Repeats' <= Repeats /\ Repeats' \in Int
  <2>1. Again' = Again
    BY <1>2 DEF Again
  <2>2. IsFiniteSet(Viewed') /\ \A d \in Viewed' : Again[d] \in Int
    BY <1>6, WalkSets, FS_Subset
  <2>3. SumFunctionOnSet(Again, Viewed') \in Int
    BY <2>2, SumType
  <2>4. SumFunctionOnSet(Again, Viewed') <= SumFunctionOnSet(Again, Viewed)
    BY <1>6, WalkSets, SumOfFewer
  <2>. QED BY <2>1, <2>3, <2>4 DEF Repeats
<1>10. Cardinality(Missed') <= Cardinality(Missed) /\ Cardinality(Missed') \in Nat
  BY <1>6, WalkSets, FS_Subset, FS_CardinalityType
<1>11. Cardinality(Ahead') <= Cardinality(Ahead) + 1 /\ Cardinality(Ahead') \in Nat
  <2>. DEFINE Edge == {d \in Viewed : Cardinality(Newer(d)) = Passed - 1}
  <2>1. Ahead' \subseteq Ahead \cup Edge
    <3>. SUFFICES ASSUME NEW d \in Ahead' PROVE d \in Ahead \cup Edge
      OBVIOUS
    <3>1. d \in Viewed /\ Passed <= Cardinality(Newer(d)')
      BY <1>6, <1>8 DEF Ahead
    <3>2. d \in DOMAIN docs
      BY <3>1, WalkSets
    <3>3. Passed <= Cardinality(Newer(d)) \/ Cardinality(Newer(d)) = Passed - 1
      BY <1>7, <3>1, <3>2, WalkSets
    <3>. QED BY <3>1, <3>3 DEF Ahead
  <2>2. \A d \in Edge, e \in Edge : d = e
    BY PlacesDiffer, UniqueDocs, HistoryNumbers DEF Viewed
  <2>3. \E e : Ahead' \subseteq Ahead \cup {e}
    BY <2>1, <2>2
  <2>. QED BY <2>3, WalkSets, OneMore
<1>13. Underway => Underway'
  <2>. SUFFICES ASSUME Underway PROVE Underway'
    OBVIOUS
  <2>1. \A d \in Missed' : Passed <= Cardinality(Newer(d)')
    <3>. SUFFICES ASSUME NEW d \in Missed' PROVE Passed <= Cardinality(Newer(d)')
      OBVIOUS
    <3>1. d \in DOMAIN docs /\ Passed <= Cardinality(Newer(d))
      BY <1>6, WalkSets DEF Underway
    <3>. QED BY <1>7, <3>1, WalkSets
  <2>2. Repeats' + Cardinality(Ahead') <= n + 1 - start
    <3>1. Repeats + Cardinality(Ahead) <= n - start
      BY DEF Underway
    <3>2. Repeats \in Nat /\ Cardinality(Ahead) \in Nat /\ start \in Nat
      BY WalkSets, HistoryNumbers
    <3>. HIDE DEF n
    <3>. QED BY <1>3, <1>9, <1>11, <3>1, <3>2
  <2>3. /\ Offset' <= MaxDocs
        /\ n + 1 - start = Len(docs') - start'
    <3>1. Offset' <= MaxDocs
      BY <1>8 DEF Underway
    <3>2. Len(docs') = n + 1 /\ start' = start
      BY <1>2, <1>3
    <3>3. start \in Nat /\ n \in Nat
      BY HistoryNumbers
    <3>. HIDE DEF n
    <3>. QED BY <3>1, <3>2, <3>3
  <2>4. \A d \in Missed' : Passed' <= Cardinality(Newer(d)')
    BY <1>8, <2>1
  <2>5. Repeats' + Cardinality(Ahead') <= Len(docs') - start'
    BY <2>2, <2>3, Zenon
  <2>. QED BY <2>3, <2>4, <2>5 DEF Underway
<1>14. /\ first = 1 /\ step = "read" => Cardinality(Missed') <= Excess(found, Offset + limit)
       /\ first = 1 => Repeats' <= Excess(found, start)
       /\ step = "ended" /\ answer = 200 /\ first = 1 =>
            Cardinality(Missed') <= IF habit = "total" THEN found - before ELSE 0
  <2>1. Excess(found, Offset + limit) \in Nat /\ Excess(found, start) \in Nat
        /\ (IF habit = "total" THEN found - before ELSE 0) \in Int
    <3>1. /\ found \in Nat /\ before \in Nat /\ start \in Nat
          /\ limit \in Nat /\ Offset \in Nat
      BY HistoryNumbers
    <3>2. found - before \in Int
      BY <3>1
    <3>. QED BY ONLY <3>1, <3>2 DEF Excess
  <2>2. \A m \in Int : /\ Cardinality(Missed) <= m => Cardinality(Missed') <= m
                       /\ Repeats <= m => Repeats' <= m
    <3>1. Cardinality(Missed) \in Int /\ Cardinality(Missed') \in Int
          /\ Repeats \in Int /\ Repeats' \in Int
      BY <1>9, <1>10, WalkSets
    <3>. QED BY <1>9, <1>10, <3>1
  <2>3. first = 1 /\ step = "read" => Cardinality(Missed') <= Excess(found, Offset + limit)
    BY <2>1, <2>2 DEF Walking
  <2>4. first = 1 => Repeats' <= Excess(found, start)
    BY <2>1, <2>2 DEF Walking
  <2>5. step = "ended" /\ answer = 200 /\ first = 1 =>
          Cardinality(Missed') <= IF habit = "total" THEN found - before ELSE 0
    BY <2>1, <2>2, WalkIsMissed DEF Walking
  <2>. QED BY <2>3, <2>4, <2>5
<1>. QED BY <1>2, <1>8, <1>13, <1>14 DEF Walking, WalkIsComplete, Excess, Missed

(* The documents a find shows again are those that were ahead.             *)
LEMMA FindRepeats ==
  ASSUME HistoryTyped, step = "find", Offset <= MaxDocs, last' \in Slices,
         shown' = [d \in DOMAIN shown |-> IF d \in last' THEN shown[d] + 1 ELSE shown[d]],
         step' = "read", UNCHANGED <<docs, page, limit>>
  PROVE  /\ Repeats' + Cardinality(Ahead') = Repeats + Cardinality(Ahead)
         /\ Repeats' \in Nat /\ Cardinality(Ahead') \in Nat
<1>1. docs \in Seq(Times) /\ Offset <= MaxInt /\ Passed = Offset /\ DOMAIN shown = 1 .. MaxDocs
  BY HistoryNumbers, Bounds DEF Passed
<1>2. Offset' = Offset /\ Passed' = Offset + limit
  BY DEF Offset, Passed
<1>3. Unique' = Unique /\ \A d : Newer(d)' = Newer(d)
  BY DEF Unique, Newer
<1>4. ASSUME NEW d \in Unique
      PROVE  /\ d \in 1 .. MaxDocs /\ shown[d] \in Nat
             /\ shown'[d] = IF d \in last' THEN shown[d] + 1 ELSE shown[d]
             /\ d \in last' <=> /\ Offset <= Cardinality(Newer(d))
                                /\ Cardinality(Newer(d)) < Offset + limit
             /\ Cardinality(Newer(d)) \in Nat
  <2>1. d \in 1 .. MaxDocs /\ d \in DOMAIN docs
    BY WalkSets, UniqueDocs
  <2>2. Cardinality(Newer(d)) \in Nat
    BY <1>1, <2>1, NewerCount, HistoryNumbers
  <2>3. d \in last' <=> Offset <= Cardinality(Newer(d)) /\ Cardinality(Newer(d)) < Offset + limit
    BY <1>1, PagesShow, HistoryNumbers
  <2>. QED BY <1>1, <2>1, <2>2, <2>3, HistoryNumbers
<1>. DEFINE Hit == Viewed \cap last'
<1>5. Viewed' = {d \in Unique : shown[d] > 0 \/ d \in last'} /\ Viewed \subseteq Viewed'
  BY <1>3, <1>4 DEF Viewed
<1>6. Ahead = Hit \cup Ahead' /\ Hit \cap Ahead' = {}
  <2>1. ASSUME NEW d PROVE d \in Ahead <=> d \in Hit \/ d \in Ahead'
    <3>1. CASE d \in Unique
      <4>. DEFINE c == Cardinality(Newer(d))
      <4>1. /\ d \in Ahead <=> d \in Viewed /\ Offset <= c
            /\ d \in Ahead' <=> d \in Viewed' /\ Offset + limit <= c
        BY <1>1, <1>2, <1>3 DEF Ahead
      <4>2. /\ d \in last' <=> Offset <= c /\ c < Offset + limit
            /\ d \in Viewed' <=> d \in Viewed \/ d \in last'
            /\ c \in Nat /\ Offset \in Nat /\ limit \in Nat
        BY <1>4, <1>5, <3>1, HistoryNumbers DEF Viewed
      <4>. HIDE DEF c
      <4>. QED BY <4>1, <4>2
    <3>2. CASE d \notin Unique
      BY <1>3, <3>2 DEF Ahead, Viewed
    <3>. QED BY <3>1, <3>2
  <2>2. ASSUME NEW d \in Hit, d \in Ahead' PROVE FALSE
    <3>. DEFINE c == Cardinality(Newer(d))
    <3>1. d \in Unique /\ d \in last'
      BY DEF Viewed
    <3>2. c < Offset + limit /\ c \in Nat /\ Offset + limit \in Nat
      <4>1. c < Offset + limit /\ c \in Nat
        BY <1>4, <3>1
      <4>. QED BY <4>1, HistoryNumbers
    <3>3. Offset + limit <= c
      BY <1>2, <1>3, <2>2 DEF Ahead
    <3>. HIDE DEF c
    <3>. QED BY <3>2, <3>3
  <2>. QED BY <2>1, <2>2
<1>7. Cardinality(Ahead) = Cardinality(Hit) + Cardinality(Ahead')
  <2>1. Hit \subseteq Viewed /\ Ahead' \subseteq Ahead
    BY <1>6
  <2>2. IsFiniteSet(Hit) /\ IsFiniteSet(Ahead')
    BY <2>1, WalkSets, FS_Subset
  <2>. HIDE DEF Hit
  <2>. QED BY <1>6, <2>2, Disjoint
<1>8. Repeats' = Repeats + Cardinality(Hit)
  <2>. DEFINE g == Again'
  <2>1. IsFiniteSet(Viewed')
    <3>1. Viewed' \in SUBSET DOMAIN docs
      BY <1>5, UniqueDocs
    <3>. QED BY <1>1, <3>1, DocsAreFinite
  <2>2. \A d \in Viewed : Again[d] \in Int /\ g[d] = IF d \in last' THEN Again[d] + 1 ELSE Again[d]
    <3>. SUFFICES ASSUME NEW d \in Viewed
                  PROVE  Again[d] \in Int /\ g[d] = IF d \in last' THEN Again[d] + 1 ELSE Again[d]
      OBVIOUS
    <3>1. d \in Unique
      BY DEF Viewed
    <3>2. d \in 1 .. MaxDocs /\ shown[d] \in Nat
      BY <1>4, <3>1
    <3>3. shown'[d] = IF d \in last' THEN shown[d] + 1 ELSE shown[d]
      BY <1>4, <3>1
    <3>4. Again[d] = shown[d] - 1 /\ g[d] = shown'[d] - 1
      BY <3>2 DEF Again
    <3>. HIDE DEF g
    <3>. QED BY <3>2, <3>3, <3>4
  <2>3. \A d \in Viewed' \ Viewed : g[d] = 0
    <3>. SUFFICES ASSUME NEW d \in Viewed', d \notin Viewed PROVE g[d] = 0
      OBVIOUS
    <3>1. d \in Unique /\ ~(shown[d] > 0) /\ d \in last'
      BY <1>5 DEF Viewed
    <3>2. d \in 1 .. MaxDocs /\ shown[d] \in Nat /\ shown'[d] = shown[d] + 1
      BY <1>4, <3>1
    <3>3. g[d] = shown'[d] - 1
      BY <3>2 DEF Again
    <3>. HIDE DEF g
    <3>. QED BY <3>1, <3>2, <3>3
  <2>4. \A d \in Viewed' : g[d] \in Int
    BY <2>2, <2>3
  <2>. HIDE DEF g
  <2>5. SumFunctionOnSet(g, Viewed') = SumFunctionOnSet(g, Viewed)
    BY <1>5, <2>1, <2>3, <2>4, SumOfSupport
  <2>6. SumFunctionOnSet(g, Viewed) = SumFunctionOnSet(Again, Viewed) + Cardinality(Viewed \cap last')
    <3>1. IsFiniteSet(Viewed)
      BY WalkSets
    <3>. QED BY ONLY <2>2, <3>1, SumRaised
  <2>. QED BY <2>5, <2>6 DEF Repeats, g
<1>9. Cardinality(Hit) \in Nat /\ Cardinality(Ahead') \in Nat
  <2>1. Hit \subseteq Viewed /\ Ahead' \subseteq Ahead
    BY <1>6
  <2>. HIDE DEF Hit
  <2>. QED BY <2>1, WalkSets, FS_Subset, FS_CardinalityType
<1>. HIDE DEF Hit
<1>. QED BY <1>7, <1>8, <1>9, WalkSets

LEMMA FindWalking ==
  ASSUME HistoryTyped, Counted, Walking, step = "find", last' \in Slices,
         shown' = [d \in DOMAIN shown |-> IF d \in last' THEN shown[d] + 1 ELSE shown[d]],
         found' = Len(docs), step' = "read",
         UNCHANGED <<docs, page, limit, habit, first, start>>
  PROVE  Walking'
<1>1. Offset' = Offset /\ Passed' = Offset + limit /\ Passed = Offset
  BY DEF Offset, Passed
<1>2. Unique' = Unique /\ \A d : Newer(d)' = Newer(d)
  BY DEF Unique, Newer
<1>. SUFFICES ASSUME first = 1, Underway
              PROVE  /\ Underway' /\ Cardinality(Missed') <= Excess(Len(docs), Offset + limit)
                     /\ Repeats' <= Excess(Len(docs), start)
  BY <1>1 DEF Walking, WalkIsComplete, Excess
<1>3. docs \in Seq(Times) /\ Offset <= MaxInt
  BY HistoryNumbers, Bounds DEF Underway
<1>4. ASSUME NEW d \in Missed'
      PROVE  /\ d \in DOMAIN docs /\ d \in Unique
             /\ Cardinality(Newer(d)) \in Offset + limit .. Len(docs) - 1
  <2>1. d \in Unique /\ d \in 1 .. start /\ d \in 1 .. MaxDocs
    BY <1>2, UniqueDocs, WalkSets DEF Missed
  <2>2. shown[d] = 0 /\ d \notin last'
    <3>1. shown'[d] = 0
      BY DEF Missed
    <3>2. shown[d] \in Nat /\ shown'[d] = IF d \in last' THEN shown[d] + 1 ELSE shown[d]
      BY <2>1, HistoryNumbers
    <3>. QED BY <3>1, <3>2
  <2>3. Offset <= Cardinality(Newer(d))
    BY <1>1, <2>1, <2>2 DEF Underway, Missed
  <2>4. ~(Cardinality(Newer(d)) < Offset + limit)
    BY <1>3, <2>1, <2>2, <2>3, PagesShow, HistoryNumbers
  <2>5. d \in DOMAIN docs /\ Cardinality(Newer(d)) \in 0 .. Len(docs) - 1
    BY <1>3, <2>1, UniqueDocs, NewerCount
  <2>6. Offset + limit \in Nat /\ Len(docs) \in Nat
    BY HistoryNumbers
  <2>. QED BY <2>1, <2>4, <2>5, <2>6
<1>5. Underway'
  <2>1. Repeats' + Cardinality(Ahead') = Repeats + Cardinality(Ahead)
    BY FindRepeats DEF Underway
  <2>2. \A d \in Missed' : Passed' <= Cardinality(Newer(d)')
    BY <1>1, <1>2, <1>4, HistoryNumbers
  <2>3. Offset' <= MaxDocs
    BY <1>1 DEF Underway
  <2>4. Repeats' + Cardinality(Ahead') <= Len(docs') - start'
    BY <2>1 DEF Underway
  <2>. QED BY <2>2, <2>3, <2>4 DEF Underway
<1>6. Cardinality(Missed') <= Excess(Len(docs), Offset + limit)
  <2>. DEFINE a == Offset + limit
              b == Len(docs) - 1
              place == [d \in Missed' |-> Cardinality(Newer(d))]
  <2>1. a \in Int /\ b \in Int /\ Len(docs) \in Nat
    BY HistoryNumbers
  <2>2. IsFiniteSet(a .. b) /\ Cardinality(a .. b) = IF a > b THEN 0 ELSE b - a + 1
    <3>. HIDE DEF a, b
    <3>. QED BY <2>1, FS_Interval
  <2>3. place \in Injection(Missed', a .. b)
    <3>1. \A d \in Missed', e \in Missed' : place[d] = place[e] => d = e
      BY <1>3, <1>4, PlacesDiffer
    <3>2. place \in [Missed' -> a .. b]
      BY <1>4
    <3>. HIDE DEF a, b, place
    <3>. QED BY <3>1, <3>2 DEF Injection, IsInjective
  <2>4. Cardinality(Missed') <= Cardinality(a .. b)
    <3>. HIDE DEF a, b, place
    <3>. QED BY <2>2, <2>3, FS_Injection
  <2>5. (IF a > b THEN 0 ELSE b - a + 1) = Excess(Len(docs), a)
    BY <2>1 DEF Excess
  <2>. QED BY <2>2, <2>4, <2>5
<1>7. Repeats' <= Excess(Len(docs), start)
  <2>1. Repeats' + Cardinality(Ahead') <= Len(docs) - start
    BY <1>5 DEF Underway
  <2>2. Repeats' \in Nat /\ Cardinality(Ahead') \in Nat
    BY FindRepeats DEF Underway
  <2>3. Len(docs) \in Nat /\ start \in Nat
    BY HistoryNumbers
  <2>4. Repeats' <= Len(docs) - start
    BY <2>1, <2>2, <2>3
  <2>. QED BY ONLY <2>2, <2>3, <2>4 DEF Excess
<1>. QED BY <1>5, <1>6, <1>7

LEMMA PauseWalking ==
  ASSUME Walking, UNCHANGED historyVars
  PROVE  Walking'
BY DEF historyVars, requestVars, walkVars, Walking, Underway, WalkIsComplete, Offset, Passed,
       Missed, Viewed, Repeats, Again, Ahead, Newer, Unique, Excess

LEMMA HistoryStepWalking ==
  ASSUME HistoryTyped, Counted, Walking, HistoryTyped', HistoryNext \/ Ended
  PROVE  Walking'
<1>2. CASE Ended \/ \E b \in Stores : Change(b) /\ UNCHANGED historyVars
  BY <1>2, PauseWalking DEF Ended
<1>3. CASE Arrive
  BY <1>3, ArriveWalking
<1>4. ASSUME NEW p \in PageParams, NEW l \in LimitParams, ValidatePagination(p, l) PROVE Walking'
  BY <1>4, FirstWalking
<1>5. CASE Fails(404) \/ Fails(499) \/ Fails(500)
  BY <1>5, FailsWalking
<1>6. CASE VerifyAccount
  BY <1>5, <1>6, NextReadWalking DEF VerifyAccount, walkVars
<1>7. CASE CountDocuments
  BY <1>5, <1>7, NextReadWalking DEF CountDocuments, walkVars
<1>8. CASE Find
  BY <1>5, <1>8, FindWalking DEF Find
<1>9. CASE GiveUp
  BY <1>5, <1>9 DEF GiveUp
<1>10. CASE NextPage
  BY <1>10, NextPageWalking
<1>11. CASE Stop
  BY <1>11, StopWalking
<1>. QED BY <1>2, <1>3, <1>4, <1>6, <1>7, <1>8, <1>9, <1>10, <1>11 DEF HistoryNext

-----------------------------------------------------------------------------
(* What a reader of the history may rely on                                *)

HistoryInv == HistoryTyped /\ Counted /\ Walking

LEMMA HistoryInvHolds == Spec => []HistoryInv
<1>1. Init => HistoryInv
  BY InitHistoryTyped, InitCounted, InitWalking DEF HistoryInv
<1>2. HistoryInv /\ [Next]_vars => HistoryInv'
  <2>. SUFFICES ASSUME HistoryTyped, Counted, Walking, [Next]_vars
                PROVE  HistoryTyped' /\ Counted' /\ Walking'
    BY DEF HistoryInv
  <2>1. CASE HistoryNext \/ Ended
    BY <2>1, HistoryStepTyped, HistoryStepCounted, HistoryStepWalking
  <2>2. CASE UNCHANGED historyVars
    <3>1. HistoryTyped' /\ Counted'
      BY <2>2 DEF historyVars, requestVars, walkVars, HistoryTyped, Counted, Shows, Offset
    <3>. QED BY <2>2, <3>1, PauseWalking
  <2>. QED BY <2>1, <2>2 DEF Next, vars
<1>. QED BY <1>1, <1>2, PTL DEF Spec

(* Pages, limits and everything else that is read, sent and counted stay   *)
(* in their ranges, however many documents arrive.                         *)
THEOREM ReadsTypesHold == Spec => []ReadsTypeOK
<1>1. Init => ReadinessTyped
  BY InitReadinessTyped
<1>2. ReadinessTyped /\ [Next]_vars => ReadinessTyped'
  <2>. SUFFICES ASSUME ReadinessTyped, [Next]_vars PROVE ReadinessTyped'
    OBVIOUS
  <2>1. CASE UNCHANGED vars
    BY <2>1 DEF vars, backendVars, readinessVars, ReadinessTyped
  <2>2. CASE Next
    BY <2>2, ReadinessStepTyped, HistoryStepReadiness DEF Next
  <2>. QED BY <2>1, <2>2
<1>3. HistoryInv => HistoryTyped
  BY DEF HistoryInv
<1>. QED BY <1>1, <1>2, <1>3, HistoryInvHolds, TypesAreTwo, PTL DEF Spec


(* Whatever arrives between the count and the find of a page, the page is  *)
(* as long as the total and these arrivals say.                            *)
THEOREM PagesFitTheirTotals == Spec => []PageFitsTotal
<1>1. HistoryInv => PageFitsTotal
  BY CountedFits DEF HistoryInv
<1>. QED BY <1>1, HistoryInvHolds, PTL

(* Who reads until a short page has seen all that was there at the start;  *)
(* who trusts the total misses no more than arrived behind its last count. *)
THEOREM WalksAreComplete == Spec => []WalkIsComplete
<1>1. HistoryInv => WalkIsComplete
  BY DEF HistoryInv, Walking
<1>. QED BY <1>1, HistoryInvHolds, PTL

(* A walk shows again no more documents than arrived while it was under    *)
(* way.                                                                    *)
THEOREM ArrivalsCauseRepeats == Spec => []RepeatsAreArrivals
<1>1. HistoryInv => RepeatsAreArrivals
  BY DEF HistoryInv, Walking, RepeatsAreArrivals, Repeats, Viewed, Excess
<1>. QED BY <1>1, HistoryInvHolds, PTL

=============================================================================
