------------------------ MODULE ServiceProcessProofs ------------------------
(***************************************************************************)
(* What holds of a process with any number of workers and messages.        *)
(***************************************************************************)
EXTENDS ServiceProcess, FiniteInduction

Ints == -MaxInt - 1 .. MaxInt

LEMMA WrapType == \A n \in Int : Wrap(n) \in Ints
BY IntAssumption DEF Wrap, Ints

LEMMA WrapIdle == \A n \in 0 .. MaxInt : Wrap(n) = n
BY IntAssumption DEF Wrap

(* What is read character by character.                                    *)
LEMMA NumeralSteps ==
  ASSUME NEW s \in Values
  PROVE  \E value \in [0 .. Len(s) -> Nat] :
           /\ value[0] = 0 /\ Numeral(s) = value[Len(s)]
           /\ \A k \in 1 .. Len(s) : value[k] = value[k - 1] * 10 + s[k]
<1>. DEFINE n == Len(s)
            h == [k \in 1 .. n |-> [v \in Nat |-> v * 10 + s[k]]]
            Eq(v) == v = [k \in 0 .. n |-> IF k = 0 THEN 0 ELSE v[k - 1] * 10 + s[k]]
            value == CHOOSE v : Eq(v)
<1>1. n \in Nat /\ \A k \in 1 .. n : s[k] \in Nat
  BY DEF Values, Digits, Other
<1>2. h \in [1 .. n -> [Nat -> Nat]]
  BY <1>1
<1>3. PICK g \in [0 .. n -> Nat] : Follows(g, 0, h, n)
  <2>. HIDE DEF n, h
  <2>. QED BY <1>1, <1>2, RecursionExists
<1>4. \A k \in 1 .. n : g[k] = g[k - 1] * 10 + s[k]
  <2>. SUFFICES ASSUME NEW k \in 1 .. n PROVE g[k] = g[k - 1] * 10 + s[k]
    OBVIOUS
  <2>1. g[k] = h[k][g[k - 1]]
    <3>. HIDE DEF h
    <3>. QED BY <1>3 DEF Follows
  <2>2. g[k - 1] \in Nat
    BY <1>1
  <2>. QED BY <2>1, <2>2
<1>5. Eq(g)
  BY <1>3, <1>4 DEF Follows
<1>6. Eq(value)
  <2>. HIDE DEF Eq
  <2>. QED BY <1>5
<1>7. Numeral(s) = value[n]
  BY DEF Numeral
<1>. HIDE DEF value
<1>8. value[0] = 0 /\ \A k \in 1 .. n : value[k] = value[k - 1] * 10 + s[k]
  BY <1>1, <1>6
<1>9. 0 .. n \subseteq {k \in 0 .. n : value[k] \in Nat}
  <2>. DEFINE T == {k \in 0 .. n : value[k] \in Nat}
  <2>1. ASSUME NEW k \in 1 .. n, k - 1 \in T PROVE k \in T
    <3>1. k \in 0 .. n /\ s[k] \in Nat /\ value[k - 1] \in Nat /\ value[k] = value[k - 1] * 10 + s[k]
      BY <1>1, <1>8, <2>1
    <3>. QED BY <3>1
  <2>2. 0 \in T
    BY <1>1, <1>8
  <2>. HIDE DEF T, n
  <2>3. 0 .. n \subseteq T
    BY <1>1, <2>1, <2>2, UpTo
  <2>. QED BY <2>3 DEF T
<1>. QED BY <1>6, <1>7, <1>8, <1>9

LEMMA ParseSteps ==
  ASSUME NEW s \in Values
  PROVE  \E result \in [0 .. Len(s) -> Ints] :
           /\ result[0] = 0
           /\ parseInt(s) = IF \E k \in DOMAIN s : s[k] \notin Digits THEN 0 ELSE result[Len(s)]
           /\ \A k \in 1 .. Len(s) : result[k] = Wrap(result[k - 1] * 10 + s[k])
<1>. DEFINE n == Len(s)
            h == [k \in 1 .. n |-> [v \in Ints |-> Wrap(v * 10 + s[k])]]
            Eq(v) == v = [k \in 0 .. n |-> IF k = 0 THEN 0 ELSE Wrap(v[k - 1] * 10 + s[k])]
            result == CHOOSE v : Eq(v)
<1>1. n \in Nat /\ 0 \in Ints /\ (\A i \in Ints : i \in Int) /\ \A k \in 1 .. n : s[k] \in Int
  BY IntAssumption DEF Values, Digits, Other, Ints
<1>2. h \in [1 .. n -> [Ints -> Ints]]
  <2>1. ASSUME NEW k \in 1 .. n, NEW v \in Ints PROVE Wrap(v * 10 + s[k]) \in Ints
    <3>1. v * 10 + s[k] \in Int
      BY <1>1
    <3>. QED BY <3>1, WrapType
  <2>. QED BY <2>1
<1>3. PICK g \in [0 .. n -> Ints] : Follows(g, 0, h, n)
  <2>. HIDE DEF n, h
  <2>. QED BY <1>1, <1>2, RecursionExists
<1>4. \A k \in 1 .. n : g[k] = Wrap(g[k - 1] * 10 + s[k])
  <2>. SUFFICES ASSUME NEW k \in 1 .. n PROVE g[k] = Wrap(g[k - 1] * 10 + s[k])
    OBVIOUS
  <2>1. g[k] = h[k][g[k - 1]]
    <3>. HIDE DEF h
    <3>. QED BY <1>3 DEF Follows
  <2>2. g[k - 1] \in Ints
    BY <1>1
  <2>. QED BY <2>1, <2>2
<1>5. Eq(g)
  BY <1>3, <1>4 DEF Follows
<1>6. Eq(result)
  <2>. HIDE DEF Eq
  <2>. QED BY <1>5
<1>7. parseInt(s) = IF \E k \in DOMAIN s : s[k] \notin Digits THEN 0 ELSE result[n]
  BY DEF parseInt
<1>. HIDE DEF result
<1>8. result[0] = 0 /\ \A k \in 1 .. n : result[k] = Wrap(result[k - 1] * 10 + s[k])
  BY <1>1, <1>6
<1>9. 0 .. n \subseteq {k \in 0 .. n : result[k] \in Ints}
  <2>. DEFINE T == {k \in 0 .. n : result[k] \in Ints}
  <2>1. ASSUME NEW k \in 1 .. n, k - 1 \in T PROVE k \in T
    <3>1. result[k - 1] \in Ints /\ result[k] = Wrap(result[k - 1] * 10 + s[k])
      BY <1>8, <2>1
    <3>2. result[k - 1] \in Int /\ s[k] \in Int
      BY <1>1, <3>1
    <3>3. PICK x \in Int : x = result[k - 1] * 10 + s[k]
      BY <3>2
    <3>4. result[k] \in Ints
      BY <3>1, <3>3, WrapType
    <3>. QED BY <1>1, <3>4
  <2>2. 0 \in T
    BY <1>1, <1>8
  <2>. HIDE DEF T, n
  <2>3. 0 .. n \subseteq T
    BY <1>1, <2>1, <2>2, UpTo
  <2>. QED BY <2>3 DEF T
<1>. QED BY <1>6, <1>7, <1>8, <1>9

(* The numbers read on the way to one are no greater.                      *)
LEMMA NumeralGrows ==
  ASSUME NEW s \in Values, NEW value \in [0 .. Len(s) -> Nat],
         \A k \in 1 .. Len(s) : value[k] = value[k - 1] * 10 + s[k]
  PROVE  \A k \in 0 .. Len(s) : value[k] <= value[Len(s)]
<1>. DEFINE n == Len(s)
            T == {j \in 0 .. n : value[n - j] <= value[n]}
<1>1. n \in Nat /\ \A k \in 1 .. n : s[k] \in Nat
  <2>1. n \in Nat /\ \A k \in 1 .. n : s[k] \in Digits \cup {Other}
    BY DEF Values
  <2>2. Digits \cup {Other} \subseteq Nat
    BY DEF Digits, Other
  <2>. QED BY <2>1, <2>2
<1>2. 0 \in T
  BY <1>1
<1>3. ASSUME NEW j \in 1 .. n, j - 1 \in T PROVE j \in T
  <2>. PICK k : k = n - (j - 1)
    OBVIOUS
  <2>. k \in 1 .. n
    BY <1>1
  <2>1. value[k] <= value[n]
    <3>1. value[n - (j - 1)] <= value[n]
      BY <1>3
    <3>. HIDE DEF n, T
    <3>. QED BY <3>1
  <2>2. value[k] = value[k - 1] * 10 + s[k]
    OBVIOUS
  <2>3. s[k] \in Nat
    BY <1>1
  <2>4. k - 1 \in 0 .. n /\ k \in 0 .. n /\ n \in 0 .. n /\ n - j = k - 1 /\ j \in 0 .. n
    BY <1>1
  <2>5. value[k] \in Nat /\ value[k - 1] \in Nat /\ value[n] \in Nat
    BY <2>4
  <2>6. value[k - 1] <= value[n]
    <3>. PICK u, v, w, x : u = value[k] /\ v = value[k - 1] /\ w = value[n] /\ x = s[k]
      OBVIOUS
    <3>1. u \in Nat /\ v \in Nat /\ w \in Nat /\ x \in Nat /\ u <= w /\ u = v * 10 + x
      BY <2>1, <2>2, <2>3, <2>5
    <3>2. v <= w
      BY ONLY <3>1
    <3>. QED BY <3>2
  <2>. QED BY <2>4, <2>6
<1>4. 0 .. n \subseteq T
  <2>. HIDE DEF n, T
  <2>. QED BY <1>1, <1>2, <1>3, UpTo
<1>5. ASSUME NEW k \in 0 .. n PROVE value[k] <= value[n]
  <2>1. n - k \in 0 .. n /\ n - (n - k) = k
    BY <1>1
  <2>. QED BY <1>4, <2>1
<1>. QED BY <1>5

(* Whatever WORKER_COUNT says, of any length, at least one worker runs,    *)
(* and as many as it says, if it is a number that an int can hold.         *)
THEOREM CountsComeOutAsTold == \A s \in Values : CountsAsTold(s)
<1>. SUFFICES ASSUME NEW s \in Values PROVE CountsAsTold(s)
  OBVIOUS
<1>. DEFINE n == Len(s)
<1>1. n \in Nat /\ DOMAIN s = 1 .. n /\ \A k \in 1 .. n : s[k] \in Nat
  BY DEF Values, Digits, Other
<1>2. PICK result \in [0 .. n -> Ints] :
        /\ result[0] = 0
        /\ parseInt(s) = IF \E k \in DOMAIN s : s[k] \notin Digits THEN 0 ELSE result[n]
        /\ \A k \in 1 .. n : result[k] = Wrap(result[k - 1] * 10 + s[k])
  BY ParseSteps
<1>3. PICK value \in [0 .. n -> Nat] :
        /\ value[0] = 0 /\ Numeral(s) = value[n]
        /\ \A k \in 1 .. n : value[k] = value[k - 1] * 10 + s[k]
  BY NumeralSteps
<1>4. parseInt(s) \in Ints
  BY <1>1, <1>2, IntAssumption DEF Ints
<1>5. getEnvInt(s) \in 1 .. MaxInt
  BY <1>4, IntAssumption, ConfigurationAssumption DEF getEnvInt, Ints
<1>6. (\E k \in DOMAIN s : s[k] \notin Digits) => getEnvInt(s) = DefaultCount
  BY <1>2 DEF getEnvInt
<1>7. ASSUME \A k \in DOMAIN s : s[k] \in Digits, Numeral(s) \in 1 .. MaxInt
      PROVE  getEnvInt(s) = Numeral(s)
  <2>. DEFINE T == {k \in 0 .. n : result[k] = value[k]}
  <2>1. 0 \in T
    BY <1>1, <1>2, <1>3
  <2>2. ASSUME NEW k \in 1 .. n, k - 1 \in T PROVE k \in T
    <3>1. result[k] = Wrap(value[k]) /\ k \in 0 .. n
      BY <1>1, <1>2, <1>3, <2>2
    <3>2. value[k] \in 0 .. MaxInt
      <4>1. value[k] <= value[n]
        <5>1. \A i \in 1 .. Len(s) : value[i] = value[i - 1] * 10 + s[i]
          BY <1>3
        <5>2. \A i \in 0 .. Len(s) : value[i] <= value[Len(s)]
          BY <5>1, NumeralGrows
        <5>. QED BY <3>1, <5>2
      <4>2. value[k] \in Nat /\ value[n] \in 1 .. MaxInt
        <5>1. value[n] = Numeral(s) /\ value[k] \in Nat
          BY <1>3, <3>1
        <5>. QED BY <1>7, <5>1
      <4>. QED BY <4>1, <4>2, IntAssumption
    <3>. QED BY <3>1, <3>2, WrapIdle
  <2>3. 0 .. n \subseteq T
    <3>. HIDE DEF n, T
    <3>. QED BY <1>1, <2>1, <2>2, UpTo
  <2>4. result[n] = value[n]
    BY <1>1, <2>3
  <2>. QED BY <1>2, <1>3, <1>7, <2>4, IntAssumption DEF getEnvInt
<1>. QED BY <1>5, <1>6, <1>7 DEF CountsAsTold

-----------------------------------------------------------------------------
MsgOrNone == Messages \cup {NoMsg}

Typed ==
  /\ launched \in Nat /\ worker \in [Pool -> Places]
  /\ hand \in [Pool -> MsgOrNone] /\ buffer \in [Pool -> MsgOrNone]
  /\ unacked \in [Pool -> MsgOrNone]
  /\ ready \subseteq Messages /\ acked \subseteq Messages

(* Who works is counted by the wait group.                                 *)
Counted ==
  /\ \A w \in Pool : /\ w > launched => worker[w] = "off"
                     /\ worker[w] \notin {"off", "done"} => w \in added
  /\ exit \in {"no", "graceful"} => cut = {}

(* Where the messages are.  What the broker has outstanding at w is in w's *)
(* hand or buffer as long as the channel is open; afterwards w may still   *)
(* hold what was taken back, but nothing that was acknowledged.            *)
Kept ==
  /\ stage = "connect" => /\ link # "up"
                          /\ \A w \in Pool : worker[w] = "off" /\ buffer[w] = NoMsg
  /\ \A w \in Pool : /\ hand[w] # NoMsg <=> worker[w] \in {"working", "settling"}
                     /\ worker[w] = "settling" => hand[w] \in finished
  /\ \A w \in Pool : hand[w] \notin acked /\ buffer[w] \notin acked
  /\ \A w \in Pool : unacked[w] \notin ready \cup acked
  /\ \A v, w \in Pool : v # w /\ unacked[v] = unacked[w] => unacked[v] = NoMsg
  /\ ready \cap acked = {}
  /\ acked \subseteq finished
  /\ cut \cap acked = {}

Outstanding ==
  \A w \in Pool :
    /\ link = "up" /\ exit = "no" =>
         /\ unacked[w] = IF hand[w] = NoMsg THEN buffer[w] ELSE hand[w]
         /\ hand[w] = NoMsg \/ buffer[w] = NoMsg
    /\ link # "up" => unacked[w] = NoMsg

Inv == Typed /\ Counted /\ Kept /\ Outstanding

LEMMA InitInv == Init => Inv
BY ProcessAssumption
DEF Init, Inv, Typed, Counted, Kept, Outstanding, MsgOrNone, Places

(* The steps of the main and the shutdown goroutine before the end.        *)
LEMMA MainStep ==
  ASSUME Inv, exit = "no",
         ConnectFails \/ Connect \/ Launch \/ Serve \/ Listen \/ Arm \/ Signal
  PROVE  Inv'
<1>. USE ProcessAssumption DEF Inv
<1>1. CASE ConnectFails \/ Connect
  <2>1. /\ UNCHANGED <<launched, workerVars, brokerVars, endVars, finished>>
        /\ stage = "connect" /\ (stage' = "connect" => link' # "up")
    BY <1>1 DEF ConnectFails, Connect
  <2>2. \A w \in Pool : hand[w] = NoMsg /\ buffer[w] = NoMsg /\ unacked[w] = NoMsg
    BY <2>1 DEF Kept, Outstanding
  <2>3. Typed' /\ Counted' /\ Outstanding'
    BY <2>1, <2>2 DEF workerVars, brokerVars, endVars, Typed, Counted, Outstanding
  <2>. QED BY <2>1, <2>3 DEF workerVars, brokerVars, endVars, Kept
<1>2. CASE Launch
  <2>. DEFINE n == launched + 1
  <2>1. /\ stage' = stage /\ stage = "launch" /\ launched' = n
        /\ worker' = [worker EXCEPT ![n] = "starting"] /\ added' = added \cup {n}
        /\ UNCHANGED <<link, hand, verdict, brokerVars, endVars, finished>>
    BY <1>2 DEF Launch
  <2>2. n \in Pool => worker[n] = "off"
    BY DEF Typed, Counted
  <2>3. Typed'
    <3>1. n \in Nat
      BY DEF Typed
    <3>2. worker' \in [Pool -> Places]
      BY <2>1 DEF Typed, Places
    <3>. QED BY <2>1, <3>1, <3>2 DEF brokerVars, Typed
  <2>4. \A w \in Pool : worker'[w] = IF w = n THEN "starting" ELSE worker[w]
    BY <2>1 DEF Typed
  <2>5. Counted'
    <3>1. \A w \in Pool : w > launched' => w > launched /\ w # n
      BY <2>1 DEF Typed, Pool
    <3>. QED BY <2>1, <2>4, <3>1 DEF endVars, Counted
  <2>6. Kept'
    BY <2>1, <2>2, <2>4 DEF brokerVars, endVars, Typed, Kept
  <2>7. Outstanding'
    BY <2>1 DEF brokerVars, endVars, Outstanding
  <2>. QED BY <2>3, <2>5, <2>6, <2>7
<1>3. CASE Serve \/ Listen \/ Arm \/ Signal
  <2>1. /\ UNCHANGED <<launched, link, workerVars, brokerVars, exit, cut, finished>>
        /\ stage' = "connect" => stage = "connect"
    BY <1>3 DEF Serve, Listen, Arm, Signal, mainVars, endVars
  <2>. QED
    BY <2>1 DEF workerVars, brokerVars, Typed, Counted, Kept, Outstanding
<1>. QED BY <1>1, <1>2, <1>3

LEMMA WorkerStep ==
  ASSUME Inv, exit = "no", NEW w \in Pool, Work(w) \/ Process(w) \/ Stop(w)
  PROVE  Inv'
<1>. USE ProcessAssumption DEF Inv, Goto, Return, Waiting
<1>1. UNCHANGED <<mainVars, link, endVars>>
  BY DEF Work, Consume, Take, TakeEmpty, DropEmpty, Settle, Process, Stop
<1>2. stage # "connect"
  <2>1. worker[w] # "off"
    BY DEF Work, Consume, Take, TakeEmpty, DropEmpty, Settle, Process, Stop
  <2>. QED BY <2>1 DEF Kept
<1>3. CASE Consume(w) \/ TakeEmpty(w) \/ DropEmpty(w) \/ Stop(w)
  <2>1. /\ UNCHANGED <<hand, buffer, unacked, ready, acked, finished>>
        /\ worker[w] \in {"starting", "waiting", "empty"}
        /\ \/ worker' = [worker EXCEPT ![w] = "waiting"] /\ added' = added
           \/ worker' = [worker EXCEPT ![w] = "empty"] /\ added' = added
           \/ worker' = [worker EXCEPT ![w] = "done"] /\ added' = added \ {w}
    BY <1>3 DEF Consume, TakeEmpty, DropEmpty, Stop, brokerVars
  <2>2. Typed'
    BY <1>1, <2>1 DEF mainVars, Typed, Places
  <2>3. Counted'
    BY <1>1, <2>1 DEF mainVars, endVars, Typed, Counted
  <2>4. Kept'
    BY <1>1, <2>1 DEF mainVars, endVars, Typed, Kept
  <2>5. Outstanding'
    BY <1>1, <2>1 DEF endVars, Outstanding
  <2>. QED BY <2>2, <2>3, <2>4, <2>5
<1>4. CASE Take(w)
  <2>1. /\ UNCHANGED <<added, unacked, ready, acked, finished>>
        /\ worker[w] = "waiting" /\ worker' = [worker EXCEPT ![w] = "working"]
        /\ buffer[w] # NoMsg /\ hand' = [hand EXCEPT ![w] = buffer[w]]
        /\ buffer' = [buffer EXCEPT ![w] = NoMsg]
    BY <1>4 DEF Take
  <2>2. Typed'
    BY <1>1, <2>1 DEF mainVars, Typed, Places, MsgOrNone
  <2>3. Counted'
    BY <1>1, <2>1 DEF mainVars, endVars, Typed, Counted
  <2>4. Kept'
    BY <1>1, <1>2, <2>1 DEF mainVars, endVars, Typed, Kept
  <2>5. Outstanding'
    BY <1>1, <2>1 DEF endVars, Typed, Kept, Outstanding
  <2>. QED BY <2>2, <2>3, <2>4, <2>5
<1>5. CASE Process(w)
  <2>1. /\ UNCHANGED <<added, hand, buffer, unacked, ready, acked>>
        /\ worker[w] = "working" /\ worker' = [worker EXCEPT ![w] = "settling"]
        /\ finished' = finished \cup {hand[w]}
    BY <1>5 DEF Process, brokerVars
  <2>2. Typed' /\ Counted'
    BY <1>1, <2>1 DEF mainVars, endVars, Typed, Places, Counted
  <2>3. Kept'
    BY <1>1, <1>2, <2>1 DEF mainVars, endVars, Typed, Kept
  <2>4. Outstanding'
    BY <1>1, <2>1 DEF endVars, Outstanding
  <2>. QED BY <2>2, <2>3, <2>4
<1>6. CASE Settle(w)
  <2>1. /\ UNCHANGED <<added, buffer, finished>>
        /\ worker[w] = "settling" /\ worker' = [worker EXCEPT ![w] = "waiting"]
        /\ hand' = [hand EXCEPT ![w] = NoMsg] /\ unacked' = [unacked EXCEPT ![w] = NoMsg]
        /\ \/ ready' = ready \cup ({unacked[w]} \ {NoMsg}) /\ acked' = acked
           \/ ready' = ready /\ acked' = acked \cup ({unacked[w]} \ {NoMsg})
           \/ ready' = ready /\ acked' = acked
    BY <1>6 DEF Settle
  <2>2. hand[w] \in finished /\ hand[w] # NoMsg /\ unacked[w] \in {hand[w], NoMsg}
    BY <2>1 DEF Kept, Outstanding
  <2>3. Typed' /\ Counted'
    BY <1>1, <2>1 DEF mainVars, endVars, Typed, Places, MsgOrNone, Counted
  <2>4. Outstanding'
    BY <1>1, <2>1, <2>2 DEF endVars, Typed, Outstanding
  <2>5. \A v \in Pool : unacked[w] # NoMsg /\ v # w =>
          unacked[w] \notin {hand[v], buffer[v], unacked[v]}
    BY <2>2 DEF Kept, Outstanding
  <2>6. unacked[w] # NoMsg => buffer[w] = NoMsg
    BY <2>2 DEF Outstanding
  <2>7. cut' = {} /\ stage' # "connect" /\ buffer' = buffer /\ finished' = finished
    BY <1>1, <1>2, <2>1 DEF mainVars, endVars, Counted
  <2>8. NoMsg \notin ready \cup acked
    BY DEF Typed
  <2>9. ASSUME unacked[w] = NoMsg PROVE Kept'
    <3>1. ready' = ready /\ acked' = acked /\ unacked' = unacked
      BY <2>1, <2>9 DEF Typed
    <3>2. \A v \in Pool : /\ hand'[v] # NoMsg <=> worker'[v] \in {"working", "settling"}
                          /\ worker'[v] = "settling" => hand'[v] \in finished'
      BY <2>1, <2>7 DEF Typed, Kept
    <3>3. \A v \in Pool : hand'[v] \notin acked
      BY <2>1, <2>8 DEF Typed, Kept
    <3>. QED BY <2>7, <3>1, <3>2, <3>3 DEF Kept
  <2>10. ASSUME unacked[w] # NoMsg PROVE Kept'
    <3>1. unacked[w] = hand[w] /\ hand[w] \notin ready \cup acked
      BY <2>2, <2>10 DEF Kept
    <3>2. \/ ready' = ready \cup {hand[w]} /\ acked' = acked
          \/ ready' = ready /\ acked' = acked \cup {hand[w]}
          \/ ready' = ready /\ acked' = acked
      BY <2>1, <2>10, <3>1
    <3>3. \A v \in Pool : /\ hand'[v] # NoMsg <=> worker'[v] \in {"working", "settling"}
                          /\ worker'[v] = "settling" => hand'[v] \in finished'
      BY <2>1, <2>7 DEF Typed, Kept
    <3>4. \A v \in Pool : hand'[v] \notin acked' /\ buffer'[v] \notin acked'
      BY <2>1, <2>2, <2>5, <2>6, <2>7, <2>8, <2>10, <3>1, <3>2 DEF Typed, Kept
    <3>5. \A v \in Pool : unacked'[v] \notin ready' \cup acked'
      BY <2>1, <2>2, <2>5, <2>8, <2>10, <3>1, <3>2 DEF Typed, Kept
    <3>6. \A u, v \in Pool : u # v /\ unacked'[u] = unacked'[v] => unacked'[u] = NoMsg
      BY <2>1 DEF Typed, Kept
    <3>7. ready' \cap acked' = {} /\ acked' \subseteq finished'
      BY <2>2, <2>7, <3>1, <3>2 DEF Kept
    <3>. QED BY <2>7, <3>3, <3>4, <3>5, <3>6, <3>7 DEF Kept
  <2>11. Kept'
    BY <2>9, <2>10
  <2>. QED BY <2>3, <2>4, <2>11
<1>. QED BY <1>3, <1>4, <1>5, <1>6 DEF Work

LEMMA BrokerStep ==
  ASSUME Inv, exit = "no",
         (\E w \in Pool : Push(w)) \/ LinkLoss \/ (\E m \in Messages : Publish(m))
  PROVE  Inv'
<1>. USE ProcessAssumption DEF Inv
<1>1. /\ UNCHANGED <<mainVars, workerVars, acked, endVars, finished>>
      /\ stage # "connect" \/ \E w \in Pool : Push(w)
  BY DEF Push, LinkLoss, Publish, Accepts, Queues
<1>2. ASSUME NEW w \in Pool, Push(w) PROVE Inv'
  <2>1. PICK m \in ready : /\ link = "up" /\ link' = link /\ unacked[w] = NoMsg
                           /\ ready' = ready \ {m} /\ unacked' = [unacked EXCEPT ![w] = m]
                           /\ buffer' = [buffer EXCEPT ![w] = m]
    BY <1>2 DEF Push
  <2>2. hand[w] = NoMsg /\ buffer[w] = NoMsg /\ m # NoMsg /\ m \in Messages /\ m \notin acked
    BY <2>1 DEF Typed, Kept, Outstanding
  <2>3. Typed' /\ Counted'
    BY <1>1, <2>1, <2>2 DEF mainVars, workerVars, endVars, Typed, Counted, MsgOrNone
  <2>4. Kept'
    <3>1. stage # "connect"
      BY <2>1 DEF Kept
    <3>2. \A v \in Pool : unacked[v] # m /\ buffer'[v] \notin acked
      BY <2>1, <2>2 DEF Typed, Kept
    <3>3. \A v \in Pool : unacked'[v] = IF v = w THEN m ELSE unacked[v]
      BY <2>1 DEF Typed
    <3>. QED
      BY <1>1, <2>1, <2>2, <3>1, <3>2, <3>3 DEF mainVars, workerVars, endVars, Kept
  <2>5. Outstanding'
    BY <1>1, <2>1, <2>2 DEF workerVars, endVars, Typed, Outstanding
  <2>. QED BY <2>3, <2>4, <2>5
<1>3. CASE LinkLoss
  <2>1. /\ link' # "up" /\ stage # "connect"
        /\ ready' = ready \cup Returned /\ unacked' = [w \in Pool |-> NoMsg]
        /\ buffer' \in [Pool -> MsgOrNone]
        /\ \A w \in Pool : buffer'[w] \in {buffer[w], NoMsg}
    BY <1>3 DEF LinkLoss, Typed, MsgOrNone
  <2>2. Returned \subseteq Messages /\ Returned \cap acked = {}
    BY DEF Returned, Typed, Kept, MsgOrNone
  <2>3. Typed' /\ Counted' /\ Outstanding'
    BY <1>1, <2>1, <2>2 DEF mainVars, workerVars, endVars, Typed, Counted, Outstanding, MsgOrNone
  <2>4. Kept'
    BY <1>1, <2>1, <2>2 DEF mainVars, workerVars, endVars, Typed, Kept
  <2>. QED BY <2>3, <2>4
<1>4. ASSUME NEW m \in Messages, Publish(m) PROVE Inv'
  <2>1. /\ m \notin Known /\ ready' = ready \cup {m}
        /\ UNCHANGED <<link, buffer, unacked>>
    BY <1>4 DEF Publish
  <2>2. m \notin acked /\ \A w \in Pool : unacked[w] # m
    BY <2>1 DEF Known, Returned
  <2>3. Typed' /\ Counted' /\ Outstanding'
    BY <1>1, <2>1 DEF mainVars, workerVars, endVars, Typed, Counted, Outstanding
  <2>4. Kept'
    BY <1>1, <2>1, <2>2 DEF mainVars, workerVars, endVars, Typed, Kept
  <2>. QED BY <2>3, <2>4
<1>. QED BY <1>2, <1>3, <1>4

LEMMA EndStep ==
  ASSUME Inv, exit = "no", WorkersDone \/ TimeIsUp \/ Kill \/ ListenFails
  PROVE  Inv'
<1>. USE ProcessAssumption DEF Inv
<1>1. PICK how \in {"graceful", "timeout", "killed", "fatal"} :
        Exit(how) /\ (how = "graceful" => added = {})
  BY DEF WorkersDone, TimeIsUp, Kill, ListenFails
<1>2. /\ UNCHANGED <<mainVars, link, workerVars, buffer, acked, finished>>
      /\ exit' = how /\ unacked' = [w \in Pool |-> NoMsg] /\ ready' = ready \cup Returned
      /\ cut' = {hand[w] : w \in {v \in Pool : worker[v] \in {"working", "settling"}}}
  BY <1>1 DEF Exit
<1>3. Returned \subseteq Messages /\ Returned \cap acked = {} /\ cut' \cap acked = {}
  BY <1>2 DEF Returned, Typed, Kept, MsgOrNone
<1>4. Typed' /\ Outstanding'
  BY <1>2, <1>3 DEF mainVars, workerVars, Typed, Outstanding, MsgOrNone
<1>5. Counted'
  <2>1. added = {} => cut' = {}
    BY <1>2 DEF Counted
  <2>. QED BY <1>1, <1>2, <2>1 DEF mainVars, workerVars, Counted
<1>6. Kept'
  BY <1>2, <1>3 DEF mainVars, workerVars, Typed, Kept
<1>. QED BY <1>4, <1>5, <1>6

LEMMA StepInv == Inv /\ [Next]_vars => Inv'
<1>. SUFFICES ASSUME Inv, [Next]_vars PROVE Inv'
  OBVIOUS
<1>1. CASE exit = "no" /\ Running
  BY <1>1, MainStep, WorkerStep, BrokerStep, EndStep DEF Running
<1>2. CASE UNCHANGED vars
  BY <1>2 DEF vars, mainVars, workerVars, brokerVars, endVars,
              Inv, Typed, Counted, Kept, Outstanding
<1>. QED BY <1>1, <1>2 DEF Next, Exited

LEMMA InvHolds == Spec => []Inv
BY InitInv, StepInv, PTL DEF Spec

-----------------------------------------------------------------------------

(* However many workers there are, and whenever the signal, a loss of the  *)
(* connection and new requests come: a shutdown that calls itself graceful *)
(* leaves no message half worked on.                                       *)
THEOREM NothingIsCutShort == Spec => []GracefulCutsNothing
<1>1. Inv => GracefulCutsNothing
  BY DEF Inv, Counted, GracefulCutsNothing
<1>. QED BY <1>1, InvHolds, PTL

(* However the process ends, a message that is gone from the queue has     *)
(* been worked on to the end.                                              *)
THEOREM NothingIsAckedUnread == Spec => []OnlyFinishedWorkIsAcked
<1>1. Inv => OnlyFinishedWorkIsAcked
  BY DEF Inv, Kept, OnlyFinishedWorkIsAcked
<1>. QED BY <1>1, InvHolds, PTL

(* Among any number of workers a delivery has one holder, and it is the    *)
(* one to whose consumer the broker gave it.                               *)
THEOREM DeliveriesHaveOneHolder == Spec => []OneHolder
<1>1. Inv => OneHolder
  <2>. SUFFICES ASSUME Inv, link = "up", exit = "no", NEW w \in Pool, NEW m \in Messages
                PROVE  Holds(w, m) <=> unacked[w] = m
                         /\ m \notin ready /\ \A v \in Pool \ {w} : ~Holds(v, m)
    BY DEF OneHolder
  <2>1. \A v \in Pool : Holds(v, m) <=> unacked[v] = m
    BY ProcessAssumption DEF Inv, Outstanding, Holds
  <2>. QED BY <2>1, ProcessAssumption DEF Inv, Kept
<1>. QED BY <1>1, InvHolds, PTL

-----------------------------------------------------------------------------
(* How many workers there are                                              *)

Told == \E s \in Settings : count = getEnvInt(s)

(* The workers that were launched are there until a signal or the end of   *)
(* the connection lets them return, and with a connection there are some.  *)
Staffed ==
  /\ \A w \in Pool : /\ w <= launched => worker[w] # "off"
                     /\ worker[w] = "done" => cancelled \/ link # "up"
  /\ stage = "connect" => ~asyncMode
  /\ asyncMode /\ stage \in {"serve", "listen"} => launched >= count

LEMMA InitStaffed == Init => ProcessTypeOK /\ Told /\ Staffed
<1>. SUFFICES ASSUME Init PROVE ProcessTypeOK /\ Told /\ Staffed
  OBVIOUS
<1>1. Told /\ count \in Pool
  BY CountsComeOutAsTold, ProcessAssumption DEF Init, Told, CountsAsTold, Pool
<1>2. launched = 0 /\ 0 \in 0 .. count /\ 0 \in 0 .. Attempts
  BY <1>1, ProcessAssumption DEF Init, Pool
<1>3. ProcessTypeOK
  BY <1>1, <1>2 DEF Init, ProcessTypeOK, Links, Places
<1>4. Staffed
  BY <1>2 DEF Init, Staffed, Pool
<1>. QED BY <1>1, <1>3, <1>4

LEMMA StepProcessType == Inv /\ ProcessTypeOK /\ [Next]_vars => ProcessTypeOK'
<1>. SUFFICES ASSUME Inv, ProcessTypeOK, [Next]_vars PROVE ProcessTypeOK'
  OBVIOUS
<1>. USE DEF ProcessTypeOK, Goto, Return, Waiting, Links, Places
<1>1. CASE UNCHANGED vars
  BY <1>1 DEF vars, mainVars, workerVars, brokerVars, endVars
<1>2. CASE ConnectFails \/ Connect \/ Serve \/ Listen \/ Arm \/ Signal
  <2>1. CASE ConnectFails
    <3>1. attempts + 1 \in 0 .. Attempts
      BY <2>1, ProcessAssumption DEF ConnectFails
    <3>. QED BY <2>1, <3>1 DEF ConnectFails, workerVars, brokerVars, endVars
  <2>2. CASE Connect
    BY <2>2 DEF Connect, workerVars, brokerVars, endVars
  <2>3. CASE Serve
    BY <2>3 DEF Serve, workerVars, brokerVars, endVars
  <2>4. CASE Listen
    BY <2>4 DEF Listen, workerVars, brokerVars, endVars
  <2>5. CASE Arm
    BY <2>5 DEF Arm, mainVars, workerVars, brokerVars
  <2>6. CASE Signal
    BY <2>6 DEF Signal, mainVars, workerVars, brokerVars
  <2>. QED BY <1>2, <2>1, <2>2, <2>3, <2>4, <2>5, <2>6
<1>3. CASE Launch
  <2>1. launched + 1 \in 0 .. count /\ launched + 1 \in Pool
    BY <1>3, IntAssumption DEF Launch, Pool
  <2>. QED BY <1>3, <2>1 DEF Launch, brokerVars, endVars
<1>4. ASSUME NEW w \in Pool, Work(w) \/ Stop(w) \/ Push(w) PROVE ProcessTypeOK'
  BY <1>4
  DEF Work, Consume, Take, TakeEmpty, DropEmpty, Settle, Stop, Push,
      mainVars, workerVars, brokerVars, endVars
<1>5. ASSUME NEW w \in Pool, Process(w) PROVE ProcessTypeOK'
  <2>1. hand[w] \in Messages
    BY <1>5 DEF Process, Inv, Kept
  <2>. QED BY <1>5, <2>1 DEF Process, mainVars, brokerVars, endVars
<1>6. Returned \subseteq Messages
  BY DEF Returned
<1>7. CASE LinkLoss
  <2>1. buffer' \in [Pool -> Messages \cup {NoMsg}] /\ unacked' \in [Pool -> Messages \cup {NoMsg}]
    BY <1>7 DEF LinkLoss
  <2>. QED BY <1>6, <1>7, <2>1 DEF LinkLoss, mainVars, workerVars, endVars
<1>8. ASSUME NEW m \in Messages, Publish(m) PROVE ProcessTypeOK'
  BY <1>8 DEF Publish, mainVars, workerVars, endVars
<1>9. CASE WorkersDone \/ TimeIsUp \/ Kill \/ ListenFails
  <2>1. \A w \in Pool : worker[w] \in {"working", "settling"} => hand[w] \in Messages
    BY DEF Inv, Kept
  <2>2. cut' \subseteq Messages
    BY <1>9, <2>1 DEF WorkersDone, TimeIsUp, Kill, ListenFails, Exit
  <2>. QED
    BY <1>6, <1>9, <2>2 DEF WorkersDone, TimeIsUp, Kill, ListenFails, Exit, mainVars, workerVars
<1>. QED
  BY <1>1, <1>2, <1>3, <1>4, <1>5, <1>7, <1>8, <1>9 DEF Next, Running, Exited

LEMMA StepTold == Told /\ [Next]_vars => Told'
<1>. SUFFICES ASSUME Told, [Next]_vars PROVE Told'
  OBVIOUS
<1>1. UNCHANGED count
  BY DEF Next, Running, Exited, ConnectFails, Connect, Launch, Serve, Listen, ListenFails, Work,
         Consume, Take, TakeEmpty, DropEmpty, Settle, Process, Stop, Push, LinkLoss, Publish, Arm,
         Signal, WorkersDone, TimeIsUp, Kill, Exit, vars, mainVars
<1>. QED BY <1>1 DEF Told

LEMMA StepStaffed == Inv /\ ProcessTypeOK /\ Staffed /\ [Next]_vars => Staffed'
<1>. SUFFICES ASSUME Inv, ProcessTypeOK, Staffed, [Next]_vars PROVE Staffed'
  OBVIOUS
<1>. USE DEF Staffed, Goto, Return, Waiting
<1>2. CASE UNCHANGED vars
  BY <1>2 DEF vars, mainVars, workerVars, endVars
<1>3. CASE ConnectFails \/ Connect
  <2>1. \A w \in Pool : worker[w] = "off"
    BY <1>3 DEF ConnectFails, Connect, Inv, Kept
  <2>. QED BY <1>3, <2>1 DEF ConnectFails, Connect, workerVars, endVars, ProcessTypeOK
<1>4. CASE Serve \/ Listen \/ Arm \/ Signal
  BY <1>4 DEF Serve, Listen, Arm, Signal, mainVars, workerVars, endVars
<1>5. CASE Launch
  <2>1. \A w \in Pool : /\ worker'[w] = IF w = launched + 1 THEN "starting" ELSE worker[w]
                        /\ w <= launched' => w <= launched \/ w = launched + 1
    BY <1>5 DEF Launch, ProcessTypeOK, Pool
  <2>. QED BY <1>5, <2>1 DEF Launch, endVars
<1>6. ASSUME NEW w \in Pool, Work(w) \/ Process(w) \/ Stop(w) PROVE Staffed'
  <2>1. /\ UNCHANGED <<launched, link, cancelled, stage, asyncMode, count>>
        /\ \A v \in Pool \ {w} : worker'[v] = worker[v]
        /\ worker'[w] # "off" /\ (worker'[w] = "done" => cancelled \/ link # "up")
    BY <1>6
    DEF Work, Consume, Take, TakeEmpty, DropEmpty, Settle, Process, Stop, mainVars, endVars,
        ProcessTypeOK
  <2>. QED BY <2>1
<1>7. CASE (\E w \in Pool : Push(w)) \/ LinkLoss \/ \E m \in Messages : Publish(m)
  BY <1>7 DEF Push, LinkLoss, Publish, mainVars, workerVars, endVars
<1>8. CASE WorkersDone \/ TimeIsUp \/ Kill \/ ListenFails
  BY <1>8 DEF WorkersDone, TimeIsUp, Kill, ListenFails, Exit, mainVars, workerVars
<1>. QED
  BY <1>2, <1>3, <1>4, <1>5, <1>6, <1>7, <1>8 DEF Next, Running, Exited

(* Every variable keeps its type, with as many workers as WORKER_COUNT     *)
(* asks for.                                                               *)
THEOREM ProcessTypesHold == Spec => []ProcessTypeOK
BY InitInv, StepInv, InitStaffed, StepProcessType, PTL DEF Spec

LEMMA StaffedHolds == Spec => [](ProcessTypeOK /\ Told /\ Staffed)
BY InitStaffed, StepTold, StepStaffed, InvHolds, ProcessTypesHold, PTL DEF Spec

(* The number of workers is what the environment says, read as a decimal   *)
(* numeral.                                                                *)
THEOREM PoolIsAsTold == Spec => []EveryCountAsTold
<1>1. Told => EveryCountAsTold
  BY CountsComeOutAsTold, ProcessAssumption DEF Told, EveryCountAsTold
<1>. QED BY <1>1, StaffedHolds, PTL

(* A process whose handlers use the queue launched all its workers, and    *)
(* while it accepts requests and no signal has come, one has not returned: *)
(* WORKER_COUNT cannot switch them off, a half-open connection switches    *)
(* nothing on, and none returns before the channel is gone.                *)
THEOREM AcceptedRequestsHaveWorkers == Spec => []AcceptedIsStaffed
<1>1. ProcessTypeOK /\ Staffed => AcceptedIsStaffed
  <2>. SUFFICES ASSUME ProcessTypeOK, Staffed, Queues
                PROVE  /\ launched = count
                       /\ Accepts /\ ~cancelled => \E w \in Pool : worker[w] \notin {"off", "done"}
    BY DEF AcceptedIsStaffed, Accepts
  <2>1. launched = count /\ 1 \in Pool /\ 1 <= launched
    BY IntAssumption DEF Queues, ProcessTypeOK, Staffed, Pool
  <2>2. ASSUME Accepts, ~cancelled PROVE worker[1] \notin {"off", "done"}
    BY <2>1, <2>2 DEF Accepts, Staffed
  <2>. QED BY <2>1, <2>2
<1>. QED BY <1>1, StaffedHolds, PTL

=============================================================================
