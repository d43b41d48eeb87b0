---------------------------- MODULE Configuration ----------------------------
(***************************************************************************)
(* config/config.go: how many workers the environment asks for.  A value   *)
(* of WORKER_COUNT is a sequence of characters: 0 .. 9 stand for the       *)
(* digits, Other for everything else.                                      *)
(***************************************************************************)
EXTENDS GoIntegers, Sequences

CONSTANT DefaultCount      \* the default of WORKER_COUNT

ASSUME ConfigurationAssumption == DefaultCount \in 1 .. MaxInt

Other  == 10
Digits == 0 .. 9
Values == Seq(Digits \cup {Other})

(* Mutant of parseInt: what is not a digit is skipped.                     *)
parseIntLenient(s) ==
  LET result[k \in 0 .. Len(s)] == IF k = 0 THEN 0
                                   ELSE IF s[k] \notin Digits THEN result[k - 1]
                                   ELSE Wrap(result[k - 1] * 10 + s[k])
  IN  result[Len(s)]

(* result[k]: the variable result after k characters.                      *)
parseInt(s) ==
  LET result[k \in 0 .. Len(s)] == IF k = 0 THEN 0 ELSE Wrap(result[k - 1] * 10 + s[k])
  IN  IF \E k \in DOMAIN s : s[k] \notin Digits THEN 0 ELSE result[Len(s)]

(* Mutant of getEnvInt: zero and negative counts are taken as they come.   *)
getEnvIntUnchecked(s) == IF s = << >> THEN DefaultCount ELSE parseInt(s)

(* An unset variable is the empty one here: both select the default.       *)
getEnvInt(s) == IF parseInt(s) > 0 THEN parseInt(s) ELSE DefaultCount

-----------------------------------------------------------------------------

(* The number a decimal numeral denotes.                                   *)
Numeral(s) ==
  LET value[k \in 0 .. Len(s)] == IF k = 0 THEN 0 ELSE value[k - 1] * 10 + s[k]
  IN  value[Len(s)]

(* What WORKER_COUNT says is what runs, if it is a positive number an int  *)
(* can hold; if it is none, the default runs; and whatever it says, even a *)
(* number that wraps around, at least one worker runs.                     *)
CountsAsTold(s) ==
  /\ getEnvInt(s) \in 1 .. MaxInt
  /\ (\E k \in DOMAIN s : s[k] \notin Digits) => getEnvInt(s) = DefaultCount
  /\ (\A k \in DOMAIN s : s[k] \in Digits) /\ Numeral(s) \in 1 .. MaxInt
       => getEnvInt(s) = Numeral(s)

=============================================================================
