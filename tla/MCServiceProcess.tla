-------------------------- MODULE MCServiceProcess --------------------------
(* A process with one to three workers, and every short WORKER_COUNT.      *)
EXTENDS ServiceProcess

CONSTANTS m1, m2

(* Unset, and everything of at most three characters: numbers in range,    *)
(* numbers that wrap around (8 to 0, 9 to 1, 12 to -4), and no numbers.    *)
SomeSettings == UNION {[1 .. n -> Digits \cup {Other}] : n \in 0 .. 3}

=============================================================================
