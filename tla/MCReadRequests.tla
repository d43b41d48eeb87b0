--------------------------- MODULE MCReadRequests ---------------------------
(* A short history, small pages, and pages far beyond its end.             *)
EXTENDS ReadRequests

SomePages  == {Absent, Bad, 0, 1, 6, 7}
SomeLimits == {Absent, Bad, 0, 3, 4}

=============================================================================
