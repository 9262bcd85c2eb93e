--------------------------- MODULE MCRunDispatch ---------------------------
(* Small instances of RunDispatch. *)
EXTENDS RunDispatch

CONSTANTS r1, r2, a, b, c, x, w1, w2

\* x is the only task of r2.
TwoRuns   == [t \in Task |-> IF t = x THEN r2 ELSE r1]
\* In r1, c joins a and b, or just follows a.
JoinDeps  == [t \in Task |-> IF t = c THEN {a, b} ELSE {}]
ChainDeps == [t \in Task |-> IF t = c THEN {a} ELSE {}]
=============================================================================
