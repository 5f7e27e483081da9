--------------------------- MODULE MCRequestLoop ---------------------------
(* Two credentials, one with two models, one with a further round, one     *)
(* that the credits fallback may use, and rounds bounded to one of them.   *)
EXTENDS RequestLoop, TLC

CONSTANTS a, b
TwoCreds == {a, b}
OneCred == {a}
TwoModels == [x \in TwoCreds |-> IF x = a THEN 2 ELSE 1]
OneRetry == [x \in TwoCreds |-> IF x = b THEN 1 ELSE 0]
ZeroAndOne == {0, 1}
=============================================================================
