--------------------------- MODULE MCAutoRefresh ---------------------------
(* One credential can fill the channel and block the loop by itself: the   *)
(* jobs of two pending periods, while its first refresh is under way.      *)
EXTENDS AutoRefresh, TLC

CONSTANTS c1, w1, u1
OneCredential == {c1}
OneWorker == {w1}
OneCaller == {u1}
=============================================================================
