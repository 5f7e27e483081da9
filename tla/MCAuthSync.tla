----------------------------- MODULE MCAuthSync -----------------------------
(* Two goroutines: every race of this code is one of two of them; what     *)
(* they leave behind meets a third operation later.                        *)
EXTENDS AuthSync, TLC

CONSTANTS t1, t2, confA, confB
TwoTasks == {t1, t2}
TwoConfigurations == {confA, confB}

TaskSymmetry == Permutations(TwoTasks) \cup Permutations(TwoConfigurations)

AllKinds == Operations
RefreshAndToggle == {"update", "refresh", "toggle"}
=============================================================================
