--------------------------- MODULE MCCredential ---------------------------
(* Two models; the quota backoff is cut to its maximum on the second step  *)
(* (2, then 3 instead of 4), and the holds end within the clock.          *)
EXTENDS Credential, FiniteSets, TLC

CONSTANTS m1, m2
MCModels == {m1, m2}
MCRetryHints == {2}

(* Results without a model need no second model to do what they do: where  *)
(* an embedder reports them, one model at a time has a record.             *)
OneModelIfEmbedded == embedder => Cardinality(cred.tracked) <= 1

Symmetry == Permutations(MCModels)
=============================================================================
