-------------------------- MODULE CredentialState --------------------------
(***************************************************************************)
(* The scheduling part of one credential (type Auth) and of its per-model  *)
(* records (type ModelState), with the functions of conductor.go and       *)
(* selector.go that compute on them.  No variable is declared here: the    *)
(* state machines Credential and AuthSync are built from these operators.  *)
(*                                                                         *)
(* Time is a natural number; 0 is Go's zero time, which is before every    *)
(* instant of a run.  Messages are left out; an error is the class of its  *)
(* status code, which is all the code branches on.                         *)
(***************************************************************************)
EXTENDS Integers, FiniteSets

CONSTANTS
    Models,         \* the model keys a result can name
    QuotaBase,      \* quotaBackoffBase (1s), in units of the model's clock
    QuotaMax,       \* quotaBackoffMax (30min)
    TransientHold,  \* the 1 minute hold of 408 and 5xx
    AccountHold,    \* the 30 minutes hold of 401, 402 and 403
    LongHold,       \* the 12 hours hold of 404 and of unsupported models
    RetryHints      \* the RetryAfter values an upstream may send with a 429

Zero == 0

\* 1 << level for the levels a cooldown can reach: with a base of one second
\* and a maximum of 30 minutes the doubling stops at 2^11.
Pow2 == <<1, 2, 4, 8, 16, 32, 64, 128, 256, 512, 1024, 2048>>
TopLevel == 11

ASSUME HoldAssumption ==
    /\ QuotaBase \in Nat \ {0} /\ QuotaMax \in Nat \ {0}
    /\ QuotaBase <= QuotaMax /\ QuotaMax <= QuotaBase * 2048
    /\ TransientHold \in Nat \ {0}
    /\ AccountHold \in Nat \ {0}
    /\ LongHold \in Nat \ {0}
    /\ RetryHints \subseteq Nat \ {0}

ASSUME ModelsAssumption == IsFiniteSet(Models)

-----------------------------------------------------------------------------
(* Classes of failure, by the status code MarkResult switches on.          *)

NoError == "none"
Failures == { "unsupported",    \* isModelSupportResultError
              "unauthorized",   \* 401
              "payment",        \* 402, 403
              "notFound",       \* 404
              "requestScoped",  \* 404 about an item of this request only
              "quota",          \* 429
              "transient",      \* 408, 500, 502, 503, 504
              "other" }         \* every other code

(* What the code later asks of a stored LastError: is there one, and is it *)
(* a 401 (hasUnauthorizedAuthFailure).                                     *)
Errors == {NoError, "unauthorized", "error"}
Stored(kind) == IF kind = "unauthorized" THEN kind ELSE "error"

(* No code of this repository gives a ModelState the status "disabled".    *)
Statuses == {"active", "error", "disabled"}

RawCooldown(level) == QuotaBase * Pow2[level + 1]

(* The levels of the quota backoff: one is only left for the next while    *)
(* its cooldown is below the maximum.                                      *)
Levels == {level \in 0 .. TopLevel :
              level = 0 \/ RawCooldown(level - 1) < QuotaMax}

QuotaStates == [exceeded : BOOLEAN, recoverAt : Nat, level : Levels]
NoQuota == [exceeded |-> FALSE, recoverAt |-> Zero, level |-> 0]

ModelStates == [ unavailable : BOOLEAN,
                 status      : {"active", "error"},
                 nextRetry   : Nat,
                 lastError   : Errors,
                 quota       : QuotaStates ]

CleanModel == [ unavailable |-> FALSE, status |-> "active", nextRetry |-> Zero,
                lastError |-> NoError, quota |-> NoQuota ]

(* tracked is the key set of the Go map ModelStates; a model outside it    *)
(* has the clean state that ensureModelState would give it.                *)
Auths == [ disabled    : BOOLEAN,
           status      : Statuses,
           unavailable : BOOLEAN,
           nextRetry   : Nat,
           lastError   : Errors,
           quota       : QuotaStates,
           tracked     : SUBSET Models,
           models      : [Models -> ModelStates] ]

NewAuth == [ disabled |-> FALSE, status |-> "active", unavailable |-> FALSE,
             nextRetry |-> Zero, lastError |-> NoError, quota |-> NoQuota,
             tracked |-> {}, models |-> [m \in Models |-> CleanModel] ]

-----------------------------------------------------------------------------
(* Aggregation of the per-model states.                                    *)

LeastOf(S) == CHOOSE x \in S : \A y \in S : x <= y
GreatestOf(S) == CHOOSE x \in S : \A y \in S : x >= y

Cooling(s, now) == s.unavailable /\ s.nextRetry > now
Expired(s, now) == s.unavailable /\ s.nextRetry # Zero /\ s.nextRetry <= now

\* Mutant: off by one, a cooldown is dropped one instant before its end.
DropExpiring(s, now) ==
    IF Expired(s, now + 1) THEN [s EXCEPT !.unavailable = FALSE, !.nextRetry = Zero]
                           ELSE s

DropExpired(s, now) ==
    IF Expired(s, now) THEN [s EXCEPT !.unavailable = FALSE, !.nextRetry = Zero]
                       ELSE s

AggregatedQuota(ms) ==
    IF \A m \in DOMAIN ms : ~ms[m].quota.exceeded
    THEN NoQuota
    ELSE LET exceeded == {m \in DOMAIN ms : ms[m].quota.exceeded}
             recover  == {ms[m].quota.recoverAt : m \in exceeded} \ {Zero}
         IN [ exceeded  |-> TRUE,
              recoverAt |-> IF recover = {} THEN Zero ELSE LeastOf(recover),
              level     |-> GreatestOf({ms[m].quota.level : m \in exceeded}) ]

(* The states as updateAggregatedAvailability leaves them.                 *)
SweptModels(a, now) ==
    [m \in Models |-> IF m \in a.tracked THEN DropExpired(a.models[m], now)
                                         ELSE a.models[m]]

AllCooling(a, now) ==
    /\ a.tracked # {}
    /\ \A m \in a.tracked : Cooling(a.models[m], now)

\* Mutant: remembers the last cooldown to end where the code keeps the first.
UpdateAggregatedLatest(a, now) ==
    LET ms == [m \in a.tracked |-> a.models[m]]
    IN [a EXCEPT
          !.models      = SweptModels(a, now),
          !.unavailable = AllCooling(a, now),
          !.nextRetry   = IF AllCooling(a, now)
                          THEN GreatestOf({ms[m].nextRetry : m \in a.tracked})
                          ELSE Zero,
          !.quota       = AggregatedQuota(ms)]

UpdateAggregated(a, now) ==
    LET ms == [m \in a.tracked |-> a.models[m]]
    IN [a EXCEPT
          !.models      = SweptModels(a, now),
          !.unavailable = AllCooling(a, now),
          !.nextRetry   = IF AllCooling(a, now)
                          THEN LeastOf({ms[m].nextRetry : m \in a.tracked})
                          ELSE Zero,
          !.quota       = AggregatedQuota(ms)]

HasModelError(a, now) ==
    \E m \in a.tracked :
        LET s == a.models[m]
        IN \/ s.lastError # NoError
           \/ /\ s.status = "error" /\ s.unavailable
              /\ s.nextRetry = Zero \/ s.nextRetry > now

(* LastError, StatusMessage and Status once no model is in error: what     *)
(* MarkResult and ReconcileRegistryModelStates do in the same words.       *)
ClearIfNoModelError(a, now) ==
    IF HasModelError(a, now)
    THEN a
    ELSE [a EXCEPT !.lastError = NoError, !.status = "active"]

-----------------------------------------------------------------------------
(* The effect of one result.                                               *)

\* Mutant: the doubled cooldown is not cut to quotaBackoffMax.
QuotaCooldownUncut(level) == RawCooldown(level)

QuotaCooldown(level) ==
    IF RawCooldown(level) >= QuotaMax THEN QuotaMax ELSE RawCooldown(level)

\* Mutant: the level grows past the one that reaches the maximum.
NextLevelUncut(level) == level + 1

NextLevel(level) ==
    IF RawCooldown(level) >= QuotaMax THEN level ELSE level + 1

(* The fixed holds; zero for the codes that set none.  disableCooling      *)
(* suppresses every hold but the one of an unsupported model.              *)
Hold(kind, noCooling) ==
    CASE kind = "unsupported"                                   -> LongHold
      [] kind = "notFound" /\ ~noCooling                        -> LongHold
      [] kind \in {"unauthorized", "payment"} /\ ~noCooling     -> AccountHold
      [] kind = "transient" /\ ~noCooling                       -> TransientHold
      [] OTHER                                                  -> Zero

HoldUntil(kind, noCooling, now) ==
    IF Hold(kind, noCooling) = Zero THEN Zero ELSE now + Hold(kind, noCooling)

(* hint is the RetryAfter of the result, Zero when it has none.            *)
QuotaAfter429(q, hint, noCooling, now) ==
    IF noCooling
    THEN [exceeded |-> TRUE, recoverAt |-> Zero, level |-> q.level]
    ELSE IF hint # Zero
         THEN [exceeded |-> TRUE, recoverAt |-> now + hint, level |-> q.level]
         ELSE [exceeded  |-> TRUE,
               recoverAt |-> now + QuotaCooldown(q.level),
               level     |-> NextLevel(q.level)]

FailedModel(s, kind, hint, noCooling, now) ==
    LET q == IF kind = "quota" THEN QuotaAfter429(s.quota, hint, noCooling, now)
                               ELSE s.quota
    IN [ unavailable |-> TRUE,
         status      |-> "error",
         lastError   |-> Stored(kind),
         quota       |-> q,
         nextRetry   |-> IF kind = "quota" THEN q.recoverAt
                                           ELSE HoldUntil(kind, noCooling, now) ]

MarkModelSuccess(a, m, now) ==
    LET b == [a EXCEPT !.tracked = @ \cup {m}, !.models[m] = CleanModel]
    IN ClearIfNoModelError(UpdateAggregated(b, now), now)

MarkModelFailure(a, m, kind, hint, noCooling, now) ==
    IF kind = "requestScoped"
    THEN a
    ELSE LET s == FailedModel(a.models[m], kind, hint, noCooling, now)
         IN UpdateAggregated([a EXCEPT !.tracked   = @ \cup {m},
                                       !.models[m] = s,
                                       !.lastError = Stored(kind),
                                       !.status    = "error"], now)

(* Results that name no model: clearAuthStateOnSuccess and                 *)
(* applyAuthFailureState.                                                  *)
MarkAuthSuccess(a) ==
    [a EXCEPT !.unavailable = FALSE, !.status = "active", !.quota = NoQuota,
              !.lastError = NoError, !.nextRetry = Zero]

MarkAuthFailure(a, kind, hint, noCooling, now) ==
    IF kind = "requestScoped"
    THEN a
    ELSE LET q == IF kind = "quota" THEN QuotaAfter429(a.quota, hint, noCooling, now)
                                    ELSE a.quota
         IN [a EXCEPT
               !.unavailable = TRUE,
               !.status      = "error",
               !.lastError   = Stored(kind),
               !.quota       = q,
               !.nextRetry   =
                  CASE kind = "quota"                  -> q.recoverAt
                    [] kind \in {"unsupported", "other"} -> @
                    [] OTHER                           -> HoldUntil(kind, noCooling, now)]

(* The effect of ReconcileRegistryModelStates when the registry knows the  *)
(* models of the set supported.                                            *)
Reconciled(a, supported, now) ==
    LET kept    == a.tracked \cap supported
        changed == \/ kept # a.tracked
                   \/ \E m \in kept : a.models[m] # CleanModel
        b       == [a EXCEPT !.tracked = kept,
                             !.models  = [m \in Models |-> CleanModel]]
    IN IF changed THEN ClearIfNoModelError(UpdateAggregated(b, now), now) ELSE a

-----------------------------------------------------------------------------
(* Selection.                                                              *)

(* isAuthBlockedForModel with a model: only an entry for that very model   *)
(* counts.                                                                 *)
BlockedForModel(a, m, now) ==
    \/ a.disabled \/ a.status = "disabled"
    \/ m \in a.tracked /\ Cooling(a.models[m], now)

(* The same function without a model: the aggregate counts.                *)
BlockedWithoutModel(a, now) ==
    \/ a.disabled \/ a.status = "disabled"
    \/ a.unavailable /\ a.nextRetry > now
=============================================================================
