------------------------- MODULE CredentialProofs -------------------------
(***************************************************************************)
(* The invariants of Credential, proved for every set of models, every     *)
(* length of the holds and a clock without bound, and of AuthUpdates, how  *)
(* credentials come and go, for every set of files, keys and channels, any *)
(* number of reloads and hooks and a channel of any size.                  *)
(***************************************************************************)
EXTENDS Credential, AuthUpdates, WellFoundedInduction, TLAPS

-----------------------------------------------------------------------------
(* Smallest and greatest elements.                                         *)

(* A non-empty set of naturals has the least element LeastOf names.        *)
LEMMA LeastOfNat ==
    ASSUME NEW S, S \subseteq Nat, S # {}
    PROVE  /\ LeastOf(S) \in S
           /\ \A y \in S : LeastOf(S) <= y
<1> DEFINE Less == OpToRel(<, Nat)
<1>1. \A x, y \in Nat : x < y => <<x, y>> \in Less
  BY DEF OpToRel
<1>2. IsWellFoundedOn(Less, Nat)
  BY NatLessThanWellFounded
<1> HIDE DEF Less
<1>3. PICK x \in S : \A y \in S : ~(<<y, x>> \in Less)
  BY <1>2, WFMin
<1>4. ASSUME NEW y \in S PROVE x <= y
  <2>1. x \in Nat /\ y \in Nat
    OBVIOUS
  <2>2. ~(y < x)
    BY <1>1, <1>3, <2>1
  <2> QED BY <2>1, <2>2
<1> QED BY <1>4 DEF LeastOf

(* A non-empty set of backoff levels has the greatest element GreatestOf   *)
(* names.                                                                  *)
LEMMA GreatestOfLevels ==
    ASSUME NEW S, S \subseteq Levels, S # {}
    PROVE  GreatestOf(S) \in S
<1> DEFINE T == {TopLevel - x : x \in S}
<1>1. T \subseteq Nat /\ T # {}
  <2>1. S \subseteq 0 .. TopLevel
    BY DEF Levels
  <2>2. \A x \in S : TopLevel - x \in Nat
    BY <2>1 DEF TopLevel
  <2> QED BY <2>2
<1>2. PICK t \in T : \A y \in T : t <= y
  BY <1>1, LeastOfNat, Zenon
<1>3. PICK x \in S : t = TopLevel - x
  BY <1>2
<1>4. \A y \in S : x >= y
  <2> SUFFICES ASSUME NEW y \in S PROVE x >= y
    OBVIOUS
  <2>1. t <= TopLevel - y
    BY <1>2
  <2> QED BY <2>1, <1>3, SMT DEF Levels, TopLevel
<1> QED BY <1>4 DEF GreatestOf

(* The doubling stays inside the table: a level below the maximum grows by *)
(* one, and the top level already reaches QuotaMax.                        *)
LEMMA BackoffBounded ==
    ASSUME NEW level \in Levels
    PROVE  /\ NextLevel(level) \in Levels
           /\ QuotaCooldown(level) \in Nat
           /\ QuotaCooldown(level) <= QuotaMax
<1>1. Pow2[level + 1] \in Nat /\ (level = TopLevel => Pow2[level + 1] = 2048)
  BY DEF Levels, TopLevel, Pow2
<1>2. RawCooldown(level) \in Nat
  BY <1>1, HoldAssumption DEF RawCooldown
<1>3. level = TopLevel => RawCooldown(level) >= QuotaMax
  BY <1>1, HoldAssumption DEF RawCooldown
<1> QED BY <1>2, <1>3, HoldAssumption DEF NextLevel, QuotaCooldown, Levels, TopLevel

-----------------------------------------------------------------------------
(* What one operator does to a well-typed credential.                      *)

(* The aggregate fields agree with the model states in the way that        *)
(* survives the passing of time: a cooldown of the credential is the       *)
(* earliest end of the cooldowns of all its models.                        *)
Matches(a, t) ==
    IF a.nextRetry # Zero
    THEN /\ a.unavailable /\ a.tracked # {}
         /\ \A m \in a.tracked : /\ a.models[m].unavailable
                                /\ a.nextRetry <= a.models[m].nextRetry
         /\ \E m \in a.tracked : a.nextRetry = a.models[m].nextRetry
    ELSE ~AllCooling(a, t)

(* Aggregation keeps the type, never invents a cooldown, and establishes   *)
(* the agreement of the aggregate with the models.                         *)
LEMMA AggregatedQuotaType ==
    ASSUME NEW S \in SUBSET Models, NEW ms \in [S -> ModelStates]
    PROVE  AggregatedQuota(ms) \in QuotaStates
<1>1. CASE \A m \in DOMAIN ms : ~ms[m].quota.exceeded
  BY <1>1 DEF AggregatedQuota, NoQuota, QuotaStates, Zero, Levels, TopLevel
<1>2. CASE ~(\A m \in DOMAIN ms : ~ms[m].quota.exceeded)
  <2> DEFINE E == {m \in DOMAIN ms : ms[m].quota.exceeded}
             R == {ms[m].quota.recoverAt : m \in E} \ {Zero}
             L == {ms[m].quota.level : m \in E}
  <2>1. \A m \in S : ms[m].quota \in QuotaStates
    BY DEF ModelStates
  <2>2. R \subseteq Nat /\ L \subseteq Levels /\ L # {}
    BY <1>2, <2>1 DEF QuotaStates
  <2>3. (IF R = {} THEN Zero ELSE LeastOf(R)) \in Nat
    BY <2>2, LeastOfNat DEF Zero
  <2>4. GreatestOf(L) \in Levels
    BY <2>2, GreatestOfLevels
  <2> QED BY <1>2, <2>3, <2>4 DEF AggregatedQuota, QuotaStates
<1> QED BY <1>1, <1>2

LEMMA DropExpiredCorrect ==
    ASSUME NEW s \in ModelStates, NEW t \in Nat \ {0}
    PROVE  /\ DropExpired(s, t) \in ModelStates
           /\ DropExpired(s, t).nextRetry \in {s.nextRetry, Zero}
           /\ Cooling(s, t) => DropExpired(s, t) = s
           /\ Cooling(DropExpired(s, t), t) => Cooling(s, t)
<1>1. CASE Expired(s, t)
  <2>1. DropExpired(s, t) = [s EXCEPT !.unavailable = FALSE, !.nextRetry = Zero]
    BY <1>1 DEF DropExpired
  <2>2. DropExpired(s, t) = [ unavailable |-> FALSE, status |-> s.status,
                              nextRetry |-> Zero, lastError |-> s.lastError,
                              quota |-> s.quota ]
    BY <2>1 DEF ModelStates
  <2>3. DropExpired(s, t) \in ModelStates
    BY <2>2 DEF ModelStates, Zero
  <2>4. ~Cooling(s, t) /\ ~Cooling(DropExpired(s, t), t)
    BY <1>1, <2>2 DEF Expired, Cooling, ModelStates
  <2> QED BY <2>2, <2>3, <2>4
<1>2. CASE ~Expired(s, t)
  BY <1>2 DEF DropExpired
<1> QED BY <1>1, <1>2

LEMMA UpdateAggregatedCorrect ==
    ASSUME NEW a \in Auths, NEW t \in Nat \ {0},
           \A m \in Models : WithinHolds(a.models[m].nextRetry, t)
    PROVE  /\ UpdateAggregated(a, t) \in Auths
           /\ CooldownsEndAt(UpdateAggregated(a, t), t)
           /\ Matches(UpdateAggregated(a, t), t)
<1> DEFINE b == UpdateAggregated(a, t)
           D == {a.models[m].nextRetry : m \in a.tracked}
<1>1. /\ a.tracked \subseteq Models
      /\ \A m \in Models : a.models[m] \in ModelStates /\ a.models[m].nextRetry \in Nat
  BY DEF Auths, ModelStates
<1>2. b = [ disabled |-> a.disabled, status |-> a.status,
            unavailable |-> AllCooling(a, t),
            nextRetry |-> IF AllCooling(a, t) THEN LeastOf(D) ELSE Zero,
            lastError |-> a.lastError,
            quota |-> AggregatedQuota([m \in a.tracked |-> a.models[m]]),
            tracked |-> a.tracked, models |-> SweptModels(a, t) ]
  <2>1. {[n \in a.tracked |-> a.models[n]][m].nextRetry : m \in a.tracked} = D
    OBVIOUS
  <2>2. b = [a EXCEPT !.models      = SweptModels(a, t),
                      !.unavailable = AllCooling(a, t),
                      !.nextRetry   = IF AllCooling(a, t) THEN LeastOf(D) ELSE Zero,
                      !.quota       = AggregatedQuota([m \in a.tracked |-> a.models[m]])]
    BY <2>1 DEF UpdateAggregated
  <2> HIDE DEF b, D
  <2> QED BY <2>2 DEF Auths
<1> HIDE DEF b
<1>3. /\ b.models \in [Models -> ModelStates]
      /\ \A m \in Models : b.models[m] = IF m \in a.tracked
                                          THEN DropExpired(a.models[m], t)
                                          ELSE a.models[m]
  BY <1>1, <1>2, DropExpiredCorrect DEF SweptModels
<1>4. AllCooling(a, t) => /\ LeastOf(D) \in D
                          /\ \A y \in D : LeastOf(D) <= y
  <2>1. D \subseteq Nat
    BY <1>1
  <2>2. AllCooling(a, t) => D # {}
    BY DEF AllCooling
  <2> HIDE DEF D
  <2> QED BY <2>1, <2>2, LeastOfNat
<1>5. b \in Auths
  <2>1. AggregatedQuota([m \in a.tracked |-> a.models[m]]) \in QuotaStates
    <3>1. [m \in a.tracked |-> a.models[m]] \in [a.tracked -> ModelStates]
      BY <1>1
    <3> QED BY <1>1, <3>1, AggregatedQuotaType
  <2>2. (IF AllCooling(a, t) THEN LeastOf(D) ELSE Zero) \in Nat
    <3>1. D \subseteq Nat
      BY <1>1
    <3> HIDE DEF D
    <3> QED BY <3>1, <1>4 DEF Zero
  <2>3. AllCooling(a, t) \in BOOLEAN
    BY DEF AllCooling
  <2>4. SweptModels(a, t) \in [Models -> ModelStates]
    BY <1>2, <1>3
  <2> HIDE DEF D
  <2> QED BY <1>2, <2>1, <2>2, <2>3, <2>4 DEF Auths
<1>6. CooldownsEndAt(b, t)
  <2>1. WithinHolds(Zero, t)
    BY HoldAssumption DEF WithinHolds, Zero
  <2>2. \A m \in Models : WithinHolds(b.models[m].nextRetry, t)
    BY <1>1, <1>3, <2>1, DropExpiredCorrect
  <2>3. b.nextRetry = Zero \/ \E m \in Models : b.nextRetry = a.models[m].nextRetry
    BY <1>1, <1>2, <1>4
  <2> QED BY <2>1, <2>2, <2>3 DEF CooldownsEndAt
<1>7. Matches(b, t)
  <2>1. CASE AllCooling(a, t)
    <3>1. \A m \in a.tracked : /\ Cooling(a.models[m], t)
                               /\ b.models[m] = a.models[m]
      BY <1>1, <1>3, <2>1, DropExpiredCorrect DEF AllCooling
    <3>2. b.unavailable /\ b.tracked = a.tracked /\ a.tracked # {} /\ b.nextRetry = LeastOf(D)
      BY <1>2, <2>1 DEF AllCooling
    <3>3. PICK m \in a.tracked : b.nextRetry = a.models[m].nextRetry
      BY <1>4, <2>1, <3>2
    <3>4. \A n \in a.tracked : b.nextRetry <= a.models[n].nextRetry
      BY <1>4, <2>1, <3>2
    <3>5. b.nextRetry # Zero
      BY <1>1, <3>1, <3>3 DEF Cooling, Zero
    <3> QED BY <3>1, <3>2, <3>3, <3>4, <3>5 DEF Matches, Cooling
  <2>2. CASE ~AllCooling(a, t)
    <3>1. ~AllCooling(b, t)
      BY <1>1, <1>2, <1>3, <2>2, DropExpiredCorrect DEF AllCooling
    <3> QED BY <1>2, <2>2, <3>1 DEF Matches
  <2> QED BY <2>1, <2>2
<1> QED BY <1>5, <1>6, <1>7 DEF b

-----------------------------------------------------------------------------
(* A failure gives a well-typed record whose cooldown is one of the holds. *)
LEMMA QuotaAfter429Correct ==
    ASSUME NEW q \in QuotaStates, NEW hint \in RetryHints \cup {Zero},
           NEW noCool \in BOOLEAN, NEW t \in Nat \ {0}
    PROVE  /\ QuotaAfter429(q, hint, noCool, t) \in QuotaStates
           /\ WithinHolds(QuotaAfter429(q, hint, noCool, t).recoverAt, t)
<1>1. q.level \in Levels
  BY DEF QuotaStates
<1>2. hint \in Nat
  BY HoldAssumption DEF Zero
<1>3. /\ t + QuotaCooldown(q.level) \in Nat
      /\ WithinHolds(t + QuotaCooldown(q.level), t)
  BY <1>1, BackoffBounded, HoldAssumption DEF WithinHolds
<1>4. hint # Zero => WithinHolds(t + hint, t)
  BY HoldAssumption DEF WithinHolds, Zero
<1>5. WithinHolds(Zero, t)
  BY HoldAssumption DEF WithinHolds, Zero
<1>6. CASE noCool
  BY <1>1, <1>5, <1>6 DEF QuotaAfter429, QuotaStates, Zero
<1>7. CASE ~noCool /\ hint # Zero
  BY <1>1, <1>2, <1>4, <1>7 DEF QuotaAfter429, QuotaStates
<1>8. CASE ~noCool /\ hint = Zero
  BY <1>1, <1>3, <1>8, BackoffBounded DEF QuotaAfter429, QuotaStates
<1> QED BY <1>6, <1>7, <1>8

LEMMA HoldUntilCorrect ==
    ASSUME NEW kind, NEW noCool \in BOOLEAN, NEW t \in Nat \ {0}
    PROVE  HoldUntil(kind, noCool, t) \in Nat /\ WithinHolds(HoldUntil(kind, noCool, t), t)
<1>1. Hold(kind, noCool) \in {Zero, LongHold, AccountHold, TransientHold}
  BY DEF Hold
<1> QED BY <1>1, HoldAssumption DEF HoldUntil, WithinHolds, Zero

LEMMA FailedModelCorrect ==
    ASSUME NEW s \in ModelStates, NEW kind \in Failures,
           NEW hint \in RetryHints \cup {Zero},
           NEW noCool \in BOOLEAN, NEW t \in Nat \ {0}
    PROVE  /\ FailedModel(s, kind, hint, noCool, t) \in ModelStates
           /\ WithinHolds(FailedModel(s, kind, hint, noCool, t).nextRetry, t)
<1>1. s.quota \in QuotaStates
  BY DEF ModelStates
<1>2. Stored(kind) \in Errors
  BY DEF Stored, Errors
<1>3. CASE kind = "quota"
  <2> DEFINE q == QuotaAfter429(s.quota, hint, noCool, t)
  <2>1. q \in QuotaStates /\ WithinHolds(q.recoverAt, t)
    BY <1>1, QuotaAfter429Correct
  <2>2. FailedModel(s, kind, hint, noCool, t) =
           [ unavailable |-> TRUE, status |-> "error", lastError |-> Stored(kind),
             quota |-> q, nextRetry |-> q.recoverAt ]
    BY <1>3 DEF FailedModel
  <2> HIDE DEF q
  <2> QED BY <1>2, <2>1, <2>2 DEF ModelStates, QuotaStates
<1>4. CASE kind # "quota"
  <2>1. FailedModel(s, kind, hint, noCool, t) =
           [ unavailable |-> TRUE, status |-> "error", lastError |-> Stored(kind),
             quota |-> s.quota, nextRetry |-> HoldUntil(kind, noCool, t) ]
    BY <1>4 DEF FailedModel
  <2> QED BY <1>1, <1>2, <2>1, HoldUntilCorrect DEF ModelStates
<1> QED BY <1>3, <1>4

LEMMA CleanModelCorrect ==
    ASSUME NEW t \in Nat \ {0}
    PROVE  CleanModel \in ModelStates /\ WithinHolds(CleanModel.nextRetry, t)
BY HoldAssumption DEF CleanModel, ModelStates, QuotaStates, NoQuota, Errors, NoError,
                      Levels, TopLevel, Zero, WithinHolds

(* The parts of the inductive invariant, about any credential a and time t.*)
Sound(a, t) ==
    /\ a \in Auths
    /\ CooldownsEndAt(a, t)
    /\ a.status = "disabled" => a.disabled
    /\ ~embedder => Matches(a, t)

(* Clearing the error fields disturbs none of them.                        *)
LEMMA ClearIfNoModelErrorSound ==
    ASSUME NEW a, NEW t \in Nat \ {0}, Sound(a, t)
    PROVE  /\ Sound(ClearIfNoModelError(a, t), t)
           /\ ClearIfNoModelError(a, t).models = a.models
           /\ ClearIfNoModelError(a, t).tracked = a.tracked
           /\ ClearIfNoModelError(a, t).disabled = a.disabled
<1>1. CASE HasModelError(a, t)
  BY <1>1 DEF ClearIfNoModelError
<1>2. CASE ~HasModelError(a, t)
  <2> DEFINE b == [a EXCEPT !.lastError = NoError, !.status = "active"]
  <2>1. ClearIfNoModelError(a, t) = b
    BY <1>2 DEF ClearIfNoModelError
  <2>2. a \in Auths
    BY DEF Sound
  <2>3. /\ b.models = a.models /\ b.tracked = a.tracked
        /\ b.unavailable = a.unavailable /\ b.nextRetry = a.nextRetry
        /\ b.disabled = a.disabled /\ b.status = "active"
    BY <2>2 DEF Auths
  <2>4. b \in Auths
    BY <2>2 DEF Auths, Errors, NoError, Statuses
  <2> HIDE DEF b
  <2>5. CooldownsEndAt(b, t)
    BY <2>3 DEF CooldownsEndAt, Sound
  <2>6. ~embedder => Matches(b, t)
    BY <2>3 DEF Matches, Sound, AllCooling
  <2> QED BY <2>1, <2>3, <2>4, <2>5, <2>6 DEF Sound
<1> QED BY <1>1, <1>2

(* Aggregation establishes them, whatever the aggregate was.               *)
LEMMA UpdateAggregatedSound ==
    ASSUME NEW a \in Auths, NEW t \in Nat \ {0},
           \A m \in Models : WithinHolds(a.models[m].nextRetry, t),
           a.status = "disabled" => a.disabled
    PROVE  Sound(UpdateAggregated(a, t), t)
<1>1. /\ UpdateAggregated(a, t).status = a.status
      /\ UpdateAggregated(a, t).disabled = a.disabled
  BY DEF UpdateAggregated, Auths
<1> QED BY <1>1, UpdateAggregatedCorrect DEF Sound

-----------------------------------------------------------------------------
(* One lemma per operation that computes a new record.                     *)
LEMMA MarkModelSuccessSound ==
    ASSUME NEW a, NEW t \in Nat \ {0}, Sound(a, t), NEW m \in Models
    PROVE  Sound(MarkModelSuccess(a, m, t), t)
<1> DEFINE b == [a EXCEPT !.tracked = @ \cup {m}, !.models[m] = CleanModel]
<1>1. a \in Auths
  BY DEF Sound
<1>2. b \in Auths
  BY <1>1, CleanModelCorrect DEF Auths
<1>3. \A n \in Models : WithinHolds(b.models[n].nextRetry, t)
  <2>1. \A n \in Models : b.models[n] = IF n = m THEN CleanModel ELSE a.models[n]
    BY <1>1 DEF Auths
  <2> QED BY <2>1, CleanModelCorrect DEF Sound, CooldownsEndAt
<1>4. b.status = "disabled" => b.disabled
  BY <1>1 DEF Sound, Auths
<1>5. MarkModelSuccess(a, m, t) = ClearIfNoModelError(UpdateAggregated(b, t), t)
  BY DEF MarkModelSuccess
<1> HIDE DEF b
<1>6. Sound(UpdateAggregated(b, t), t)
  BY <1>2, <1>3, <1>4, UpdateAggregatedSound
<1> QED BY <1>5, <1>6, ClearIfNoModelErrorSound

LEMMA MarkModelFailureSound ==
    ASSUME NEW a, NEW t \in Nat \ {0}, Sound(a, t), NEW m \in Models,
           NEW kind \in Failures, NEW hint \in RetryHints \cup {Zero},
           NEW noCool \in BOOLEAN
    PROVE  Sound(MarkModelFailure(a, m, kind, hint, noCool, t), t)
<1> DEFINE s == FailedModel(a.models[m], kind, hint, noCool, t)
           b == [a EXCEPT !.tracked = @ \cup {m}, !.models[m] = s,
                          !.lastError = Stored(kind), !.status = "error"]
<1>1. a \in Auths
  BY DEF Sound
<1>2. s \in ModelStates /\ WithinHolds(s.nextRetry, t)
  <2>1. a.models[m] \in ModelStates
    BY <1>1 DEF Auths
  <2> QED BY <2>1, FailedModelCorrect
<1>3. CASE kind = "requestScoped"
  BY <1>3 DEF MarkModelFailure
<1>4. CASE kind # "requestScoped"
  <2>1. MarkModelFailure(a, m, kind, hint, noCool, t) = UpdateAggregated(b, t)
    BY <1>4 DEF MarkModelFailure
  <2> HIDE DEF s
  <2>2. b \in Auths
    BY <1>1, <1>2 DEF Auths, Stored, Errors, Statuses
  <2>3. \A n \in Models : WithinHolds(b.models[n].nextRetry, t)
    <3>1. \A n \in Models : b.models[n] = IF n = m THEN s ELSE a.models[n]
      BY <1>1 DEF Auths
    <3> QED BY <3>1, <1>2 DEF Sound, CooldownsEndAt
  <2>4. b.status = "error"
    BY <1>1 DEF Auths
  <2> HIDE DEF b
  <2> QED BY <2>1, <2>2, <2>3, <2>4, UpdateAggregatedSound
<1> QED BY <1>3, <1>4

LEMMA ReconciledSound ==
    ASSUME NEW a, NEW t \in Nat \ {0}, NEW supported \in SUBSET Models,
           a \in Auths, CooldownsEndAt(a, t), a.status = "disabled" => a.disabled,
           embedder \/ Matches(a, t) \/ a.nextRetry = Zero
    PROVE  Sound(Reconciled(a, supported, t), t)
<1> DEFINE kept == a.tracked \cap supported
           b == [a EXCEPT !.tracked = kept, !.models = [m \in Models |-> CleanModel]]
           changed == kept # a.tracked \/ \E m \in kept : a.models[m] # CleanModel
<1>1. b \in Auths
  BY CleanModelCorrect DEF Auths
<1>2. \A n \in Models : WithinHolds(b.models[n].nextRetry, t)
  BY CleanModelCorrect DEF Auths
<1>3. b.status = "disabled" => b.disabled
  BY DEF Auths
<1>4. Reconciled(a, supported, t) =
         IF changed THEN ClearIfNoModelError(UpdateAggregated(b, t), t) ELSE a
  BY DEF Reconciled
<1>5. ~changed => Sound(a, t)
  <2>1. ~changed => a.tracked = kept /\ \A m \in a.tracked : ~a.models[m].unavailable
    BY DEF CleanModel
  <2>2. ~changed /\ a.nextRetry = Zero => Matches(a, t)
    BY <2>1 DEF Matches, AllCooling, Cooling
  <2> QED BY <2>2 DEF Sound
<1> HIDE DEF b, changed
<1>6. Sound(UpdateAggregated(b, t), t)
  BY <1>1, <1>2, <1>3, UpdateAggregatedSound
<1> QED BY <1>4, <1>5, <1>6, ClearIfNoModelErrorSound

LEMMA MarkWithoutModelSound ==
    ASSUME NEW a, NEW t \in Nat \ {0}, Sound(a, t), embedder,
           NEW kind \in Failures, NEW hint \in RetryHints \cup {Zero},
           NEW noCool \in BOOLEAN
    PROVE  /\ Sound(MarkAuthSuccess(a), t)
           /\ Sound(MarkAuthFailure(a, kind, hint, noCool, t), t)
<1>1. a \in Auths
  BY DEF Sound
<1>2. WithinHolds(Zero, t)
  BY HoldAssumption DEF WithinHolds, Zero
<1>3. Sound(MarkAuthSuccess(a), t)
  <2> DEFINE b == MarkAuthSuccess(a)
  <2>1. NoQuota \in QuotaStates /\ NoError \in Errors /\ "active" \in Statuses /\ Zero \in Nat
    BY DEF Statuses, NoQuota, QuotaStates, Levels, TopLevel, Errors, NoError, Zero
  <2>2. b \in Auths /\ b.models = a.models /\ b.nextRetry = Zero /\ b.status = "active"
    BY <1>1, <2>1 DEF MarkAuthSuccess, Auths
  <2> HIDE DEF b
  <2>3. CooldownsEndAt(b, t)
    BY <1>2, <2>2 DEF CooldownsEndAt, Sound
  <2> QED BY <2>2, <2>3 DEF Sound, b
<1>4. CASE kind = "requestScoped"
  BY <1>3, <1>4 DEF MarkAuthFailure
<1>5. CASE kind # "requestScoped"
  <2> DEFINE q == IF kind = "quota" THEN QuotaAfter429(a.quota, hint, noCool, t)
                                    ELSE a.quota
             next == CASE kind = "quota" -> q.recoverAt
                       [] kind \in {"unsupported", "other"} -> a.nextRetry
                       [] OTHER -> HoldUntil(kind, noCool, t)
             b == [a EXCEPT !.unavailable = TRUE, !.status = "error",
                            !.lastError = Stored(kind), !.quota = q, !.nextRetry = next]
  <2>1. MarkAuthFailure(a, kind, hint, noCool, t) = b
    BY <1>5 DEF MarkAuthFailure
  <2>2. q \in QuotaStates /\ (kind = "quota" => WithinHolds(q.recoverAt, t))
    <3>1. a.quota \in QuotaStates
      BY <1>1 DEF Auths
    <3> QED BY <3>1, QuotaAfter429Correct
  <2> HIDE DEF q
  <2>3. next \in Nat /\ WithinHolds(next, t)
    <3>1. a.nextRetry \in Nat /\ WithinHolds(a.nextRetry, t)
      BY <1>1 DEF Auths, Sound, CooldownsEndAt
    <3>2. q.recoverAt \in Nat
      BY <2>2 DEF QuotaStates
    <3> QED BY <2>2, <3>1, <3>2, HoldUntilCorrect
  <2> HIDE DEF next
  <2>4. b \in Auths
    BY <1>1, <2>2, <2>3 DEF Auths, Stored, Errors, Statuses
  <2>5. b.models = a.models /\ b.nextRetry = next /\ b.status = "error"
    BY <1>1 DEF Auths
  <2> HIDE DEF b
  <2>6. Sound(b, t)
    BY <2>3, <2>4, <2>5 DEF Sound, CooldownsEndAt
  <2> QED BY <1>3, <2>1, <2>6
<1> QED BY <1>4, <1>5

-----------------------------------------------------------------------------
(* The inductive invariant: the type, the bound on every cooldown, the     *)
(* agreement of the aggregate with the models in its time-independent form *)
(* and the fact that the status "disabled" never outlives the flag.        *)
IInv == TypeOK /\ Sound(cred, now)

LEMMA SoundAtNextTick ==
    ASSUME NEW a, NEW t \in Nat \ {0}, Sound(a, t)
    PROVE  Sound(a, t + 1)
<1>1. a \in Auths
  BY DEF Sound
<1>2. ASSUME NEW u \in Nat, WithinHolds(u, t) PROVE WithinHolds(u, t + 1)
  BY <1>2, HoldAssumption DEF WithinHolds
<1>3. CooldownsEndAt(a, t + 1)
  BY <1>1, <1>2 DEF CooldownsEndAt, Sound, Auths, ModelStates
<1>4. AllCooling(a, t + 1) => AllCooling(a, t)
  <2>1. \A m \in a.tracked : a.models[m].nextRetry \in Nat
    BY <1>1 DEF Auths, ModelStates
  <2> QED BY <2>1 DEF AllCooling, Cooling
<1>5. Matches(a, t) => Matches(a, t + 1)
  BY <1>4 DEF Matches
<1> QED BY <1>1, <1>3, <1>5 DEF Sound

LEMMA InitIInv == Init => IInv
<1> SUFFICES ASSUME Init PROVE IInv
  OBVIOUS
<1>1. NoQuota \in QuotaStates /\ NoError \in Errors /\ "active" \in Statuses /\ Zero \in Nat
  BY DEF Statuses, NoQuota, QuotaStates, Levels, TopLevel, Errors, NoError, Zero
<1>2. /\ cred \in Auths /\ now \in Nat \ {0}
      /\ noCooling \in BOOLEAN /\ embedder \in BOOLEAN
  BY <1>1, CleanModelCorrect DEF Init, NewAuth, Auths
<1>3. CooldownsEndAt(cred, now)
  BY CleanModelCorrect, HoldAssumption
     DEF Init, NewAuth, CooldownsEndAt, WithinHolds, Zero
<1>4. Matches(cred, now)
  BY DEF Init, NewAuth, Matches, AllCooling
<1>5. cred.status = "active"
  BY DEF Init, NewAuth
<1> QED BY <1>2, <1>3, <1>4, <1>5 DEF IInv, TypeOK, Sound

LEMMA HintsType ==
    ASSUME NEW kind, NEW hint \in Hints(kind)
    PROVE  hint \in RetryHints \cup {Zero}
BY DEF Hints

LEMMA NextIInv == IInv /\ [Next]_vars => IInv'
<1> SUFFICES ASSUME IInv, [Next]_vars PROVE IInv'
  OBVIOUS
<1>0. /\ cred \in Auths /\ now \in Nat \ {0} /\ noCooling \in BOOLEAN
      /\ embedder \in BOOLEAN /\ Sound(cred, now)
  BY DEF IInv, TypeOK
<1>a. ASSUME Sound(cred', now), now' = now, noCooling' = noCooling,
             embedder' = embedder
      PROVE  IInv'
  <2>1. cred' \in Auths
    BY <1>a DEF Sound
  <2> QED BY <1>0, <1>a, <2>1 DEF IInv, TypeOK, Sound
<1>1. ASSUME NEW m \in Models, ReportSuccess(m) PROVE IInv'
  BY <1>0, <1>1, <1>a, MarkModelSuccessSound DEF ReportSuccess
<1>2. ASSUME NEW m \in Models, NEW kind \in Failures, NEW hint \in Hints(kind),
             ReportFailure(m, kind, hint)
      PROVE  IInv'
  BY <1>0, <1>2, <1>a, HintsType, MarkModelFailureSound DEF ReportFailure
<1>3. CASE ReportSuccessWithoutModel
  <2>1. "other" \in Failures /\ Zero \in RetryHints \cup {Zero} /\ embedder
    BY <1>3 DEF Failures, ReportSuccessWithoutModel
  <2>2. Sound(MarkAuthSuccess(cred), now)
    BY <1>0, <2>1, MarkWithoutModelSound
  <2> QED BY <1>3, <1>a, <2>2 DEF ReportSuccessWithoutModel
<1>4. ASSUME NEW kind \in Failures, NEW hint \in Hints(kind),
             ReportFailureWithoutModel(kind, hint)
      PROVE  IInv'
  <2>1. embedder /\ hint \in RetryHints \cup {Zero}
    BY <1>4, HintsType DEF ReportFailureWithoutModel
  <2>2. Sound(MarkAuthFailure(cred, kind, hint, noCooling, now), now)
    BY <1>0, <2>1, MarkWithoutModelSound
  <2> QED BY <1>4, <1>a, <2>2 DEF ReportFailureWithoutModel
<1>5. ASSUME NEW supported \in SUBSET Models, Reconcile(supported) PROVE IInv'
  <2>1. Sound(Reconciled(cred, supported, now), now)
    BY <1>0, ReconciledSound DEF Sound
  <2> QED BY <1>5, <1>a, <2>1 DEF Reconcile
<1>6. ASSUME NEW unauthorized \in BOOLEAN, RefreshFails(unauthorized) PROVE IInv'
  <2>1. cred' \in Auths
    BY <1>0, <1>6 DEF RefreshFails, Auths, Errors, Statuses
  <2>2. /\ cred'.models = cred.models /\ cred'.tracked = cred.tracked
        /\ cred'.nextRetry = cred.nextRetry /\ cred'.disabled = cred.disabled
        /\ cred'.unavailable \in {cred.unavailable, TRUE}
        /\ cred'.status \in {cred.status, "error"}
    BY <1>0, <1>6 DEF RefreshFails, Auths
  <2>3. CooldownsEndAt(cred', now)
    BY <1>0, <2>2 DEF Sound, CooldownsEndAt
  <2>4. Matches(cred, now) => Matches(cred', now)
    BY <2>2 DEF Matches, AllCooling
  <2>5. Sound(cred', now)
    BY <1>0, <2>1, <2>2, <2>3, <2>4 DEF Sound
  <2> QED BY <1>6, <1>a, <2>5 DEF RefreshFails
<1>7. CASE RefreshSucceeds
  <2>1. cred' \in Auths
    BY <1>0, <1>7 DEF RefreshSucceeds, Auths, Errors, NoError
  <2>2. /\ cred'.models = cred.models /\ cred'.tracked = cred.tracked
        /\ cred'.nextRetry = cred.nextRetry /\ cred'.disabled = cred.disabled
        /\ cred'.unavailable = cred.unavailable /\ cred'.status = cred.status
    BY <1>0, <1>7 DEF RefreshSucceeds, Auths
  <2>3. Sound(cred', now)
    BY <1>0, <2>1, <2>2 DEF Sound, CooldownsEndAt, Matches, AllCooling
  <2> QED BY <1>7, <1>a, <2>3 DEF RefreshSucceeds
<1>8. ASSUME NEW flag \in BOOLEAN, SetDisabled(flag) PROVE IInv'
  <2>1. cred' \in Auths
    BY <1>0, <1>8 DEF SetDisabled, Auths, Statuses
  <2>2. /\ cred'.models = cred.models /\ cred'.tracked = cred.tracked
        /\ cred'.nextRetry = cred.nextRetry /\ cred'.unavailable = cred.unavailable
        /\ cred'.status = "disabled" => cred'.disabled
    BY <1>0, <1>8 DEF SetDisabled, Auths
  <2>3. Sound(cred', now)
    BY <1>0, <2>1, <2>2 DEF Sound, CooldownsEndAt, Matches, AllCooling
  <2> QED BY <1>8, <1>a, <2>3 DEF SetDisabled
<1>9. ASSUME NEW flag \in BOOLEAN, NEW supported \in SUBSET Models,
             Reload(flag, supported)
      PROVE  IInv'
  <2>1. PICK stored \in Auths :
           /\ cred' = Reconciled(stored, supported, now)
           /\ stored.nextRetry = Zero
           /\ stored.status = "disabled" => stored.disabled
           /\ \/ stored.models = cred.models
              \/ stored.models = [m \in Models |-> CleanModel]
    <3> DEFINE fresh == [NewAuth EXCEPT !.disabled = flag,
                                        !.status = IF flag THEN "disabled" ELSE "active"]
               inherit == ~cred.disabled /\ cred.status # "disabled" /\ ~flag
               stored == IF inherit THEN [fresh EXCEPT !.tracked = cred.tracked,
                                                       !.models = cred.models]
                                    ELSE fresh
    <3>1. NoQuota \in QuotaStates /\ NoError \in Errors /\ Zero \in Nat
      BY DEF NoQuota, QuotaStates, Levels, TopLevel, Errors, NoError, Zero
    <3>2. NewAuth \in Auths
      BY <3>1, CleanModelCorrect DEF NewAuth, Auths, Statuses
    <3>3. /\ fresh \in Auths /\ fresh.nextRetry = Zero
          /\ fresh.status = "disabled" => fresh.disabled
          /\ fresh.models = [m \in Models |-> CleanModel]
      <4>1. NewAuth.nextRetry = Zero /\ NewAuth.models = [m \in Models |-> CleanModel]
        BY DEF NewAuth
      <4> QED BY <3>2, <4>1 DEF Auths, Statuses
    <3> HIDE DEF fresh
    <3>4. /\ stored \in Auths /\ stored.nextRetry = Zero
          /\ stored.status = "disabled" => stored.disabled
          /\ stored.models = cred.models \/ stored.models = fresh.models
      BY <1>0, <3>3 DEF Auths
    <3>5. cred' = Reconciled(stored, supported, now)
      BY <1>9 DEF Reload, fresh
    <3> QED BY <3>3, <3>4, <3>5
  <2>2. CooldownsEndAt(stored, now)
    <3>1. WithinHolds(Zero, now)
      BY <1>0, CleanModelCorrect DEF CleanModel
    <3> QED BY <1>0, <2>1, <3>1, CleanModelCorrect DEF CooldownsEndAt, Sound
  <2>3. Sound(Reconciled(stored, supported, now), now)
    BY <1>0, <2>1, <2>2, ReconciledSound
  <2> QED BY <1>9, <1>a, <2>1, <2>3 DEF Reload
<1>10. CASE SetQuotaCooldownDisabled
  BY <1>0, <1>10 DEF SetQuotaCooldownDisabled, IInv, TypeOK, Sound
<1>11. CASE Tick
  BY <1>0, <1>11, SoundAtNextTick DEF Tick, IInv, TypeOK, Sound
<1>12. CASE UNCHANGED vars
  BY <1>0, <1>12 DEF vars, IInv, TypeOK, Sound
<1> QED BY <1>1, <1>2, <1>3, <1>4, <1>5, <1>6, <1>7, <1>8, <1>9, <1>10, <1>11, <1>12
        DEF Next

-----------------------------------------------------------------------------
(* Type correctness of the credential under every sequence of operations;  *)
(* the level of the quota backoff stays in the table of powers.            *)
THEOREM TypeCorrect == Spec => []TypeOK
<1>1. IInv => TypeOK
  BY DEF IInv
<1> QED BY InitIInv, NextIInv, <1>1, PTL DEF Spec

(* Every cooldown MarkResult sets, of one model or of the whole            *)
(* credential, ends within one of the holds counted from now.              *)
THEOREM CooldownsEndAlways == Spec => []CooldownsEnd
<1>1. IInv => CooldownsEnd
  BY DEF IInv, Sound, CooldownsEnd
<1> QED BY InitIInv, NextIInv, <1>1, PTL DEF Spec

(* With results that name their model, the aggregate computed by           *)
(* updateAggregatedAvailability is exact at every later instant.           *)
THEOREM AggregateExactAlways == Spec => []AggregateExact
<1>1. IInv => AggregateExact
  <2> SUFFICES ASSUME IInv, ~embedder PROVE AggregateExact
    BY DEF AggregateExact
  <2>1. /\ Matches(cred, now) /\ now \in Nat \ {0}
        /\ cred.nextRetry \in Nat
        /\ \A m \in cred.tracked : cred.models[m].nextRetry \in Nat
    BY DEF IInv, Sound, TypeOK, Auths, ModelStates
  <2>2. CASE cred.nextRetry = Zero
    BY <2>1, <2>2 DEF Matches, AggregateExact, Zero, AllCooling
  <2>3. CASE cred.nextRetry # Zero
    <3>1. cred.nextRetry > now => AllCooling(cred, now)
      BY <2>1, <2>3 DEF Matches, AllCooling, Cooling
    <3>2. AllCooling(cred, now) => cred.nextRetry > now
      BY <2>1, <2>3 DEF Matches, AllCooling, Cooling
    <3>3. cred.unavailable
      BY <2>1, <2>3 DEF Matches
    <3> QED BY <3>1, <3>2, <3>3 DEF AggregateExact
  <2> QED BY <2>2, <2>3
<1> QED BY InitIInv, NextIInv, <1>1, PTL DEF Spec

-----------------------------------------------------------------------------
(* A failure on one model leaves every other cooling model as it was.      *)
LEMMA AggregationKeepsCooling ==
    ASSUME NEW a \in Auths, NEW t \in Nat \ {0}, NEW n \in a.tracked,
           Cooling(a.models[n], t)
    PROVE  /\ n \in UpdateAggregated(a, t).tracked
           /\ UpdateAggregated(a, t).models[n] = a.models[n]
<1>1. n \in Models /\ a.models[n] \in ModelStates
  BY DEF Auths
<1>2. /\ UpdateAggregated(a, t).tracked = a.tracked
      /\ UpdateAggregated(a, t).models = SweptModels(a, t)
  BY DEF UpdateAggregated, Auths
<1>3. SweptModels(a, t)[n] = DropExpired(a.models[n], t)
  BY <1>1 DEF SweptModels
<1> QED BY <1>1, <1>2, <1>3, DropExpiredCorrect

LEMMA OtherModelsStayBlocked ==
    ASSUME NEW a, NEW t \in Nat \ {0}, Sound(a, t), NEW m \in Models,
           NEW n \in Models \ {m}, BlockedForModel(a, n, t),
           NEW kind \in Failures, NEW hint \in RetryHints \cup {Zero},
           NEW noCool \in BOOLEAN
    PROVE  /\ BlockedForModel(MarkModelSuccess(a, m, t), n, t)
           /\ BlockedForModel(MarkModelFailure(a, m, kind, hint, noCool, t), n, t)
<1>1. a \in Auths /\ (a.status = "disabled" => a.disabled)
  BY DEF Sound
<1>2. a.disabled \/ (n \in a.tracked /\ Cooling(a.models[n], t))
  BY <1>1 DEF BlockedForModel
<1>3. BlockedForModel(MarkModelSuccess(a, m, t), n, t)
  <2> DEFINE b == [a EXCEPT !.tracked = @ \cup {m}, !.models[m] = CleanModel]
             c == UpdateAggregated(b, t)
  <2>1. b \in Auths /\ b.disabled = a.disabled /\ b.models[n] = a.models[n]
        /\ b.tracked = a.tracked \cup {m} /\ b.status = a.status
    BY <1>1, CleanModelCorrect DEF Auths
  <2>2. MarkModelSuccess(a, m, t) = ClearIfNoModelError(c, t)
    BY DEF MarkModelSuccess
  <2>3. \A k \in Models : WithinHolds(b.models[k].nextRetry, t)
    BY <1>1, CleanModelCorrect DEF Sound, CooldownsEndAt, Auths
  <2> HIDE DEF b
  <2>4. Sound(c, t) /\ c.disabled = b.disabled
    <3>1. c.disabled = b.disabled
      BY <2>1 DEF UpdateAggregated, Auths
    <3> QED BY <1>1, <2>1, <2>3, <3>1, UpdateAggregatedSound
  <2>5. n \in a.tracked /\ Cooling(a.models[n], t)
           => n \in c.tracked /\ Cooling(c.models[n], t)
    BY <2>1, AggregationKeepsCooling
  <2> HIDE DEF c
  <2> QED BY <1>2, <2>1, <2>2, <2>4, <2>5, ClearIfNoModelErrorSound DEF BlockedForModel
<1>4. CASE kind = "requestScoped"
  BY <1>3, <1>4 DEF MarkModelFailure
<1>5. CASE kind # "requestScoped"
  <2> DEFINE s == FailedModel(a.models[m], kind, hint, noCool, t)
             b == [a EXCEPT !.tracked = @ \cup {m}, !.models[m] = s,
                            !.lastError = Stored(kind), !.status = "error"]
             c == UpdateAggregated(b, t)
  <2>1. s \in ModelStates
    BY <1>1, FailedModelCorrect DEF Auths
  <2>2. MarkModelFailure(a, m, kind, hint, noCool, t) = c
    BY <1>5 DEF MarkModelFailure
  <2> HIDE DEF s
  <2>3. b \in Auths /\ b.disabled = a.disabled /\ b.models[n] = a.models[n]
        /\ b.tracked = a.tracked \cup {m}
    BY <1>1, <2>1 DEF Auths, Stored, Errors, Statuses
  <2> HIDE DEF b
  <2>4. c.disabled = b.disabled
    BY <2>3 DEF UpdateAggregated, Auths
  <2>5. n \in a.tracked /\ Cooling(a.models[n], t)
           => n \in c.tracked /\ Cooling(c.models[n], t)
    BY <2>3, AggregationKeepsCooling
  <2> HIDE DEF c
  <2> QED BY <1>2, <1>3, <2>2, <2>3, <2>4, <2>5 DEF BlockedForModel
<1> QED BY <1>4, <1>5

(* No result about one model releases another model of the credential.     *)
THEOREM NoCrossReleaseAlways == Spec => NoCrossRelease
<1> DEFINE A == \A m \in Models : ReleasedEarly(m) => ReplacesRecord \/ ReportsAbout(m)
<1>1. IInv /\ [Next]_vars => [A]_vars
  <2> SUFFICES ASSUME IInv, Next, NEW n \in Models, ReleasedEarly(n),
                      ~ReplacesRecord, ~ReportsAbout(n)
               PROVE  FALSE
    BY DEF vars
  <2>0. /\ Sound(cred, now) /\ now \in Nat \ {0} /\ noCooling \in BOOLEAN
        /\ cred \in Auths /\ now' = now
        /\ BlockedForModel(cred, n, now) /\ ~BlockedForModel(cred', n, now)
        /\ cred.status = "disabled" => cred.disabled
    BY DEF IInv, TypeOK, ReleasedEarly, Sound
  <2>1. ASSUME NEW m \in Models, ReportSuccess(m) PROVE FALSE
    <3>1. n # m
      BY <2>1 DEF ReportsAbout
    <3>2. "other" \in Failures /\ Zero \in RetryHints \cup {Zero}
      BY DEF Failures
    <3> QED BY <2>0, <2>1, <3>1, <3>2, OtherModelsStayBlocked DEF ReportSuccess
  <2>2. ASSUME NEW m \in Models, NEW kind \in Failures, NEW hint \in Hints(kind),
               ReportFailure(m, kind, hint)
        PROVE  FALSE
    <3>1. n # m
      BY <2>2 DEF ReportsAbout
    <3> QED BY <2>0, <2>2, <3>1, HintsType, OtherModelsStayBlocked DEF ReportFailure
  <2>3. ASSUME \/ ReportSuccessWithoutModel
               \/ \E kind \in Failures : \E hint \in Hints(kind) :
                      ReportFailureWithoutModel(kind, hint)
               \/ \E unauthorized \in BOOLEAN : RefreshFails(unauthorized)
               \/ RefreshSucceeds
               \/ SetQuotaCooldownDisabled
        PROVE  FALSE
    <3>1. /\ cred'.disabled = cred.disabled /\ cred'.tracked = cred.tracked
          /\ cred'.models = cred.models
      BY <2>0, <2>3 DEF ReportSuccessWithoutModel, ReportFailureWithoutModel, RefreshFails,
           RefreshSucceeds, SetQuotaCooldownDisabled, MarkAuthSuccess, MarkAuthFailure, Auths
    <3> QED BY <2>0, <3>1 DEF BlockedForModel
  <2>4. ~Tick
    BY <2>0 DEF Tick
  <2> QED BY <2>1, <2>2, <2>3, <2>4 DEF Next, ReplacesRecord
<1> QED BY InitIInv, NextIInv, <1>1, PTL DEF Spec, NoCrossRelease

-----------------------------------------------------------------------------
(* How credentials come and go: the inductive invariant of AuthUpdates, in *)
(* named parts.                                                            *)

(* Where each goroutine may be.                                            *)
Placed ==
    /\ step[Boot] \in {"rescan", "snapshot", "install", "dispatch", "done"}
    /\ step[Loop] \in {"idle", "check", "update", "remove", "dispatch"}
    /\ \A r \in Reloads :
          step[r] \in {"idle", "reload", "load", "store", "filter", "snapshot", "install",
                       "dispatch", "rehash"}
    /\ \A h \in Hooks : step[h] \in {"idle", "hook", "snapshot", "install", "apply"}
    /\ \A c \in Channels : /\ step[Opener(c)] \in {"idle", "announce", "dispatch", "done"}
                           /\ step[Closer(c)] \in {"idle", "forget", "dispatch", "done"}

(* The places where a goroutine has updates in its hands.                  *)
Handing == {"dispatch", "apply"}
HandsFull == \A a \in Actors : step[a] \notin Handing => held[a] = NoUpdates

(* What a goroutine has read is what files and the config can hold, and    *)
(* the event loop has read one file.                                       *)
SeenBy(a) == /\ \A id \in Files \cup Keys : seen[a][id] \in Sources
             /\ \A c \in Channels : seen[a][c] = Absent
SeenOK ==
    /\ \A a \in Actors : SeenBy(a)
    /\ step[Loop] = "check" => events # <<>>
    /\ step[Loop] \in {"update", "remove"} =>
          \E f \in Files, v \in Versions : seen[Loop] = [Nothing EXCEPT ![f] = v]

(* What the dispatcher and the consumer will leave in the manager: the     *)
(* last update of the credential decides.                                  *)
LatestQueued(id, v) ==
    \E i \in QueuedAt(id) : /\ \A j \in QueuedAt(id) : j <= i
                            /\ queue[i].content = v
Delivers(id, v) ==
    IF pending[id] # None THEN pending[id] = v
    ELSE IF batch[id] # None THEN batch[id] = v
    ELSE IF QueuedAt(id) # {} THEN LatestQueued(id, v)
    ELSE manager[id] = v

(* A credential in order: at most one goroutine has an update of it in its *)
(* hands, that update is the entry of currentAuths, and nothing is under   *)
(* way where a hook has it, for a hook overtakes the dispatcher; when      *)
(* nobody has one, what is under way ends with the entry.                  *)
Holds(a, id) == held[a][id] # None
OrderAt(id) ==
    /\ \A a, b \in Actors : Holds(a, id) /\ Holds(b, id) => a = b
    /\ \A a \in Actors : Holds(a, id) => /\ held[a][id] = current[id]
                                         /\ a \in Hooks => ~InFlight(id)
    /\ (\A a \in Actors : ~Holds(a, id)) => Delivers(id, current[id])
InOrder == \A id \in ordered \ forgotten : OrderAt(id)

(* A credential that a reload forgot, and nobody has sent an update of     *)
(* since, has no entry; the session of a channel will have one again when  *)
(* the reload has refreshed the entries.                                   *)
ReloadDue == \E r \in Reloads : step[r] \in {"snapshot", "install"}
ForgottenOK ==
    \A id \in forgotten :
        /\ current[id] = Absent
        /\ id \in Channels => id \in runtime /\ ReloadDue

(* Nothing anywhere says that the session of a channel exists.             *)
NotAnnounced(c) ==
    /\ c \notin runtime /\ manager[c] = Absent
    /\ pending[c] \in {None, Absent} /\ batch[c] \in {None, Absent}
    /\ \A i \in QueuedAt(c) : queue[i].content = Absent
    /\ \A a \in Actors : held[a][c] \in {None, Absent}

(* The entry of a session is what the runtime credentials say, unless it   *)
(* is forgotten, and the two goroutines of the session change them in turn,*)
(* unless the order they were started in was lost, which makes the entry   *)
(* stale.                                                                  *)
Entered(c) == current[c] = IF c \in runtime \ forgotten THEN Present ELSE Absent
SessionAt(c) ==
    /\ Entered(c)
    /\ step[Opener(c)] \in {"idle", "announce"} => NotAnnounced(c)
    /\ step[Opener(c)] = "idle" => step[Closer(c)] = "idle"
    /\ step[Opener(c)] \in {"dispatch", "done"} /\ step[Closer(c)] \in {"idle", "forget"} => c \in runtime
    /\ step[Closer(c)] \in {"dispatch", "done"} /\ c \notin stale => c \notin runtime
Sessions == \A c \in Channels : SessionAt(c)

(* An event that will make the event loop look at the file: of a file that *)
(* is gone, a removal, because the others find nothing to read.            *)
Coming(f) ==
    \E i \in 1..Len(events) : events[i].file = f /\ (disk[f] = Absent => events[i].removes)

(* The file that the event loop is looking at, and what it found of it.    *)
LooksAt(f) == step[Loop] \in {"update", "remove"} /\ seen[Loop][f] # Absent
Finds(f) == IF step[Loop] = "update" THEN seen[Loop][f] ELSE Absent

(* What was last read of a file is what the disk holds, or the file is     *)
(* broken, or an event or the first scan is still to come, or the file's   *)
(* events were ignored.                                                    *)
WatchedAt(f) ==
    /\ LooksAt(f) => Finds(f) = disk[f] \/ Coming(f)
    /\ ~LooksAt(f) /\ f \notin ignored =>
          disk[f] \in {Broken, hashes[f]} \/ Coming(f) \/ step[Boot] = "rescan"
FilesWatched == \A f \in Files : WatchedAt(f)

(* A refresh is under way, or the entries of files and keys are what was   *)
(* last read of them.                                                      *)
Due(a) == step[a] \in {"rescan", "filter", "snapshot", "install"}
Refreshing == \E a \in Actors : Due(a)
Own(id) == IF id \in Files THEN hashes[id] ELSE config[id]
Refreshed == Refreshing \/ \A id \in (Files \cup Keys) \ stale : current[id] = Own(id)

(* A reload of the config is under way, or the config in force or the hash *)
(* last taken is that of the config file.                                  *)
Reloading == timer \/ \E r \in Reloads : step[r] # "idle"
ConfigKept ==
    \/ Reloading
    \/ configFile = configHash
    \/ configFile = config /\ \A h \in Hooks : step[h] # "hook"

(* No goroutine has two roles.                                             *)
LEMMA ActorsApart ==
    /\ Boot \in Actors /\ Loop \in Actors /\ Reloads \subseteq Actors /\ Hooks \subseteq Actors
    /\ \A c \in Channels : Opener(c) \in Actors /\ Closer(c) \in Actors
    /\ Boot # Loop /\ Reloads \cap Hooks = {} /\ {Boot, Loop} \cap (Reloads \cup Hooks) = {}
    /\ \A c \in Channels : /\ Opener(c) \notin {Boot, Loop} \cup Reloads \cup Hooks
                           /\ Closer(c) \notin {Boot, Loop} \cup Reloads \cup Hooks
    /\ \A c, d \in Channels : /\ Opener(c) # Closer(d)
                              /\ Opener(c) = Opener(d) => c = d
                              /\ Closer(c) = Closer(d) => c = d
    /\ \A a \in Actors \ ({Boot, Loop} \cup Reloads \cup Hooks) :
          \E c \in Channels : a = Opener(c) \/ a = Closer(c)
<1>1. \A c \in Channels : /\ Opener(c) \in Channels \X {"open", "close"}
                          /\ Closer(c) \in Channels \X {"open", "close"}
  BY DEF Opener, Closer
<1>2. \A c, d \in Channels : /\ Opener(c) # Closer(d)
                             /\ Opener(c) = Opener(d) => c = d
                             /\ Closer(c) = Closer(d) => c = d
  BY DEF Opener, Closer
<1>3. \A a \in Channels \X {"open", "close"} : \E c \in Channels : a = Opener(c) \/ a = Closer(c)
  BY DEF Opener, Closer
<1> QED BY <1>1, <1>2, <1>3, SourcesAssumption DEF Actors

(* Nor has an identifier, and what the sources hold is no missing update.  *)
LEMMA IdsApart ==
    /\ Files \subseteq Ids /\ Keys \subseteq Ids /\ Channels \subseteq Ids
    /\ \A id \in Ids : id \in Files \/ id \in Keys \/ id \in Channels
    /\ Files \cap Keys = {} /\ Files \cap Channels = {} /\ Keys \cap Channels = {}
    /\ Sources \subseteq Contents /\ Absent \in Sources /\ Present \in Contents /\ Versions \subseteq Sources
    /\ Absent \notin Versions /\ Present \notin Sources /\ None \notin Contents
    /\ Broken \notin Contents /\ Broken # Absent
BY SourcesAssumption, BoundsAssumption DEF Ids, Contents, Sources

(* What a file makes is a content of a source.                             *)
LEMMA ContentTypes ==
    ASSUME UpdatesTypeOK, NEW f \in Files
    PROVE  /\ Content(f) \in Sources /\ Content(f) \in Contents
           /\ disk[f] \in {Broken, Content(f)}
           /\ disk[f] # Broken => disk[f] \in Sources /\ disk[f] \in Contents
BY IdsApart DEF Content, UpdatesTypeOK, FileContents

(* Where seen and the places of the event loop have their types, so do the *)
(* files that it looks at.                                                 *)
LEMMA FileLookedAt ==
    ASSUME UpdatesTypeOK, SeenOK, step[Loop] \in {"update", "remove"}
    PROVE  /\ LoopFile \in Files /\ seen[Loop][LoopFile] \in Versions
           /\ seen[Loop] = [Nothing EXCEPT ![LoopFile] = seen[Loop][LoopFile]]
<1>1. PICK f \in Files, v \in Versions : seen[Loop] = [Nothing EXCEPT ![f] = v]
  BY DEF SeenOK
<1>2. /\ f \in Ids /\ v # Absent
      /\ \A g \in Files : g \in Ids
  BY IdsApart
<1>3. /\ seen[Loop][f] = v
      /\ \A g \in Files : g # f => seen[Loop][g] = Absent
  BY <1>1, <1>2 DEF Nothing
<1>4. LoopFile = f
  BY <1>2, <1>3 DEF LoopFile
<1> QED BY <1>1, <1>3, <1>4

(* What is emitted and where a goroutine goes have their types.            *)
LEMMA EmitsTypes ==
    ASSUME UpdatesTypeOK, NEW a \in Actors, NEW ups \in Updates, Emits(a, ups)
    PROVE  held' \in [Actors -> Updates] /\ ordered' \subseteq Ids /\ forgotten' \subseteq Ids
BY DEF Emits, Emitted, UpdatesTypeOK

(* A goroutine goes to one of the steps.                                   *)
LEMMA GoesTypes ==
    ASSUME UpdatesTypeOK, NEW a \in Actors, NEW s \in Steps, Goes(a, s)
    PROVE  step' \in [Actors -> Steps]
BY DEF Goes, UpdatesTypeOK

(* The head and the tail of a sequence that is not empty.                  *)
LEMMA HeadTailOf ==
    ASSUME NEW S, NEW s \in Seq(S), s # <<>>
    PROVE  Head(s) \in S /\ Tail(s) \in Seq(S)
OBVIOUS

(* Every step keeps the types.                                             *)
LEMMA TypesKept ==
    ASSUME UpdatesTypeOK, SeenOK, UpdatesNext
    PROVE  UpdatesTypeOK'
<1> USE DEF files, watcher, dispatcher, consumer, goroutines, history
<1> DEFINE Events == [file : Files, removes : BOOLEAN]
<1>1. /\ Nothing \in [Ids -> Contents] /\ NoUpdates \in Updates
      /\ \A id \in Ids, v \in Contents : Only(id, v) \in Updates
      /\ \A f \in Files, v \in Contents : [Nothing EXCEPT ![f] = v] \in [Ids -> Contents]
  BY IdsApart DEF Nothing, NoUpdates, Updates, Only
<1>2. Sources \subseteq Contents /\ Absent \in Sources /\ Present \in Contents /\ Versions \subseteq Sources
  BY IdsApart
<1>3. Files \subseteq Ids /\ Keys \subseteq Ids /\ Channels \subseteq Ids
  BY IdsApart
<1>4. Boot \in Actors /\ Loop \in Actors /\ Reloads \subseteq Actors /\ Hooks \subseteq Actors
  BY ActorsApart
<1>5. \A c \in Channels : Opener(c) \in Actors /\ Closer(c) \in Actors
  BY ActorsApart
<1>6. ASSUME NEW f \in Files, NEW v \in Versions \cup {Broken}, WriteFile(f, v) PROVE UpdatesTypeOK'
  <2>1. [file |-> f, removes |-> FALSE] \in Events
    OBVIOUS
  <2> QED BY <1>2, <1>6, <2>1 DEF WriteFile, Changes, UpdatesTypeOK, FileContents
<1>7. ASSUME NEW f \in Files, NEW v \in Versions \cup {Broken}, ReplaceFile(f, v) PROVE UpdatesTypeOK'
  <2> DEFINE two == <<[file |-> f, removes |-> TRUE], [file |-> f, removes |-> FALSE]>>
  <2>1. two \in Seq(Events)
    OBVIOUS
  <2>2. events \o two \in Seq(Events)
    BY <2>1 DEF UpdatesTypeOK
  <2> QED BY <1>2, <1>7, <2>2 DEF ReplaceFile, Changes, UpdatesTypeOK, FileContents
<1>8. ASSUME NEW f \in Files, RemoveFile(f) PROVE UpdatesTypeOK'
  <2>1. [file |-> f, removes |-> TRUE] \in Events
    OBVIOUS
  <2> QED BY <1>2, <1>8, <2>1 DEF RemoveFile, Changes, UpdatesTypeOK, FileContents
<1>9. ASSUME NEW c \in Configs, EditConfig(c) PROVE UpdatesTypeOK'
  BY <1>9 DEF EditConfig, Changes, UpdatesTypeOK
<1>10. ASSUME NEW h \in Hooks, NEW c \in Configs, SaveConfig(h, c) PROVE UpdatesTypeOK'
  <2> DEFINE asked == [id \in Ids |-> IF id \in Keys THEN c[id] ELSE Absent]
  <2>1. asked \in [Ids -> Contents]
    BY <1>2 DEF Configs
  <2> HIDE DEF asked
  <2>2. seen' = [seen EXCEPT ![h] = asked]
    BY <1>10 DEF SaveConfig, asked
  <2>3. step' \in [Actors -> Steps]
    BY <1>4, <1>10, GoesTypes DEF SaveConfig, Steps
  <2>4. seen' \in [Actors -> [Ids -> Contents]]
    BY <1>4, <2>1, <2>2 DEF UpdatesTypeOK
  <2>5. configFile' \in Configs /\ timer' = TRUE
    BY <1>10 DEF SaveConfig
  <2>6. UNCHANGED <<disk, events, recent, watcher, dispatcher, consumer, held, ordered,
                    forgotten, stale, ignored>>
    BY <1>10 DEF SaveConfig
  <2>7. changes \in Nat /\ changes' = changes + 1
    BY <1>10 DEF SaveConfig, Changes, UpdatesTypeOK
  <2> QED BY <2>3, <2>4, <2>5, <2>6, <2>7 DEF UpdatesTypeOK
<1>11. ASSUME NEW c \in Channels, Connect(c) \/ Disconnect(c) PROVE UpdatesTypeOK'
  <2>1. step' \in [Actors -> Steps]
    BY <1>5, <1>11, GoesTypes DEF Connect, Disconnect, Steps
  <2> QED BY <1>11, <2>1 DEF Connect, Disconnect, Changes, UpdatesTypeOK
<1>12. CASE StopSessions
  BY <1>12 DEF StopSessions, Changes, UpdatesTypeOK, Steps
<1>13. ASSUME NEW f \in Files, WindowPasses(f) PROVE UpdatesTypeOK'
  BY <1>13 DEF WindowPasses, UpdatesTypeOK
<1>14. CASE HandleWrite \/ HandleRemove \/ CheckReplaced
  <2>1. events # <<>>
    <3>1. step[Loop] = "check" => events # <<>>
      BY DEF SeenOK
    <3> QED BY <1>14, <3>1 DEF HandleWrite, HandleRemove, CheckReplaced, At
  <2>2. Head(events).file \in Files /\ Tail(events) \in Seq(Events)
    <3>1. events \in Seq(Events)
      BY DEF UpdatesTypeOK
    <3>2. Head(events) \in Events /\ Tail(events) \in Seq(Events)
      BY <2>1, <3>1, HeadTailOf
    <3> QED BY <3>2
  <2>3. step' \in [Actors -> Steps]
    BY <1>4, <1>14, GoesTypes DEF HandleWrite, HandleRemove, CheckReplaced, UpdatesTypeOK, Steps
  <2> HIDE DEF Events
  <2> DEFINE f == Head(events).file
  <2>4. f \in Files /\ (disk[f] # Broken => disk[f] \in Contents) /\ hashes[f] \in Contents
    BY <1>2, <2>2, ContentTypes DEF UpdatesTypeOK
  <2> HIDE DEF f
  <2>5. seen' \in [Actors -> [Ids -> Contents]]
    <3>1. \/ seen' = seen
          \/ \E v \in Contents : seen' = [seen EXCEPT ![Loop] = [Nothing EXCEPT ![f] = v]]
      BY <1>14, <2>4 DEF HandleWrite, HandleRemove, CheckReplaced, f
    <3>2. \A v \in Contents : [Nothing EXCEPT ![f] = v] \in [Ids -> Contents]
      BY <1>1, <2>4
    <3> QED BY <1>4, <3>1, <3>2 DEF UpdatesTypeOK
  <2>6. /\ events' \in Seq(Events) /\ recent' \subseteq Files /\ ignored' \subseteq Files
    BY <1>14, <2>2 DEF HandleWrite, HandleRemove, CheckReplaced, Drop, UpdatesTypeOK, Events
  <2> QED BY <1>14, <2>3, <2>5, <2>6 DEF HandleWrite, HandleRemove, CheckReplaced, UpdatesTypeOK, Events
<1>15. CASE UpdateClient \/ RemoveClient
  <2> DEFINE f == LoopFile
             v == seen[Loop][f]
  <2>1. f \in Files /\ v \in Versions /\ f \in Ids /\ v \in Sources /\ v \in Contents /\ Absent \in Contents
    BY <1>2, <1>3, <1>15, FileLookedAt DEF UpdateClient, RemoveClient, At
  <2>2. step' \in [Actors -> Steps]
    BY <1>4, <1>15, GoesTypes DEF UpdateClient, RemoveClient, Steps
  <2> HIDE DEF f, v
  <2>3. held' \in [Actors -> Updates] /\ ordered' \subseteq Ids /\ forgotten' \subseteq Ids
    <3>1. \/ UNCHANGED <<held, ordered, forgotten>>
          \/ \E ups \in Updates : Emits(Loop, ups)
      BY <1>1, <1>15, <2>1 DEF UpdateClient, RemoveClient, f, v
    <3> QED BY <1>4, <3>1, EmitsTypes DEF UpdatesTypeOK
  <2>4. /\ hashes' \in [Files -> Sources] /\ current' \in [Ids -> Contents]
        /\ stale' \subseteq Ids /\ ignored' \subseteq Files
    BY <1>2, <1>15, <2>1 DEF UpdateClient, RemoveClient, f, v, UpdatesTypeOK
  <2>5. seen' \in [Actors -> [Ids -> Contents]]
    BY <1>1, <1>4, <1>15 DEF UpdateClient, RemoveClient, UpdatesTypeOK
  <2>6. /\ UNCHANGED <<disk, events, recent, timer, configFile, configHash, config, runtime>>
        /\ UNCHANGED <<pending, batch, queue, manager, changes>>
    BY <1>15 DEF UpdateClient, RemoveClient
  <2> QED BY <2>2, <2>3, <2>4, <2>5, <2>6 DEF UpdatesTypeOK
<1>16. CASE Rescan
  <2>1. step' \in [Actors -> Steps]
    BY <1>4, <1>16, GoesTypes DEF Rescan, Steps
  <2>2. hashes' \in [Files -> Sources]
    BY <1>16, ContentTypes DEF Rescan
  <2> QED BY <1>16, <2>1, <2>2 DEF Rescan, UpdatesTypeOK
<1>17. ASSUME NEW r \in Reloads, TimerFires(r) \/ ReloadConfig(r) \/ Rehash(r)
       PROVE  UpdatesTypeOK'
  <2>1. step' \in [Actors -> Steps]
    BY <1>4, <1>17, GoesTypes DEF TimerFires, ReloadConfig, Rehash, Steps
  <2> QED BY <1>17, <2>1 DEF TimerFires, ReloadConfig, Rehash, UpdatesTypeOK
<1>18. ASSUME NEW r \in Reloads, NEW targets \in SUBSET Providers,
              LoadConfig(r) \/ StoreConfig(r) \/ ForgetAffected(r, targets)
       PROVE  UpdatesTypeOK'
  <2>1. step' \in [Actors -> Steps] /\ r \in Actors
    BY <1>4, <1>18, GoesTypes DEF LoadConfig, StoreConfig, ForgetAffected, Steps
  <2>2. CASE LoadConfig(r)
    <3> DEFINE read == [id \in Ids |-> IF id \in Keys THEN configFile[id] ELSE Absent]
    <3>1. read \in [Ids -> Contents]
      BY <1>2 DEF Configs, UpdatesTypeOK
    <3> HIDE DEF read
    <3>2. seen' = [seen EXCEPT ![r] = read]
      BY <2>2 DEF LoadConfig, read
    <3> QED BY <2>1, <2>2, <3>1, <3>2 DEF LoadConfig, UpdatesTypeOK
  <2>3. CASE StoreConfig(r)
    <3>1. config' \in Configs
      BY <2>1, <2>3 DEF StoreConfig, SeenOK, SeenBy, Configs
    <3>2. seen' \in [Actors -> [Ids -> Contents]]
      BY <1>1, <2>1, <2>3 DEF StoreConfig, UpdatesTypeOK
    <3> QED BY <2>1, <2>3, <3>1, <3>2 DEF StoreConfig, UpdatesTypeOK
  <2>4. CASE ForgetAffected(r, targets)
    BY <1>2, <2>1, <2>4 DEF ForgetAffected, UpdatesTypeOK
  <2> QED BY <1>18, <2>2, <2>3, <2>4
<1>19. ASSUME NEW a \in Actors, TakeSnapshot(a) PROVE UpdatesTypeOK'
  <2> DEFINE snapshot == [id \in Ids |-> CASE id \in Files    -> Content(id)
                                           [] id \in Keys     -> IF a \in Hooks THEN seen[a][id]
                                                                                ELSE config[id]
                                           [] id \in Channels -> Absent]
  <2>1. snapshot \in [Ids -> Contents]
    <3>1. \A id \in Files : Content(id) \in Contents
      BY ContentTypes
    <3>2. \A id \in Keys : seen[a][id] \in Contents /\ config[id] \in Contents
      BY <1>2, <1>3 DEF UpdatesTypeOK, Configs
    <3> QED BY <1>2, <3>1, <3>2, IdsApart
  <2> HIDE DEF snapshot
  <2>2. seen' = [seen EXCEPT ![a] = snapshot]
    BY <1>19 DEF TakeSnapshot, snapshot
  <2>3. step' \in [Actors -> Steps]
    BY <1>19, GoesTypes DEF TakeSnapshot, Steps
  <2> QED BY <1>19, <2>1, <2>2, <2>3 DEF TakeSnapshot, UpdatesTypeOK
<1>20. ASSUME NEW a \in Actors, NEW force \in BOOLEAN, Install(a, force)
       PROVE  UpdatesTypeOK'
  <2>1. WithRuntime(seen[a]) \in [Ids -> Contents]
    BY <1>2 DEF WithRuntime, UpdatesTypeOK
  <2>2. Differences(WithRuntime(seen[a]), force) \in Updates
    BY <2>1 DEF Differences, Updates
  <2>3. stale' \subseteq Ids
    BY <1>3, <1>20 DEF Install, Overtaken, UpdatesTypeOK
  <2>4. step' \in [Actors -> Steps]
    BY <1>20, GoesTypes DEF Install, Steps
  <2>5. held' \in [Actors -> Updates] /\ ordered' \subseteq Ids /\ forgotten' \subseteq Ids
    BY <1>20, <2>2, EmitsTypes DEF Install
  <2> QED BY <1>1, <1>20, <2>1, <2>3, <2>4, <2>5 DEF Install, UpdatesTypeOK
<1>21. ASSUME NEW h \in Hooks, SetConfig(h) PROVE UpdatesTypeOK'
  <2>1. step' \in [Actors -> Steps]
    BY <1>4, <1>21, GoesTypes DEF SetConfig, Steps
  <2>2. config' \in Configs
    BY <1>4, <1>21 DEF SetConfig, SeenOK, SeenBy, Configs
  <2> QED BY <1>21, <2>1, <2>2 DEF SetConfig, UpdatesTypeOK
<1>22. ASSUME NEW h \in Hooks, HookDone(h) PROVE UpdatesTypeOK'
  <2>1. step' \in [Actors -> Steps]
    BY <1>4, <1>22, GoesTypes DEF HookDone, Steps
  <2> QED BY <1>22, <2>1 DEF HookDone, UpdatesTypeOK
<1>23. ASSUME NEW h \in Hooks, NEW id \in Ids, ApplyHere(h, id) PROVE UpdatesTypeOK'
  <2>1. held[h] \in Updates /\ held[h][id] \in Contents
    BY <1>4, <1>23 DEF ApplyHere, UpdatesTypeOK, Updates
  <2>2. [held[h] EXCEPT ![id] = None] \in Updates
    BY <2>1 DEF Updates
  <2>3. held' = [held EXCEPT ![h] = [held[h] EXCEPT ![id] = None]]
    BY <1>4, <1>23 DEF ApplyHere, UpdatesTypeOK
  <2>4. held' \in [Actors -> Updates]
    BY <2>2, <2>3 DEF UpdatesTypeOK
  <2> QED BY <1>23, <2>1, <2>4 DEF ApplyHere, UpdatesTypeOK
<1>24. ASSUME NEW c \in Channels, Announce(c) \/ Forget(c) PROVE UpdatesTypeOK'
  <2>1. step' \in [Actors -> Steps]
    BY <1>5, <1>24, GoesTypes DEF Announce, Forget, Steps
  <2>2. held' \in [Actors -> Updates] /\ ordered' \subseteq Ids /\ forgotten' \subseteq Ids
    <3>1. \/ UNCHANGED <<held, ordered, forgotten>>
          \/ \E a \in Actors, ups \in Updates : Emits(a, ups)
      BY <1>1, <1>2, <1>3, <1>5, <1>24 DEF Announce, Forget
    <3> QED BY <3>1, EmitsTypes DEF UpdatesTypeOK
  <2>3. current' \in [Ids -> Contents] /\ runtime' \subseteq Channels /\ stale' \subseteq Ids
    BY <1>2, <1>3, <1>24 DEF Announce, Forget, UpdatesTypeOK
  <2> QED BY <1>24, <2>1, <2>2, <2>3 DEF Announce, Forget, UpdatesTypeOK
<1>25. ASSUME NEW a \in Actors, Dispatch(a) PROVE UpdatesTypeOK'
  <2>1. step' \in [Actors -> Steps]
    BY <1>25, GoesTypes DEF Dispatch, AfterDispatch, Steps
  <2>2. Coalesced(held[a]) \in Updates
    BY DEF Coalesced, UpdatesTypeOK, Updates
  <2> QED BY <1>1, <1>25, <2>1, <2>2 DEF Dispatch, UpdatesTypeOK
<1>26. CASE TakeBatch
  BY <1>1, <1>26 DEF TakeBatch, UpdatesTypeOK
<1>27. ASSUME NEW id \in Ids, SendUpdate(id) PROVE UpdatesTypeOK'
  <2>1. [id |-> id, content |-> batch[id]] \in Messages
    BY <1>27 DEF SendUpdate, UpdatesTypeOK, Updates, Messages
  <2>2. queue' \in Seq(Messages) /\ Len(queue') <= QueueSize
    BY <1>27, <2>1, BoundsAssumption DEF SendUpdate, UpdatesTypeOK
  <2>3. batch' \in Updates
    BY <1>27 DEF SendUpdate, UpdatesTypeOK, Updates
  <2> QED BY <1>27, <2>2, <2>3 DEF SendUpdate, UpdatesTypeOK
<1>28. CASE Apply
  <2>1. /\ Head(queue) \in Messages /\ Tail(queue) \in Seq(Messages)
        /\ Len(Tail(queue)) <= QueueSize
    BY <1>28, BoundsAssumption DEF Apply, UpdatesTypeOK
  <2>2. Head(queue).id \in Ids /\ Head(queue).content \in Contents
    BY <2>1 DEF Messages
  <2> QED BY <1>28, <2>1, <2>2 DEF Apply, UpdatesTypeOK
<1>29. CASE World
  BY <1>6, <1>7, <1>8, <1>9, <1>10, <1>11, <1>12, <1>29 DEF World
<1>30. CASE EventLoop
  BY <1>14, <1>15, <1>30 DEF EventLoop
<1>31. ASSUME NEW a \in Actors, Refresh(a) PROVE UpdatesTypeOK'
  BY <1>19, <1>20, <1>31 DEF Refresh
<1>32. ASSUME NEW r \in Reloads, ConfigReload(r) PROVE UpdatesTypeOK'
  BY <1>4, <1>17, <1>18, <1>31, <1>32 DEF ConfigReload
<1>33. ASSUME NEW h \in Hooks, Hook(h) PROVE UpdatesTypeOK'
  BY <1>4, <1>21, <1>22, <1>23, <1>31, <1>33 DEF Hook
<1> QED
  BY <1>4, <1>13, <1>16, <1>24, <1>25, <1>26, <1>27, <1>28, <1>29, <1>30, <1>31, <1>32, <1>33
     DEF UpdatesNext, Dispatcher

(* A goroutine that goes somewhere is there, and nobody else has moved.    *)
LEMMA MovesOnly ==
    ASSUME UpdatesTypeOK, NEW a \in Actors, NEW s, Goes(a, s)
    PROVE  step'[a] = s /\ \A b \in Actors : b # a => step'[b] = step[b]
BY DEF Goes, UpdatesTypeOK

(* Who moves, and where to.                                                *)
LEMMA WhoMoves ==
    ASSUME UpdatesTypeOK, Placed, UpdatesNext
    PROVE  \/ UNCHANGED step
           \/ StopSessions
           \/ /\ Rescan \/ Refresh(Boot) \/ Dispatch(Boot)
              /\ \E s \in {"snapshot", "install", "dispatch", "done"} : Goes(Boot, s)
           \/ /\ EventLoop \/ Dispatch(Loop)
              /\ \E s \in {"idle", "check", "update", "remove", "dispatch"} : Goes(Loop, s)
           \/ \E r \in Reloads :
                 /\ ConfigReload(r) \/ Dispatch(r)
                 /\ \E s \in {"idle", "reload", "load", "store", "filter", "snapshot", "install",
                            "dispatch", "rehash"} : Goes(r, s)
           \/ \E h \in Hooks :
                 /\ Hook(h) \/ \E c \in Configs : SaveConfig(h, c)
                 /\ \E s \in {"idle", "hook", "snapshot", "install", "apply"} : Goes(h, s)
           \/ \E c \in Channels :
                 \/ /\ Connect(c) \/ Announce(c) \/ Dispatch(Opener(c))
                    /\ \E s \in {"announce", "dispatch", "done"} : Goes(Opener(c), s)
                 \/ /\ Disconnect(c) \/ Forget(c) \/ Dispatch(Closer(c))
                    /\ \E s \in {"forget", "dispatch", "done"} : Goes(Closer(c), s)
<1> USE DEF goroutines
<1>1. CASE World
  <2>1. CASE \E h \in Hooks, c \in Configs : SaveConfig(h, c)
    BY <2>1 DEF SaveConfig
  <2>2. CASE \E c \in Channels : Connect(c) \/ Disconnect(c)
    BY <2>2 DEF Connect, Disconnect
  <2> QED BY <1>1, <2>1, <2>2 DEF World, WriteFile, ReplaceFile, RemoveFile, EditConfig
<1>2. CASE EventLoop
  <2>1. UNCHANGED step \/ \E s \in {"idle", "check", "update", "remove", "dispatch"} : Goes(Loop, s)
    BY <1>2 DEF EventLoop, HandleWrite, HandleRemove, CheckReplaced, UpdateClient, RemoveClient
  <2> QED BY <1>2, <2>1
<1>3. CASE Rescan \/ Refresh(Boot)
  <2>1. Boot \notin Hooks
    BY ActorsApart
  <2>2. \E s \in {"snapshot", "install", "dispatch", "done"} : Goes(Boot, s)
    BY <1>3, <2>1 DEF Rescan, Refresh, TakeSnapshot, Install
  <2> QED BY <1>3, <2>2
<1>4. ASSUME NEW r \in Reloads, ConfigReload(r)
      PROVE  \E s \in {"idle", "reload", "load", "store", "filter", "snapshot", "install",
                      "dispatch", "rehash"} : Goes(r, s)
  <2>1. r \notin Hooks
    BY ActorsApart
  <2> QED BY <1>4, <2>1 DEF ConfigReload, Refresh, TimerFires, ReloadConfig, LoadConfig,
                            StoreConfig, Rehash, ForgetAffected, TakeSnapshot, Install
<1>5. ASSUME NEW h \in Hooks, Hook(h)
      PROVE  \/ UNCHANGED step
             \/ \E s \in {"idle", "hook", "snapshot", "install", "apply"} : Goes(h, s)
  BY <1>5 DEF Hook, Refresh, SetConfig, HookDone, ApplyHere, TakeSnapshot, Install
<1>6. ASSUME NEW c \in Channels, Announce(c)
      PROVE  \E s \in {"announce", "dispatch", "done"} : Goes(Opener(c), s)
  BY <1>6 DEF Announce
<1>7. ASSUME NEW c \in Channels, Forget(c)
      PROVE  \E s \in {"forget", "dispatch", "done"} : Goes(Closer(c), s)
  BY <1>7 DEF Forget
<1>8. ASSUME NEW a \in Actors, Dispatch(a)
      PROVE  \/ a = Boot /\ Goes(Boot, "done")
             \/ a = Loop /\ Goes(Loop, "idle")
             \/ a \in Reloads /\ Goes(a, "rehash")
             \/ \E c \in Channels : (a = Opener(c) \/ a = Closer(c)) /\ Goes(a, "done")
  <2>1. step[a] = "dispatch" /\ Goes(a, AfterDispatch(a))
    BY <1>8 DEF Dispatch, At
  <2>2. a \notin Hooks
    BY <2>1 DEF Placed
  <2> QED BY <2>1, <2>2, ActorsApart DEF AfterDispatch
<1>9. CASE (\E f \in Files : WindowPasses(f)) \/ Dispatcher \/ Apply
  BY <1>9 DEF WindowPasses, Dispatcher, TakeBatch, SendUpdate, Apply
<1>10. ASSUME NEW a \in Actors, Dispatch(a)
       PROVE  \/ Dispatch(Boot) /\ Goes(Boot, "done")
              \/ Dispatch(Loop) /\ Goes(Loop, "idle")
              \/ \E r \in Reloads : Dispatch(r) /\ Goes(r, "rehash")
              \/ \E c \in Channels : \/ Dispatch(Opener(c)) /\ Goes(Opener(c), "done")
                                     \/ Dispatch(Closer(c)) /\ Goes(Closer(c), "done")
  BY <1>8, <1>10
<1> QED BY <1>1, <1>2, <1>3, <1>4, <1>5, <1>6, <1>7, <1>9, <1>10 DEF UpdatesNext

(* A goroutine is moved by its own actions only.                           *)
LEMMA OwnMoves ==
    ASSUME UpdatesTypeOK, Placed, UpdatesNext
    PROVE  /\ step'[Boot] # step[Boot] => Rescan \/ Refresh(Boot) \/ Dispatch(Boot)
           /\ step'[Loop] # step[Loop] => EventLoop \/ Dispatch(Loop)
           /\ \A r \in Reloads : step'[r] # step[r] => ConfigReload(r) \/ Dispatch(r)
           /\ \A h \in Hooks : step'[h] # step[h] => Hook(h) \/ \E c \in Configs : SaveConfig(h, c)
           /\ \A c \in Channels :
                 /\ step'[Opener(c)] # step[Opener(c)] => Connect(c) \/ Announce(c) \/ Dispatch(Opener(c))
                 /\ step'[Closer(c)] # step[Closer(c)] =>
                       StopSessions \/ Disconnect(c) \/ Forget(c) \/ Dispatch(Closer(c))
<1> DEFINE Alone == /\ step'[Boot] # step[Boot] => Rescan \/ Refresh(Boot) \/ Dispatch(Boot)
                    /\ step'[Loop] # step[Loop] => EventLoop \/ Dispatch(Loop)
                    /\ \A r \in Reloads : step'[r] # step[r] => ConfigReload(r) \/ Dispatch(r)
                    /\ \A h \in Hooks : step'[h] # step[h] => Hook(h) \/ \E c \in Configs : SaveConfig(h, c)
                    /\ \A c \in Channels :
                          /\ step'[Opener(c)] # step[Opener(c)] =>
                                Connect(c) \/ Announce(c) \/ Dispatch(Opener(c))
                          /\ step'[Closer(c)] # step[Closer(c)] =>
                                StopSessions \/ Disconnect(c) \/ Forget(c) \/ Dispatch(Closer(c))
<1>1. ASSUME UNCHANGED step PROVE Alone
  BY <1>1
<1>2. ASSUME StopSessions PROVE Alone
  <2>1. \A a \in Actors : step'[a] = step[a] \/ \E c \in Channels : a = Closer(c)
    BY <1>2 DEF StopSessions
  <2> QED BY <1>2, <2>1, ActorsApart
<1>3. ASSUME NEW s, Goes(Boot, s), Rescan \/ Refresh(Boot) \/ Dispatch(Boot) PROVE Alone
  BY <1>3, MovesOnly, ActorsApart
<1>4. ASSUME NEW s, Goes(Loop, s), EventLoop \/ Dispatch(Loop) PROVE Alone
  BY <1>4, MovesOnly, ActorsApart
<1>5. ASSUME NEW r \in Reloads, NEW s, Goes(r, s), ConfigReload(r) \/ Dispatch(r) PROVE Alone
  BY <1>5, MovesOnly, ActorsApart
<1>6. ASSUME NEW h \in Hooks, NEW s, Goes(h, s), Hook(h) \/ \E c \in Configs : SaveConfig(h, c) PROVE Alone
  BY <1>6, MovesOnly, ActorsApart
<1>7. ASSUME NEW c \in Channels, NEW s, Goes(Opener(c), s), Connect(c) \/ Announce(c) \/ Dispatch(Opener(c))
      PROVE  Alone
  BY <1>7, MovesOnly, ActorsApart
<1>8. ASSUME NEW c \in Channels, NEW s, Goes(Closer(c), s), Disconnect(c) \/ Forget(c) \/ Dispatch(Closer(c))
      PROVE  Alone
  BY <1>8, MovesOnly, ActorsApart
<1> HIDE DEF Alone
<1>9. ASSUME (Rescan \/ Refresh(Boot) \/ Dispatch(Boot)) /\ \E s : Goes(Boot, s) PROVE Alone
  BY <1>3, <1>9
<1>10. ASSUME (EventLoop \/ Dispatch(Loop)) /\ \E s : Goes(Loop, s) PROVE Alone
  BY <1>4, <1>10
<1>11. ASSUME NEW r \in Reloads, (ConfigReload(r) \/ Dispatch(r)) /\ \E s : Goes(r, s) PROVE Alone
  BY <1>5, <1>11
<1>12. ASSUME NEW h \in Hooks, \E s : Goes(h, s), Hook(h) \/ \E c \in Configs : SaveConfig(h, c) PROVE Alone
  BY <1>6, <1>12
<1>13. ASSUME NEW c \in Channels,
              \/ (Connect(c) \/ Announce(c) \/ Dispatch(Opener(c))) /\ \E s : Goes(Opener(c), s)
              \/ (Disconnect(c) \/ Forget(c) \/ Dispatch(Closer(c))) /\ \E s : Goes(Closer(c), s)
       PROVE  Alone
  BY <1>7, <1>8, <1>13
<1>14. ASSUME UNCHANGED step \/ StopSessions PROVE Alone
  BY <1>1, <1>2, <1>14
<1>15. Alone
  BY <1>9, <1>10, <1>11, <1>12, <1>13, <1>14, WhoMoves
<1> QED BY <1>15 DEF Alone

(* Every goroutine stays on its own round.                                 *)
LEMMA PlacedKept ==
    ASSUME UpdatesTypeOK, Placed, UpdatesNext
    PROVE  Placed'
<1> USE DEF Placed
<1>1. CASE UNCHANGED step
  BY <1>1
<1>2. CASE StopSessions
  <2>1. \A a \in Actors : step'[a] = step[a] \/ (step'[a] = "forget" /\ \E c \in Channels : a = Closer(c))
    BY <1>2 DEF StopSessions
  <2> QED BY <2>1, ActorsApart
<1>3. ASSUME NEW s \in {"snapshot", "install", "dispatch", "done"}, Goes(Boot, s) PROVE Placed'
  BY <1>3, MovesOnly, ActorsApart
<1>4. ASSUME NEW s \in {"idle", "check", "update", "remove", "dispatch"}, Goes(Loop, s) PROVE Placed'
  BY <1>4, MovesOnly, ActorsApart
<1>5. ASSUME NEW r \in Reloads,
             NEW s \in {"idle", "reload", "load", "store", "filter", "snapshot", "install",
                        "dispatch", "rehash"},
             Goes(r, s)
      PROVE  Placed'
  BY <1>5, MovesOnly, ActorsApart
<1>6. ASSUME NEW h \in Hooks, NEW s \in {"idle", "hook", "snapshot", "install", "apply"}, Goes(h, s)
      PROVE  Placed'
  BY <1>6, MovesOnly, ActorsApart
<1>7. ASSUME NEW c \in Channels, NEW s \in {"announce", "dispatch", "done"}, Goes(Opener(c), s)
      PROVE  Placed'
  BY <1>7, MovesOnly, ActorsApart
<1>8. ASSUME NEW c \in Channels, NEW s \in {"forget", "dispatch", "done"}, Goes(Closer(c), s)
      PROVE  Placed'
  BY <1>8, MovesOnly, ActorsApart
<1> HIDE DEF Placed
<1>9. CASE \E r \in Reloads, s \in {"idle", "reload", "load", "store", "filter", "snapshot",
                                     "install", "dispatch", "rehash"} : Goes(r, s)
  BY <1>5, <1>9
<1>10. CASE \E h \in Hooks, s \in {"idle", "hook", "snapshot", "install", "apply"} : Goes(h, s)
  BY <1>6, <1>10
<1>11. CASE \E c \in Channels : \/ \E s \in {"announce", "dispatch", "done"} : Goes(Opener(c), s)
                                \/ \E s \in {"forget", "dispatch", "done"} : Goes(Closer(c), s)
  BY <1>7, <1>8, <1>11
<1> QED BY <1>1, <1>2, <1>3, <1>4, <1>9, <1>10, <1>11, WhoMoves

(* What becomes of the updates in the hands of the goroutines.             *)
LEMMA WhoHands ==
    ASSUME UpdatesTypeOK, Placed, HandsFull, UpdatesNext
    PROVE  \/ /\ UNCHANGED held
              /\ \A a \in Actors : step'[a] \notin Handing => step[a] \notin Handing \/ held[a] = NoUpdates
           \/ \E a \in Actors, s \in Handing : Goes(a, s) /\ \E ups : held' = [held EXCEPT ![a] = ups]
           \/ \E a \in Actors : Dispatch(a)
           \/ \E h \in Hooks, id \in Ids : ApplyHere(h, id)
<1> USE DEF goroutines
<1> DEFINE Still == /\ UNCHANGED held
                    /\ \A a \in Actors : step'[a] \notin Handing =>
                                         step[a] \notin Handing \/ held[a] = NoUpdates
           Hands == \E a \in Actors, s \in Handing : Goes(a, s) /\ \E ups : held' = [held EXCEPT ![a] = ups]
<1>1. ASSUME NEW a \in Actors, NEW s, step[a] \notin Handing, Goes(a, s), UNCHANGED held
      PROVE  Still
  BY <1>1, MovesOnly
<1>2. ASSUME NEW a \in Actors, NEW s \in Handing, NEW ups, Goes(a, s), Emits(a, ups)
      PROVE  Hands
  <2>1. held' = [held EXCEPT ![a] = ups]
    BY <1>2 DEF Emits
  <2> QED BY <1>2, <2>1
<1> HIDE DEF Still, Hands
<1>3. ASSUME UNCHANGED <<step, held>> PROVE Still
  BY <1>3 DEF Still
<1>4. Loop \in Actors /\ Boot \in Actors
  BY ActorsApart
<1>5. ASSUME World PROVE Still \/ Hands
  <2>1. ASSUME NEW h \in Hooks, NEW c \in Configs, SaveConfig(h, c) PROVE Still
    BY <1>1, <2>1, ActorsApart DEF SaveConfig, At, Handing
  <2>2. ASSUME NEW c \in Channels, Connect(c) PROVE Still
    BY <1>1, <2>2, ActorsApart DEF Connect, At, Handing
  <2>3. ASSUME NEW c \in Channels, Disconnect(c) PROVE Still
    BY <1>1, <2>3, ActorsApart DEF Disconnect, At, Handing
  <2>4. ASSUME StopSessions PROVE Still
    BY <2>4, ActorsApart DEF StopSessions, At, Handing, Still
  <2>5. ASSUME NEW f \in Files, NEW v \in Versions \cup {Broken},
               WriteFile(f, v) \/ ReplaceFile(f, v) \/ RemoveFile(f)
        PROVE  UNCHANGED <<step, held>>
    BY <2>5 DEF WriteFile, ReplaceFile, RemoveFile
  <2>6. ASSUME NEW f \in Files, RemoveFile(f) PROVE UNCHANGED <<step, held>>
    BY <2>6 DEF RemoveFile
  <2>7. ASSUME NEW c \in Configs, EditConfig(c) PROVE UNCHANGED <<step, held>>
    BY <2>7 DEF EditConfig
  <2> QED BY <1>3, <1>5, <2>1, <2>2, <2>3, <2>4, <2>5, <2>6, <2>7 DEF World
<1>6. ASSUME HandleWrite \/ HandleRemove \/ CheckReplaced PROVE Still \/ Hands
  <2>1. \/ UNCHANGED <<step, held>>
        \/ step[Loop] \notin Handing /\ UNCHANGED held /\ \E s : Goes(Loop, s)
    BY <1>6 DEF HandleWrite, HandleRemove, CheckReplaced, At, Handing
  <2> QED BY <1>4, <1>1, <1>3, <2>1
<1>7. ASSUME UpdateClient \/ RemoveClient PROVE Still \/ Hands
  <2>1. /\ step[Loop] \notin Handing
        /\ \/ UNCHANGED held /\ \E s : Goes(Loop, s)
           \/ Goes(Loop, "dispatch") /\ \E ups : Emits(Loop, ups)
    BY <1>7 DEF UpdateClient, RemoveClient, At, Handing
  <2>2. "dispatch" \in Handing
    BY DEF Handing
  <2> QED BY <1>4, <1>1, <1>2, <2>1, <2>2
<1>8. ASSUME Rescan PROVE Still \/ Hands
  <2>1. step[Boot] \notin Handing /\ UNCHANGED held /\ Goes(Boot, "snapshot")
    BY <1>8 DEF Rescan, At, Handing
  <2> QED BY <1>4, <1>1, <2>1
<1>9. ASSUME NEW a \in Actors, Refresh(a) PROVE Still \/ Hands
  <2>1. CASE TakeSnapshot(a)
    BY <1>1, <2>1 DEF TakeSnapshot, At, Handing
  <2>2. ASSUME NEW force \in BOOLEAN, Install(a, force) PROVE Hands
    BY <1>2, <2>2 DEF Install, Handing
  <2> QED BY <1>9, <2>1, <2>2 DEF Refresh
<1>10. ASSUME NEW r \in Reloads, ConfigReload(r) PROVE Still \/ Hands
  <2>1. CASE \/ TimerFires(r) \/ ReloadConfig(r) \/ LoadConfig(r) \/ StoreConfig(r) \/ Rehash(r)
             \/ \E targets \in SUBSET Providers : ForgetAffected(r, targets)
    BY <1>1, <2>1, ActorsApart DEF TimerFires, ReloadConfig, LoadConfig, StoreConfig, Rehash,
                                   ForgetAffected, At, Handing
  <2> QED BY <1>9, <1>10, <2>1, ActorsApart DEF ConfigReload
<1>11. ASSUME NEW h \in Hooks, Hook(h)
       PROVE  Still \/ Hands \/ \E id \in Ids : ApplyHere(h, id)
  <2>1. CASE SetConfig(h)
    BY <1>1, <2>1, ActorsApart DEF SetConfig, At, Handing
  <2>2. CASE HookDone(h)
    <3>1. h \in Actors /\ held[h] = NoUpdates /\ UNCHANGED held /\ Goes(h, "idle")
      BY <2>2, ActorsApart DEF HookDone
    <3> QED BY <3>1, MovesOnly DEF Still
  <2> QED BY <1>9, <1>11, <2>1, <2>2, ActorsApart DEF Hook
<1>12. ASSUME NEW c \in Channels, Announce(c) \/ Forget(c) PROVE Still \/ Hands
  <2>1. CASE UNCHANGED held
    BY <1>1, <1>12, <2>1, ActorsApart DEF Announce, Forget, At, Handing
  <2>2. CASE Goes(Opener(c), "dispatch") /\ Emits(Opener(c), Only(c, Present))
    BY <1>2, <2>2, ActorsApart DEF Handing
  <2>3. CASE Goes(Closer(c), "dispatch") /\ Emits(Closer(c), Only(c, Absent))
    BY <1>2, <2>3, ActorsApart DEF Handing
  <2> QED BY <1>12, <2>1, <2>2, <2>3 DEF Announce, Forget
<1>13. ASSUME (\E f \in Files : WindowPasses(f)) \/ Dispatcher \/ Apply PROVE Still
  BY <1>3, <1>13 DEF WindowPasses, Dispatcher, TakeBatch, SendUpdate, Apply
<1> QED
  BY <1>5, <1>6, <1>7, <1>8, <1>9, <1>10, <1>11, <1>12, <1>13, ActorsApart
     DEF UpdatesNext, EventLoop, Still, Hands

(* Updates are in the hands of those only who hand them on next.           *)
LEMMA HandsKept ==
    ASSUME UpdatesTypeOK, Placed, HandsFull, UpdatesNext
    PROVE  HandsFull'
<1> USE DEF HandsFull
<1>1. CASE /\ UNCHANGED held
           /\ \A a \in Actors : step'[a] \notin Handing => step[a] \notin Handing \/ held[a] = NoUpdates
  BY <1>1 DEF Handing
<1>2. ASSUME NEW a \in Actors, NEW s \in Handing, Goes(a, s), NEW ups, held' = [held EXCEPT ![a] = ups]
      PROVE  HandsFull'
  BY <1>2, MovesOnly DEF Handing, UpdatesTypeOK
<1>3. ASSUME NEW a \in Actors, Dispatch(a) PROVE HandsFull'
  <2>1. Goes(a, AfterDispatch(a)) /\ held' = [held EXCEPT ![a] = NoUpdates]
    BY <1>3 DEF Dispatch
  <2> QED BY <2>1, MovesOnly DEF UpdatesTypeOK
<1>4. ASSUME NEW h \in Hooks, NEW id \in Ids, ApplyHere(h, id) PROVE HandsFull'
  <2>1. step' = step /\ step[h] = "apply" /\ held' = [held EXCEPT ![h][id] = None]
    BY <1>4 DEF ApplyHere, At
  <2> QED BY <2>1, ActorsApart DEF UpdatesTypeOK, Handing
<1> QED BY <1>1, <1>2, <1>3, <1>4, WhoHands

(* The steps that read something, or take an event.                        *)
LEMMA WhoSees ==
    ASSUME UpdatesTypeOK, UpdatesNext
    PROVE  \/ UNCHANGED <<seen, events>>
           \/ UNCHANGED <<seen, step>> /\ (events # <<>> => events' # <<>>)
           \/ HandleWrite \/ HandleRemove \/ CheckReplaced
           \/ UpdateClient \/ RemoveClient
           \/ \E h \in Hooks, c \in Configs : SaveConfig(h, c)
           \/ \E r \in Reloads : LoadConfig(r) \/ StoreConfig(r)
           \/ \E a \in Actors : TakeSnapshot(a) \/ \E force \in BOOLEAN : Install(a, force)
<1> USE DEF files, watcher, dispatcher, consumer, goroutines, history
<1>1. CASE World
  <2>1. ASSUME NEW f \in Files, NEW v \in Versions \cup {Broken}, WriteFile(f, v) \/ ReplaceFile(f, v)
        PROVE  UNCHANGED <<seen, step>> /\ (events # <<>> => events' # <<>>)
    BY <2>1 DEF WriteFile, ReplaceFile, UpdatesTypeOK
  <2>2. ASSUME NEW f \in Files, RemoveFile(f)
        PROVE  UNCHANGED <<seen, step>> /\ (events # <<>> => events' # <<>>)
    BY <2>2 DEF RemoveFile, UpdatesTypeOK
  <2>3. ASSUME \/ \E c \in Configs : EditConfig(c)
               \/ \E c \in Channels : Connect(c) \/ Disconnect(c)
               \/ StopSessions
        PROVE  UNCHANGED <<seen, events>>
    BY <2>3 DEF EditConfig, Connect, Disconnect, StopSessions
  <2> QED BY <1>1, <2>1, <2>2, <2>3 DEF World
<1>2. CASE Rescan \/ \E c \in Channels : Announce(c) \/ Forget(c)
  BY <1>2 DEF Rescan, Announce, Forget
<1>3. CASE \E r \in Reloads : ConfigReload(r)
  BY <1>3, ActorsApart DEF ConfigReload, Refresh, TimerFires, ReloadConfig, Rehash, ForgetAffected
<1>4. CASE \E h \in Hooks : Hook(h)
  BY <1>4, ActorsApart DEF Hook, Refresh, SetConfig, HookDone, ApplyHere
<1>5. CASE \/ \E f \in Files : WindowPasses(f)
           \/ \E a \in Actors : Dispatch(a)
           \/ Dispatcher \/ Apply
  BY <1>5 DEF WindowPasses, Dispatch, Dispatcher, TakeBatch, SendUpdate, Apply
<1> QED BY <1>1, <1>2, <1>3, <1>4, <1>5, ActorsApart DEF UpdatesNext, EventLoop, Refresh

(* What was read stays what files and the config can hold.                 *)
LEMMA SeenKept ==
    ASSUME UpdatesTypeOK, Placed, SeenOK, UpdatesNext
    PROVE  SeenOK'
<1> USE DEF files, watcher, dispatcher, consumer, goroutines, history
<1> DEFINE Looking == /\ step[Loop] = "check" => events # <<>>
                      /\ step[Loop] \in {"update", "remove"} =>
                            \E f \in Files, v \in Versions : seen[Loop] = [Nothing EXCEPT ![f] = v]
<1>1. (\A a \in Actors : SeenBy(a)) /\ Looking
  BY DEF SeenOK, SeenBy
<1> SUFFICES (\A a \in Actors : SeenBy(a)') /\ Looking'
  BY DEF SeenOK, SeenBy
<1> HIDE DEF Looking
<1>2. Loop \in Actors
  BY ActorsApart
<1>3. ASSUME NEW a \in Actors, NEW x, seen' = [seen EXCEPT ![a] = x],
             \A id \in Files \cup Keys : x[id] \in Sources, \A c \in Channels : x[c] = Absent
      PROVE  \A b \in Actors : SeenBy(b)'
  <2>1. \A b \in Actors : seen'[b] = IF b = a THEN x ELSE seen[b]
    BY <1>3 DEF UpdatesTypeOK
  <2> QED BY <1>1, <1>3, <2>1 DEF SeenBy
<1>4. ASSUME UNCHANGED seen PROVE \A b \in Actors : SeenBy(b)'
  BY <1>1, <1>4 DEF SeenBy
<1>5. ASSUME step'[Loop] = step[Loop], seen'[Loop] = seen[Loop], events # <<>> => events' # <<>>
      PROVE  Looking'
  BY <1>1, <1>5 DEF Looking
<1>6. /\ \A id \in Files \cup Keys : Nothing[id] \in Sources
      /\ \A c \in Channels : Nothing[c] = Absent
      /\ \A f \in Files, v \in Versions :
            /\ \A id \in Files \cup Keys : [Nothing EXCEPT ![f] = v][id] \in Sources
            /\ \A c \in Channels : [Nothing EXCEPT ![f] = v][c] = Absent
  BY IdsApart DEF Nothing
<1>7. CASE HandleWrite \/ HandleRemove \/ CheckReplaced
  <2> DEFINE f == Head(events).file
  <2>1. f \in Files /\ disk[f] \in Sources \cup {Broken} /\ hashes[f] \in Sources
    <3>1. events # <<>>
      BY <1>1, <1>7 DEF HandleWrite, HandleRemove, CheckReplaced, At, Looking
    <3>2. Head(events) \in [file : Files, removes : BOOLEAN]
      BY <3>1, HeadTailOf DEF UpdatesTypeOK
    <3> QED BY <3>2 DEF UpdatesTypeOK, FileContents
  <2>2. \A v \in Sources : v # Absent => v \in Versions
    BY DEF Sources
  <2> HIDE DEF f
  <2>3. \/ seen' = seen /\ step' = step /\ step[Loop] = "idle"
        \/ seen' = seen /\ Goes(Loop, "idle")
        \/ seen' = seen /\ Goes(Loop, "check") /\ events # <<>> /\ events' = events
        \/ /\ Goes(Loop, "update") \/ Goes(Loop, "remove")
           /\ \E v \in Versions : seen' = [seen EXCEPT ![Loop] = [Nothing EXCEPT ![f] = v]]
    BY <1>7, <2>1, <2>2 DEF HandleWrite, HandleRemove, CheckReplaced, f, At
  <2>4. CASE seen' = seen /\ step' = step /\ step[Loop] = "idle"
    BY <1>4, <2>4 DEF Looking
  <2>5. CASE seen' = seen /\ Goes(Loop, "idle")
    BY <1>2, <1>4, <2>5, MovesOnly DEF Looking
  <2>6. CASE seen' = seen /\ Goes(Loop, "check") /\ events # <<>> /\ events' = events
    BY <1>2, <1>4, <2>6, MovesOnly DEF Looking
  <2>7. ASSUME Goes(Loop, "update") \/ Goes(Loop, "remove"),
               NEW v \in Versions, seen' = [seen EXCEPT ![Loop] = [Nothing EXCEPT ![f] = v]]
        PROVE  (\A a \in Actors : SeenBy(a)') /\ Looking'
    <3> DEFINE x == [Nothing EXCEPT ![f] = v]
    <3>1. /\ \A id \in Files \cup Keys : x[id] \in Sources
          /\ \A c \in Channels : x[c] = Absent
      BY <1>6, <2>1
    <3>2. seen' = [seen EXCEPT ![Loop] = x]
      BY <2>7
    <3> HIDE DEF x
    <3>3. \A a \in Actors : SeenBy(a)'
      BY <1>2, <1>3, <3>1, <3>2
    <3>4. step'[Loop] # "check"
      BY <1>2, <2>7, MovesOnly
    <3>5. seen'[Loop] = [Nothing EXCEPT ![f] = v]
      BY <1>2, <2>7 DEF UpdatesTypeOK
    <3> QED BY <2>1, <3>3, <3>4, <3>5 DEF Looking
  <2> QED BY <2>3, <2>4, <2>5, <2>6, <2>7
<1>8. CASE UpdateClient \/ RemoveClient
  <2>1. /\ seen' = [seen EXCEPT ![Loop] = Nothing]
        /\ Goes(Loop, "idle") \/ Goes(Loop, "dispatch")
    BY <1>8 DEF UpdateClient, RemoveClient
  <2>2. Looking'
    BY <1>2, <2>1, MovesOnly DEF Looking
  <2> QED BY <1>2, <1>3, <1>6, <2>1, <2>2
<1>9. ASSUME NEW h \in Hooks, NEW c \in Configs, SaveConfig(h, c)
      PROVE  (\A a \in Actors : SeenBy(a)') /\ Looking'
  <2> DEFINE asked == [id \in Ids |-> IF id \in Keys THEN c[id] ELSE Absent]
  <2>1. h \in Actors /\ h # Loop
    BY ActorsApart
  <2>2. \A id \in Files \cup Keys : asked[id] \in Sources
    BY IdsApart DEF Configs
  <2>3. \A d \in Channels : asked[d] = Absent
    BY IdsApart
  <2> HIDE DEF asked
  <2>4. seen' = [seen EXCEPT ![h] = asked] /\ events' = events /\ Goes(h, "hook")
    BY <1>9 DEF SaveConfig, asked
  <2>5. step'[Loop] = step[Loop] /\ seen'[Loop] = seen[Loop]
    BY <1>2, <2>1, <2>4, MovesOnly DEF UpdatesTypeOK
  <2> QED BY <1>3, <1>5, <2>1, <2>2, <2>3, <2>4, <2>5
<1>10. ASSUME NEW a \in Actors, TakeSnapshot(a) PROVE (\A b \in Actors : SeenBy(b)') /\ Looking'
  <2> DEFINE snapshot == [id \in Ids |-> CASE id \in Files    -> Content(id)
                                           [] id \in Keys     -> IF a \in Hooks THEN seen[a][id]
                                                                                ELSE config[id]
                                           [] id \in Channels -> Absent]
  <2>1. a # Loop
    BY <1>10 DEF TakeSnapshot, At, Placed
  <2>2. \A id \in Files \cup Keys : snapshot[id] \in Sources
    <3>1. \A f \in Files : f \in Ids /\ f \notin Keys \cup Channels /\ Content(f) \in Sources
      BY IdsApart, ContentTypes
    <3>2. \A k \in Keys : /\ k \in Ids /\ k \notin Files \cup Channels
                         /\ seen[a][k] \in Sources /\ config[k] \in Sources
      BY <1>1, IdsApart DEF UpdatesTypeOK, Configs, SeenBy
    <3> QED BY <3>1, <3>2
  <2>3. \A c \in Channels : snapshot[c] = Absent
    BY IdsApart
  <2> HIDE DEF snapshot
  <2>4. seen' = [seen EXCEPT ![a] = snapshot] /\ events' = events /\ Goes(a, "install")
    BY <1>10 DEF TakeSnapshot, snapshot
  <2>5. step'[Loop] = step[Loop] /\ seen'[Loop] = seen[Loop]
    BY <1>2, <2>1, <2>4, MovesOnly DEF UpdatesTypeOK
  <2> QED BY <1>3, <1>5, <2>2, <2>3, <2>4, <2>5
<1>11. ASSUME NEW a \in Actors, NEW force \in BOOLEAN, Install(a, force)
       PROVE (\A b \in Actors : SeenBy(b)') /\ Looking'
  <2>1. a # Loop
    BY <1>11 DEF Install, At, Placed
  <2>2. seen' = [seen EXCEPT ![a] = Nothing] /\ events' = events /\ \E s : Goes(a, s)
    BY <1>11 DEF Install
  <2>3. step'[Loop] = step[Loop] /\ seen'[Loop] = seen[Loop]
    BY <1>2, <2>1, <2>2, MovesOnly DEF UpdatesTypeOK
  <2> QED BY <1>3, <1>5, <1>6, <2>2, <2>3
<1>15. ASSUME NEW r \in Reloads, LoadConfig(r) \/ StoreConfig(r)
       PROVE (\A b \in Actors : SeenBy(b)') /\ Looking'
  <2> DEFINE read == [id \in Ids |-> IF id \in Keys THEN configFile[id] ELSE Absent]
  <2>1. r \in Actors /\ r # Loop
    BY ActorsApart
  <2>2. /\ \A id \in Files \cup Keys : read[id] \in Sources
        /\ \A c \in Channels : read[c] = Absent
    BY IdsApart DEF Configs, UpdatesTypeOK
  <2> HIDE DEF read
  <2>3. /\ seen' = [seen EXCEPT ![r] = read] \/ seen' = [seen EXCEPT ![r] = Nothing]
        /\ events' = events /\ \E s : Goes(r, s)
    BY <1>15 DEF LoadConfig, StoreConfig, read
  <2>4. step'[Loop] = step[Loop] /\ seen'[Loop] = seen[Loop]
    BY <1>2, <2>1, <2>3, MovesOnly DEF UpdatesTypeOK
  <2> QED BY <1>3, <1>5, <1>6, <2>1, <2>2, <2>3, <2>4
<1>12. CASE UNCHANGED <<seen, step>> /\ (events # <<>> => events' # <<>>)
  BY <1>4, <1>5, <1>12
<1>13. CASE UNCHANGED <<seen, events>> /\ step'[Loop] = step[Loop]
  BY <1>4, <1>5, <1>13
<1>14. CASE UNCHANGED <<seen, events>> /\ step'[Loop] # step[Loop]
  <2>1. EventLoop \/ Dispatch(Loop)
    BY <1>14, OwnMoves
  <2>2. CASE Dispatch(Loop)
    <3>1. Goes(Loop, "idle")
      BY <2>2, ActorsApart DEF Dispatch, AfterDispatch
    <3>2. Looking'
      BY <1>2, <3>1, MovesOnly DEF Looking
    <3> QED BY <1>4, <1>14, <3>2
  <2> QED BY <1>7, <1>8, <2>1, <2>2 DEF EventLoop
<1> QED BY <1>7, <1>8, <1>9, <1>10, <1>11, <1>12, <1>13, <1>14, <1>15, WhoSees

(* The steps that change entries, or updates on their way.                 *)
LEMMA WhatTravels ==
    ASSUME UpdatesNext
    PROVE  \/ UNCHANGED <<pending, batch, queue, manager, held, current, ordered, forgotten,
                         runtime, stale>>
           \/ UpdateClient \/ RemoveClient
           \/ \E a \in Actors, force \in BOOLEAN : Install(a, force)
           \/ \E r \in Reloads, targets \in SUBSET Providers : ForgetAffected(r, targets)
           \/ \E h \in Hooks, id \in Ids : ApplyHere(h, id)
           \/ \E c \in Channels : Announce(c) \/ Forget(c)
           \/ \E a \in Actors : Dispatch(a)
           \/ TakeBatch \/ (\E id \in Ids : SendUpdate(id)) \/ Apply
<1> USE DEF files, watcher, dispatcher, consumer, goroutines, history
<1>1. CASE World
  BY <1>1 DEF World, WriteFile, ReplaceFile, RemoveFile, EditConfig,
              SaveConfig, Connect, Disconnect, StopSessions
<1>2. CASE (\E f \in Files : WindowPasses(f)) \/ EventLoop \/ Rescan
  BY <1>2 DEF WindowPasses, EventLoop, HandleWrite, HandleRemove, CheckReplaced, Rescan
<1>3. ASSUME NEW a \in Actors, Refresh(a)
      PROVE  \/ \E force \in BOOLEAN : Install(a, force)
             \/ UNCHANGED <<pending, batch, queue, manager, held, current, ordered, forgotten,
                         runtime, stale>>
  BY <1>3 DEF Refresh, TakeSnapshot
<1>4. CASE \E r \in Reloads : ConfigReload(r)
  BY <1>4, <1>3, ActorsApart DEF ConfigReload, TimerFires, ReloadConfig, LoadConfig, StoreConfig, Rehash
<1>5. CASE \E h \in Hooks : Hook(h)
  BY <1>5, <1>3, ActorsApart DEF Hook, SetConfig, HookDone
<1>6. CASE \/ \E c \in Channels : Announce(c) \/ Forget(c)
           \/ \E a \in Actors : Dispatch(a)
           \/ Dispatcher \/ Apply
  BY <1>6 DEF Dispatcher
<1> QED BY <1>1, <1>2, <1>3, <1>4, <1>5, <1>6, ActorsApart DEF UpdatesNext

(* A credential that no part of the step is about stays in order.          *)
LEMMA OrderUntouched ==
    ASSUME NEW id, OrderAt(id), \A a \in Actors : held'[a][id] = held[a][id],
           current'[id] = current[id], pending'[id] = pending[id], batch'[id] = batch[id],
           UNCHANGED queue, manager'[id] = manager[id]
    PROVE  OrderAt(id)'
BY DEF OrderAt, Holds, InFlight, Delivers, LatestQueued, QueuedAt

(* A goroutine that has nothing in its hands takes up an update: if it is  *)
(* counted as in order, nobody else has one and it is the entry.           *)
LEMMA EmitsInOrder ==
    ASSUME UpdatesTypeOK, InOrder, NEW a \in Actors, NEW ups \in Updates, held[a] = NoUpdates,
           Emits(a, ups), UNCHANGED <<pending, batch, queue, manager>>,
           \A id \in Ids : current'[id] = IF ups[id] # None THEN ups[id] ELSE current[id]
    PROVE  InOrder'
<1>1. /\ \A b \in Actors : held'[b] = IF b = a THEN ups ELSE held[b]
      /\ \A id \in Ids : held[a][id] = None
  BY DEF Emits, UpdatesTypeOK, NoUpdates
<1> SUFFICES ASSUME NEW id \in ordered' \ forgotten' PROVE OrderAt(id)'
  BY DEF InOrder
<1>2. id \in Ids
  BY DEF Emits, Emitted, UpdatesTypeOK
<1>3. CASE ups[id] = None
  <2>1. id \in ordered \ forgotten
    BY <1>3 DEF Emits, Emitted
  <2> QED BY <1>1, <1>2, <1>3, <2>1, OrderUntouched DEF InOrder
<1>4. CASE ups[id] # None
  <2>1. ~HeldByOthers(a, id) /\ (a \in Hooks => ~InFlight(id))
    BY <1>2, <1>4 DEF Emits, Emitted
  <2>2. \A b \in Actors : Holds(b, id)' <=> b = a
    BY <1>1, <1>4, <2>1 DEF HeldByOthers, Holds
  <2>3. InFlight(id)' <=> InFlight(id)
    BY DEF InFlight
  <2>4. held'[a][id] = current'[id]
    BY <1>1, <1>2, <1>4
  <2> QED BY <2>1, <2>2, <2>3, <2>4 DEF OrderAt
<1> QED BY <1>3, <1>4

(* A goroutine that hands its updates to the dispatcher hands over the     *)
(* entries themselves, and the last updates.                               *)
LEMMA DispatchInOrder ==
    ASSUME UpdatesTypeOK, InOrder, NEW a \in Actors, Dispatch(a)
    PROVE  InOrder'
<1> USE DEF watcher, consumer, history
<1>1. /\ \A b \in Actors : held'[b] = IF b = a THEN NoUpdates ELSE held[b]
      /\ pending' = Coalesced(held[a])
      /\ UNCHANGED <<batch, queue, manager, current, ordered, forgotten>>
  BY DEF Dispatch, UpdatesTypeOK
<1> SUFFICES ASSUME NEW id \in ordered' \ forgotten' PROVE OrderAt(id)'
  BY DEF InOrder
<1>2. id \in Ids /\ OrderAt(id)
  BY <1>1 DEF InOrder, UpdatesTypeOK
<1>3. CASE held[a][id] = None
  BY <1>1, <1>2, <1>3, OrderUntouched DEF Coalesced, NoUpdates
<1>4. CASE held[a][id] # None
  <2>1. \A b \in Actors : ~Holds(b, id)'
    BY <1>1, <1>2, <1>4 DEF OrderAt, Holds, NoUpdates
  <2>2. pending'[id] = current[id] /\ pending'[id] # None
    BY <1>1, <1>2, <1>4 DEF OrderAt, Holds, Coalesced
  <2>3. Delivers(id, current[id])'
    BY <1>1, <2>2 DEF Delivers
  <2> QED BY <1>1, <2>1, <2>3 DEF OrderAt
<1> QED BY <1>3, <1>4

(* What travels arrives as it was sent: the batch, the channel and the     *)
(* consumer keep the last update of a credential the last.                 *)
LEMMA TravelDelivers ==
    ASSUME UpdatesTypeOK, NEW id \in Ids, NEW v, Delivers(id, v),
           TakeBatch \/ (\E x \in Ids : SendUpdate(x)) \/ Apply
    PROVE  Delivers(id, v)'
<1>1. CASE TakeBatch
  BY <1>1 DEF TakeBatch, Delivers, NoUpdates, consumer, LatestQueued, QueuedAt
<1>2. ASSUME NEW x \in Ids, SendUpdate(x) PROVE Delivers(id, v)'
  <2> DEFINE n == Len(queue) + 1
  <2>1. /\ queue' = Append(queue, [id |-> x, content |-> batch[x]])
        /\ batch' = [batch EXCEPT ![x] = None] /\ batch[x] # None
        /\ UNCHANGED <<pending, manager>>
    BY <1>2 DEF SendUpdate
  <2>2. queue \in Seq(Messages) /\ batch \in [Ids -> Contents \cup {None}]
    BY DEF UpdatesTypeOK, Updates
  <2>3. /\ Len(queue') = n /\ Len(queue) \in Nat
        /\ \A i \in 1 .. Len(queue) : queue'[i] = queue[i]
        /\ queue'[n].id = x /\ queue'[n].content = batch[x]
    BY <2>1, <2>2
  <2>4. CASE id = x
    <3>1. n \in QueuedAt(id)' /\ \A j \in QueuedAt(id)' : j <= n
      BY <2>3, <2>4 DEF QueuedAt
    <3>2. pending[id] # None \/ batch[x] = v
      BY <2>1, <2>4 DEF Delivers
    <3> QED BY <2>1, <2>2, <2>3, <2>4, <3>1, <3>2 DEF Delivers, LatestQueued
  <2>5. CASE id # x
    <3>1. QueuedAt(id)' = QueuedAt(id)
      BY <2>3, <2>5 DEF QueuedAt
    <3>2. LatestQueued(id, v) => LatestQueued(id, v)'
      BY <2>3, <3>1 DEF LatestQueued, QueuedAt
    <3> QED BY <2>1, <2>2, <2>5, <3>1, <3>2 DEF Delivers
  <2> QED BY <2>4, <2>5
<1>3. CASE Apply
  <2>1. /\ queue # <<>> /\ queue' = Tail(queue)
        /\ manager' = [manager EXCEPT ![Head(queue).id] = Head(queue).content]
        /\ UNCHANGED <<pending, batch>>
    BY <1>3 DEF Apply, dispatcher
  <2>2. queue \in Seq(Messages) /\ manager \in [Ids -> Contents]
    BY DEF UpdatesTypeOK
  <2>3. /\ Len(queue) \in Nat \ {0} /\ Len(queue') = Len(queue) - 1 /\ Head(queue) = queue[1]
        /\ \A i \in 1 .. Len(queue') : queue'[i] = queue[i + 1]
    BY <2>1, <2>2
  <2>4. \A i \in QueuedAt(id)' : i + 1 \in QueuedAt(id) /\ queue[i + 1].content = queue'[i].content
    BY <2>3 DEF QueuedAt
  <2>5. \A i \in QueuedAt(id) : i # 1 => i - 1 \in QueuedAt(id)' /\ queue'[i - 1].content = queue[i].content
    BY <2>3 DEF QueuedAt
  <2>6. CASE pending[id] # None \/ batch[id] # None
    BY <2>1, <2>6 DEF Delivers
  <2>7. CASE pending[id] = None /\ batch[id] = None /\ QueuedAt(id) = {}
    <3>1. queue[1].id # id /\ QueuedAt(id)' = {}
      BY <2>3, <2>4, <2>7 DEF QueuedAt
    <3> QED BY <2>1, <2>2, <2>3, <2>7, <3>1 DEF Delivers
  <2>8. CASE pending[id] = None /\ batch[id] = None /\ QueuedAt(id) # {}
    <3>1. PICK i \in QueuedAt(id) : (\A j \in QueuedAt(id) : j <= i) /\ queue[i].content = v
      BY <2>8 DEF Delivers, LatestQueued
    <3>2. i \in Nat /\ i >= 1 /\ queue[i].id = id
      BY DEF QueuedAt
    <3>3. CASE i = 1
      <4>1. QueuedAt(id)' = {}
        BY <2>4, <3>1, <3>3 DEF QueuedAt
      <4>2. manager'[id] = v
        BY <2>1, <2>2, <2>3, <3>1, <3>2, <3>3
      <4> QED BY <2>1, <2>8, <4>1, <4>2 DEF Delivers
    <3>4. CASE i # 1
      <4>1. i - 1 \in QueuedAt(id)' /\ queue'[i - 1].content = v
        BY <2>5, <3>1, <3>4
      <4>2. \A j \in QueuedAt(id)' : j <= i - 1
        <5> SUFFICES ASSUME NEW j \in QueuedAt(id)' PROVE j <= i - 1
          OBVIOUS
        <5>1. j + 1 <= i /\ j \in Nat
          BY <2>4, <3>1 DEF QueuedAt
        <5> QED BY <3>2, <5>1
      <4> QED BY <2>1, <2>8, <4>1, <4>2 DEF Delivers, LatestQueued
    <3> QED BY <3>3, <3>4
  <2> QED BY <2>6, <2>7, <2>8
<1> QED BY <1>1, <1>2, <1>3

(* What travels keeps every credential in order.                           *)
LEMMA TravelInOrder ==
    ASSUME UpdatesTypeOK, InOrder, TakeBatch \/ (\E x \in Ids : SendUpdate(x)) \/ Apply
    PROVE  InOrder'
<1>1. UNCHANGED <<held, current, ordered, forgotten>>
  BY DEF TakeBatch, SendUpdate, Apply, watcher, goroutines, history
<1> SUFFICES ASSUME NEW id \in ordered \ forgotten PROVE OrderAt(id)'
  BY <1>1 DEF InOrder
<1>2. id \in Ids /\ OrderAt(id)
  BY DEF InOrder, UpdatesTypeOK
<1>3. \A a \in Actors : Holds(a, id)' <=> Holds(a, id)
  BY <1>1 DEF Holds
<1>4. InFlight(id)' => InFlight(id)
  <2>1. CASE TakeBatch
    BY <2>1 DEF TakeBatch, InFlight, NoUpdates, consumer
  <2>2. ASSUME NEW x \in Ids, SendUpdate(x) PROVE InFlight(id)' => InFlight(id)
    <3>1. /\ queue' = Append(queue, [id |-> x, content |-> batch[x]]) /\ batch[x] # None
          /\ batch' = [batch EXCEPT ![x] = None] /\ UNCHANGED pending
      BY <2>2 DEF SendUpdate
    <3>2. queue \in Seq(Messages) /\ batch \in [Ids -> Contents \cup {None}]
      BY DEF UpdatesTypeOK, Updates
    <3>3. \A i \in 1 .. Len(queue') : \/ i \in 1 .. Len(queue) /\ queue'[i] = queue[i]
                                      \/ queue'[i].id = x
      BY <3>1, <3>2
    <3> QED BY <1>2, <3>1, <3>2, <3>3 DEF InFlight
  <2>3. CASE Apply
    <3>1. queue # <<>> /\ queue' = Tail(queue) /\ UNCHANGED <<pending, batch>> /\ queue \in Seq(Messages)
      BY <2>3 DEF Apply, dispatcher, UpdatesTypeOK
    <3>2. \A i \in 1 .. Len(queue') : i + 1 \in 1 .. Len(queue) /\ queue'[i] = queue[i + 1]
      BY <3>1
    <3> QED BY <3>1, <3>2 DEF InFlight
  <2> QED BY <2>1, <2>2, <2>3
<1>5. Delivers(id, current[id]) => Delivers(id, current[id])'
  BY <1>1, <1>2, TravelDelivers
<1> QED BY <1>1, <1>2, <1>3, <1>4, <1>5 DEF OrderAt

(* Every step keeps what is in order in order.                             *)
LEMMA InOrderKept ==
    ASSUME UpdatesTypeOK, Placed, HandsFull, SeenOK, InOrder, UpdatesNext
    PROVE  InOrder'
<1> USE DEF files, watcher, dispatcher, consumer, goroutines, history
<1>1. /\ NoUpdates \in Updates /\ \A id \in Ids : NoUpdates[id] = None
      /\ \A id \in Ids, v \in Contents : /\ Only(id, v) \in Updates
                                         /\ \A x \in Ids : Only(id, v)[x] = IF x = id THEN v ELSE None
  BY DEF NoUpdates, Updates, Only
<1>2. None \notin Contents /\ \A a \in Actors : step[a] \notin {"dispatch", "apply"} => held[a] = NoUpdates
  BY IdsApart DEF HandsFull, Handing
<1>3. CASE UNCHANGED <<pending, batch, queue, manager, held, current, ordered, forgotten>>
  BY <1>3, OrderUntouched DEF InOrder
<1>4. CASE UpdateClient \/ RemoveClient
  <2> DEFINE f == LoopFile
             v == seen[Loop][f]
  <2>1. f \in Ids /\ v \in Contents /\ Absent \in Contents /\ Loop \in Actors
    BY <1>4, FileLookedAt, IdsApart, ActorsApart DEF UpdateClient, RemoveClient, At
  <2> HIDE DEF f, v
  <2>2. held[Loop] = NoUpdates /\ UNCHANGED <<pending, batch, queue, manager>>
    BY <1>2, <1>4, <2>1 DEF UpdateClient, RemoveClient, At
  <2>3. ASSUME NEW w \in Contents, current' = [current EXCEPT ![f] = w],
               Emits(Loop, Only(f, w)) \/ (current[f] = w /\ Emits(Loop, NoUpdates))
        PROVE  InOrder'
    <3>1. \A id \in Ids : current'[id] = IF id = f THEN w ELSE current[id]
      BY <2>1, <2>3 DEF UpdatesTypeOK
    <3>2. CASE Emits(Loop, Only(f, w))
      <4>1. \A id \in Ids : current'[id] = IF Only(f, w)[id] # None THEN Only(f, w)[id] ELSE current[id]
        BY <1>1, <1>2, <2>1, <2>3, <3>1
      <4> QED BY <1>1, <2>1, <2>2, <2>3, <3>2, <4>1, EmitsInOrder
    <3>3. CASE current[f] = w /\ Emits(Loop, NoUpdates)
      <4>1. \A id \in Ids : current'[id] = IF NoUpdates[id] # None THEN NoUpdates[id] ELSE current[id]
        BY <1>1, <3>1, <3>3
      <4> QED BY <1>1, <2>1, <2>2, <3>3, <4>1, EmitsInOrder
    <3> QED BY <2>3, <3>2, <3>3
  <2>4. \/ UNCHANGED <<held, current, ordered, forgotten>>
        \/ \E w \in Contents : /\ current' = [current EXCEPT ![f] = w]
                               /\ Emits(Loop, Only(f, w)) \/ (current[f] = w /\ Emits(Loop, NoUpdates))
    BY <1>4, <2>1 DEF UpdateClient, RemoveClient, f, v
  <2> QED BY <1>3, <2>2, <2>3, <2>4
<1>5. ASSUME NEW a \in Actors, NEW force \in BOOLEAN, Install(a, force) PROVE InOrder'
  <2> DEFINE new == WithRuntime(seen[a])
             ups == Differences(new, force)
  <2>1. new \in [Ids -> Contents]
    BY IdsApart DEF WithRuntime, UpdatesTypeOK
  <2>2. /\ Emits(a, ups) /\ current' = new /\ step[a] = "install"
        /\ UNCHANGED <<pending, batch, queue, manager>>
    BY <1>5 DEF Install, At
  <2> HIDE DEF new
  <2>3. /\ ups \in Updates
        /\ \A id \in Ids : new[id] = IF ups[id] # None THEN ups[id] ELSE current[id]
    BY <1>2, <2>1 DEF Differences, Updates
  <2> HIDE DEF ups
  <2> QED BY <1>2, <2>2, <2>3, EmitsInOrder
<1>6. ASSUME NEW r \in Reloads, NEW targets \in SUBSET Providers, ForgetAffected(r, targets) PROVE InOrder'
  <2> DEFINE affected == {id \in Ids : Provider[id] \in targets}
  <2>1. /\ UNCHANGED <<pending, batch, queue, manager, held, ordered>>
        /\ current' = [id \in Ids |-> IF id \in affected THEN Absent ELSE current[id]]
        /\ forgotten' = forgotten \cup {id \in affected : current[id] # Absent}
    BY <1>6 DEF ForgetAffected
  <2> HIDE DEF affected
  <2>2. \A id \in ordered' \ forgotten' : id \in ordered \ forgotten /\ current'[id] = current[id]
    BY <2>1 DEF UpdatesTypeOK
  <2> QED BY <2>1, <2>2, OrderUntouched DEF InOrder
<1>7. ASSUME NEW h \in Hooks, NEW x \in Ids, ApplyHere(h, x) PROVE InOrder'
  <2>1. /\ manager' = [manager EXCEPT ![x] = held[h][x]] /\ held[h][x] # None /\ h \in Actors
        /\ held' = [held EXCEPT ![h] = [held[h] EXCEPT ![x] = None]]
        /\ UNCHANGED <<pending, batch, queue, current, ordered, forgotten>>
    BY <1>7, ActorsApart DEF ApplyHere, UpdatesTypeOK
  <2>2. \A a \in Actors, id \in Ids :
           held'[a][id] = IF a = h /\ id = x THEN None ELSE held[a][id]
    BY <2>1 DEF UpdatesTypeOK, Updates
  <2> SUFFICES ASSUME NEW id \in ordered \ forgotten PROVE OrderAt(id)'
    BY <2>1 DEF InOrder
  <2>3. id \in Ids /\ OrderAt(id)
    BY DEF InOrder, UpdatesTypeOK
  <2>4. CASE id # x
    <3>1. manager'[id] = manager[id]
      BY <2>1, <2>3, <2>4 DEF UpdatesTypeOK
    <3> QED BY <2>1, <2>2, <2>3, <2>4, <3>1, OrderUntouched
  <2>5. CASE id = x
    <3>1. /\ \A a \in Actors : Holds(a, id) => a = h
          /\ held[h][id] = current[id] /\ ~InFlight(id)
      BY <2>1, <2>3, <2>5 DEF OrderAt, Holds
    <3>2. \A a \in Actors : ~Holds(a, id)'
      BY <2>2, <2>3, <2>5, <3>1 DEF Holds
    <3>3. pending'[id] = None /\ batch'[id] = None /\ QueuedAt(id)' = {}
      BY <2>1, <3>1 DEF InFlight, QueuedAt
    <3>4. manager'[id] = current'[id]
      BY <2>1, <2>5, <3>1 DEF UpdatesTypeOK
    <3> QED BY <3>2, <3>3, <3>4 DEF OrderAt, Delivers
  <2> QED BY <2>4, <2>5
<1>8. ASSUME NEW c \in Channels, Announce(c) \/ Forget(c) PROVE InOrder'
  <2>1. /\ c \in Ids /\ Present \in Contents /\ Absent \in Contents
        /\ Opener(c) \in Actors /\ Closer(c) \in Actors
    BY IdsApart, ActorsApart
  <2>2. ASSUME NEW a \in Actors, NEW w \in Contents, Emits(a, Only(c, w)),
               current' = [current EXCEPT ![c] = w], step[a] \notin {"dispatch", "apply"},
               UNCHANGED <<pending, batch, queue, manager>>
        PROVE  InOrder'
    <3>1. \A id \in Ids : current'[id] = IF Only(c, w)[id] # None THEN Only(c, w)[id] ELSE current[id]
      BY <1>1, <1>2, <2>1, <2>2 DEF UpdatesTypeOK
    <3> QED BY <1>1, <1>2, <2>1, <2>2, <3>1, EmitsInOrder
  <2>3. UNCHANGED <<pending, batch, queue, manager>>
    BY <1>8 DEF Announce, Forget
  <2>4. CASE Announce(c)
    <3>1. \/ UNCHANGED <<held, current, ordered, forgotten>>
          \/ /\ Emits(Opener(c), Only(c, Present)) /\ current' = [current EXCEPT ![c] = Present]
             /\ step[Opener(c)] = "announce"
      BY <2>4 DEF Announce, At
    <3> QED BY <1>3, <2>1, <2>2, <2>3, <3>1
  <2>5. CASE Forget(c)
    <3>1. /\ Emits(Closer(c), Only(c, Absent)) /\ current' = [current EXCEPT ![c] = Absent]
          /\ step[Closer(c)] = "forget"
      BY <2>5 DEF Forget, At
    <3> QED BY <2>1, <2>2, <2>3, <3>1
  <2> QED BY <1>8, <2>4, <2>5
<1>9. ASSUME NEW a \in Actors, Dispatch(a) PROVE InOrder'
  BY <1>9, DispatchInOrder
<1>10. CASE TakeBatch \/ (\E id \in Ids : SendUpdate(id)) \/ Apply
  BY <1>10, TravelInOrder
<1> QED BY <1>3, <1>4, <1>5, <1>6, <1>7, <1>8, <1>9, <1>10, WhatTravels

(* What is in order, or forgotten, is what ManagerFollows asks for.        *)
LEMMA InOrderFollows ==
    ASSUME UpdatesTypeOK, InOrder, ForgottenOK
    PROVE  ManagerFollows
<1>0. \A id \in forgotten : Unannounced(id)
  BY DEF ForgottenOK, ReloadDue, Unannounced
<1> SUFFICES ASSUME NEW id \in ordered \ forgotten PROVE Follows(id)
  BY <1>0 DEF ManagerFollows
<1>1. id \in Ids /\ OrderAt(id)
  BY DEF InOrder, UpdatesTypeOK
<1>2. CASE \E a \in Actors : Holds(a, id)
  BY <1>1, <1>2 DEF OrderAt, Holds, Follows
<1>3. CASE \A a \in Actors : ~Holds(a, id)
  <2>1. Delivers(id, current[id])
    BY <1>1, <1>3 DEF OrderAt
  <2>2. \A i, j \in QueuedAt(id) : i \in Nat /\ (i <= j /\ j <= i => i = j)
    BY DEF QueuedAt
  <2>3. Outcome(id) = current[id]
    BY <2>1, <2>2 DEF Outcome, Delivers, LatestQueued
  <2> QED BY <1>3, <2>3 DEF Follows, Holds
<1> QED BY <1>2, <1>3

(* The session of a channel and what is on its way for it.                 *)
LEMMA SessionUntouched ==
    ASSUME NEW c \in Channels, SessionAt(c), c \in runtime' <=> c \in runtime, c \in stale' <=> c \in stale,
           Entered(c)', step'[Opener(c)] = step[Opener(c)], step'[Closer(c)] = step[Closer(c)],
           NotAnnounced(c) => NotAnnounced(c)'
    PROVE  SessionAt(c)'
BY DEF SessionAt

(* What travels stays what it is, so nothing announces a session early.    *)
LEMMA NotAnnouncedKept ==
    ASSUME UpdatesTypeOK, NEW c \in Channels, NotAnnounced(c), c \notin runtime',
           \/ /\ UNCHANGED <<pending, batch, queue, manager>>
              /\ \A a \in Actors : held'[a][c] \in {None, Absent}
           \/ \E a \in Actors : Dispatch(a)
           \/ \E h \in Hooks, id \in Ids : ApplyHere(h, id)
           \/ TakeBatch \/ (\E id \in Ids : SendUpdate(id)) \/ Apply
    PROVE  NotAnnounced(c)'
<1> USE DEF files, watcher, dispatcher, consumer, goroutines, history
<1>1. c \in Ids /\ NoUpdates[c] = None
  BY IdsApart DEF NoUpdates
<1>2. CASE /\ UNCHANGED <<pending, batch, queue, manager>>
           /\ \A a \in Actors : held'[a][c] \in {None, Absent}
  BY <1>2 DEF NotAnnounced, QueuedAt
<1>3. ASSUME NEW a \in Actors, Dispatch(a) PROVE NotAnnounced(c)'
  <2>1. /\ \A b \in Actors : held'[b] = IF b = a THEN NoUpdates ELSE held[b]
        /\ pending' = Coalesced(held[a]) /\ UNCHANGED <<batch, queue, manager>>
    BY <1>3 DEF Dispatch, UpdatesTypeOK
  <2>2. pending'[c] \in {None, Absent}
    BY <1>1, <2>1 DEF Coalesced, NotAnnounced
  <2> QED BY <1>1, <2>1, <2>2 DEF NotAnnounced, QueuedAt
<1>4. ASSUME NEW h \in Hooks, NEW id \in Ids, ApplyHere(h, id) PROVE NotAnnounced(c)'
  <2>1. /\ manager' = [manager EXCEPT ![id] = held[h][id]] /\ held[h][id] # None /\ h \in Actors
        /\ held' = [held EXCEPT ![h] = [held[h] EXCEPT ![id] = None]]
        /\ UNCHANGED <<pending, batch, queue>>
    BY <1>4, ActorsApart DEF ApplyHere, UpdatesTypeOK
  <2>2. \A a \in Actors : held'[a][c] = IF a = h /\ id = c THEN None ELSE held[a][c]
    BY <1>1, <2>1 DEF UpdatesTypeOK, Updates
  <2>3. manager'[c] = Absent
    BY <1>1, <2>1 DEF UpdatesTypeOK, NotAnnounced
  <2> QED BY <2>1, <2>2, <2>3 DEF NotAnnounced, QueuedAt
<1>5. CASE TakeBatch
  BY <1>1, <1>5 DEF TakeBatch, NotAnnounced, QueuedAt
<1>6. ASSUME NEW x \in Ids, SendUpdate(x) PROVE NotAnnounced(c)'
  <2>1. /\ queue' = Append(queue, [id |-> x, content |-> batch[x]])
        /\ batch' = [batch EXCEPT ![x] = None] /\ batch[x] # None
        /\ UNCHANGED <<pending, manager, held>>
    BY <1>6 DEF SendUpdate
  <2>2. queue \in Seq(Messages) /\ batch \in [Ids -> Contents \cup {None}]
    BY DEF UpdatesTypeOK, Updates
  <2>3. \A i \in 1 .. Len(queue') : \/ i \in 1 .. Len(queue) /\ queue'[i] = queue[i]
                                    \/ queue'[i].id = x /\ queue'[i].content = batch[x]
    BY <2>1, <2>2
  <2>4. \A i \in QueuedAt(c)' : queue'[i].content = Absent
    BY <2>1, <2>3 DEF NotAnnounced, QueuedAt
  <2>5. batch'[c] \in {None, Absent}
    BY <1>1, <2>1, <2>2 DEF NotAnnounced
  <2> QED BY <2>1, <2>4, <2>5 DEF NotAnnounced
<1>7. CASE Apply
  <2>1. /\ queue # <<>> /\ queue' = Tail(queue)
        /\ manager' = [manager EXCEPT ![Head(queue).id] = Head(queue).content]
        /\ UNCHANGED <<pending, batch, held>> /\ queue \in Seq(Messages) /\ manager \in [Ids -> Contents]
    BY <1>7 DEF Apply, UpdatesTypeOK
  <2>2. /\ 1 \in 1 .. Len(queue) /\ Head(queue) = queue[1]
        /\ \A i \in 1 .. Len(queue') : i + 1 \in 1 .. Len(queue) /\ queue'[i] = queue[i + 1]
    BY <2>1
  <2>3. manager'[c] = Absent
    BY <1>1, <2>1, <2>2 DEF NotAnnounced, QueuedAt
  <2>4. \A i \in QueuedAt(c)' : queue'[i].content = Absent
    BY <2>2 DEF NotAnnounced, QueuedAt
  <2> QED BY <2>1, <2>3, <2>4 DEF NotAnnounced
<1> QED BY <1>2, <1>3, <1>4, <1>5, <1>6, <1>7

(* The goroutines of a session, and the other actions.                     *)
LEMMA SessionMoves ==
    ASSUME UpdatesTypeOK, Placed, UpdatesNext, NEW c \in Channels, SessionAt(c),
           c \in runtime' <=> c \in runtime, c \in stale' <=> c \in stale, Entered(c)',
           NotAnnounced(c) => NotAnnounced(c)', ~Announce(c), ~Forget(c)
    PROVE  SessionAt(c)'
<1>0. Opener(c) \in Actors /\ Closer(c) \in Actors /\ Opener(c) # Closer(c)
  BY ActorsApart
<1>1. CASE Connect(c)
  <2>1. step[Opener(c)] = "idle" /\ step'[Opener(c)] = "announce" /\ step'[Closer(c)] = step[Closer(c)]
    BY <1>0, <1>1, MovesOnly DEF Connect, At
  <2> QED BY <2>1 DEF SessionAt
<1>2. CASE Disconnect(c)
  <2>1. /\ step[Opener(c)] = "done" /\ step[Closer(c)] = "idle"
        /\ step'[Closer(c)] = "forget" /\ step'[Opener(c)] = step[Opener(c)]
    BY <1>0, <1>2, MovesOnly DEF Disconnect, At
  <2> QED BY <2>1 DEF SessionAt
<1>3. CASE StopSessions
  <2>1. /\ step'[Opener(c)] = step[Opener(c)]
        /\ \/ step'[Closer(c)] = step[Closer(c)]
           \/ step[Opener(c)] # "idle" /\ step[Closer(c)] = "idle" /\ step'[Closer(c)] = "forget"
    BY <1>0, <1>3, ActorsApart DEF StopSessions, At
  <2> QED BY <2>1, SessionUntouched DEF SessionAt
<1>4. CASE Dispatch(Opener(c))
  <2>1. /\ step[Opener(c)] = "dispatch" /\ step'[Closer(c)] = step[Closer(c)]
        /\ step'[Opener(c)] = "done"
    BY <1>0, <1>4, MovesOnly, ActorsApart DEF Dispatch, AfterDispatch, At
  <2> QED BY <2>1 DEF SessionAt
<1>5. CASE Dispatch(Closer(c))
  <2>1. /\ step[Closer(c)] = "dispatch" /\ step'[Opener(c)] = step[Opener(c)]
        /\ step'[Closer(c)] = "done"
    BY <1>0, <1>5, MovesOnly, ActorsApart DEF Dispatch, AfterDispatch, At
  <2> QED BY <2>1 DEF SessionAt
<1>6. CASE step'[Opener(c)] = step[Opener(c)] /\ step'[Closer(c)] = step[Closer(c)]
  BY <1>6, SessionUntouched
<1> QED BY <1>1, <1>2, <1>3, <1>4, <1>5, <1>6, OwnMoves

(* Every step keeps what is known of the sessions.                         *)
LEMMA SessionsKept ==
    ASSUME UpdatesTypeOK, Placed, SeenOK, Sessions, UpdatesNext
    PROVE  Sessions'
<1> USE DEF files, watcher, dispatcher, consumer, goroutines, history
<1> SUFFICES ASSUME NEW c \in Channels PROVE SessionAt(c)'
  BY DEF Sessions
<1>1. /\ SessionAt(c) /\ c \in Ids /\ c \notin Files /\ c \notin Keys
      /\ Opener(c) \in Actors /\ Closer(c) \in Actors /\ Opener(c) # Closer(c)
  BY IdsApart, ActorsApart DEF Sessions
<1>2. /\ NoUpdates[c] = None
      /\ \A id \in Ids, v \in Contents : Only(id, v)[c] = IF id = c THEN v ELSE None
  BY <1>1 DEF NoUpdates, Only
<1>3. ASSUME NEW a \in Actors, NEW ups, Emits(a, ups), ups[c] \in {None, Absent}, NotAnnounced(c)
      PROVE  \A b \in Actors : held'[b][c] \in {None, Absent}
  BY <1>3 DEF Emits, UpdatesTypeOK, NotAnnounced
<1> DEFINE Aside == /\ c \in runtime' <=> c \in runtime
                    /\ c \in stale' <=> c \in stale
                    /\ Entered(c)'
                    /\ NotAnnounced(c) => NotAnnounced(c)'
<1>4. ASSUME Aside, ~Announce(c), ~Forget(c) PROVE SessionAt(c)'
  BY <1>1, <1>4, SessionMoves
<1>5. CASE Announce(c)
  <2>1. step[Opener(c)] = "announce" /\ manager[c] = Absent
    BY <1>1, <1>5 DEF Announce, At, SessionAt, NotAnnounced
  <2>2. /\ Goes(Opener(c), "dispatch") /\ runtime' = runtime \cup {c}
        /\ current' = [current EXCEPT ![c] = Present] /\ Emits(Opener(c), Only(c, Present))
        /\ stale' = IF step[Closer(c)] \in {"dispatch", "done"} THEN stale \cup {c} ELSE stale
    BY <1>5, <2>1 DEF Announce
  <2>3. /\ step'[Opener(c)] = "dispatch" /\ step'[Closer(c)] = step[Closer(c)]
        /\ current'[c] = Present /\ c \in runtime'
        /\ step'[Closer(c)] \in {"dispatch", "done"} => c \in stale'
    BY <1>1, <2>2, MovesOnly DEF UpdatesTypeOK
  <2>4. c \notin forgotten'
    <3>1. Only(c, Present)[c] # None
      BY <1>1, <1>2, IdsApart
    <3> QED BY <1>1, <2>2, <3>1 DEF Emits, Emitted
  <2> QED BY <2>3, <2>4 DEF SessionAt, Entered
<1>6. CASE Forget(c)
  <2>1. /\ step[Closer(c)] = "forget" /\ Goes(Closer(c), "dispatch") /\ runtime' = runtime \ {c}
        /\ current' = [current EXCEPT ![c] = Absent] /\ Emits(Closer(c), Only(c, Absent))
        /\ UNCHANGED <<pending, batch, queue, manager, stale>>
    BY <1>6 DEF Forget, At
  <2>2. /\ step'[Closer(c)] = "dispatch" /\ step'[Opener(c)] = step[Opener(c)]
        /\ current'[c] = Absent /\ c \notin runtime' /\ step[Opener(c)] # "idle"
    BY <1>1, <2>1, MovesOnly DEF UpdatesTypeOK, SessionAt
  <2>3. Only(c, Absent)[c] = Absent
    BY <1>1, <1>2, IdsApart
  <2>4. NotAnnounced(c) => NotAnnounced(c)'
    BY <1>1, <1>3, <2>1, <2>2, <2>3, NotAnnouncedKept
  <2> QED BY <1>1, <2>2, <2>4 DEF SessionAt, Entered
<1>7. CASE UNCHANGED <<pending, batch, queue, manager, held, current, ordered, forgotten,
                       runtime, stale>>
  <2>1. NotAnnounced(c) => NotAnnounced(c)'
    BY <1>7, NotAnnouncedKept DEF NotAnnounced
  <2>2. Aside
    BY <1>1, <1>7, <2>1 DEF SessionAt, Entered
  <2> QED BY <1>4, <1>5, <1>6, <2>2
<1>8. CASE UpdateClient \/ RemoveClient
  <2> DEFINE f == LoopFile
             v == seen[Loop][f]
  <2>1. f \in Files /\ f # c /\ f \in Ids /\ v \in Contents /\ Absent \in Contents /\ Loop \in Actors
    BY <1>1, <1>8, FileLookedAt, IdsApart, ActorsApart DEF UpdateClient, RemoveClient, At
  <2> HIDE DEF f, v
  <2>2. /\ UNCHANGED <<pending, batch, queue, manager, runtime>>
        /\ c \in stale' <=> c \in stale
        /\ current'[c] = current[c]
    BY <1>1, <1>8, <2>1 DEF UpdateClient, RemoveClient, UpdatesTypeOK, f, v
  <2>3. \/ UNCHANGED <<held, forgotten>>
        \/ \E ups : Emits(Loop, ups) /\ ups \in {NoUpdates, Only(f, v), Only(f, Absent)}
    BY <1>8 DEF UpdateClient, RemoveClient, f, v
  <2>4. NotAnnounced(c) => \A b \in Actors : held'[b][c] \in {None, Absent}
    BY <1>2, <1>3, <2>1, <2>3 DEF NotAnnounced
  <2>5. NotAnnounced(c) => NotAnnounced(c)'
    <3>1. NotAnnounced(c) => c \notin runtime'
      BY <2>2 DEF NotAnnounced
    <3> QED BY <2>2, <2>4, <3>1, NotAnnouncedKept
  <2>6. c \in forgotten' <=> c \in forgotten
    BY <1>1, <1>2, <2>1, <2>3 DEF Emits, Emitted
  <2>7. Aside
    BY <1>1, <2>2, <2>5, <2>6 DEF SessionAt, Entered
  <2> QED BY <1>4, <1>5, <1>6, <2>7
<1>9. ASSUME NEW a \in Actors, NEW force \in BOOLEAN, Install(a, force) PROVE SessionAt(c)'
  <2> DEFINE new == WithRuntime(seen[a])
             ups == Differences(new, force)
  <2>1. /\ UNCHANGED <<pending, batch, queue, manager, runtime>> /\ current' = new
        /\ Emits(a, ups)
        /\ stale' = (stale \ (Files \cup Keys)) \cup Overtaken(seen[a])
    BY <1>9 DEF Install
  <2>2. new[c] = IF c \in runtime THEN Present ELSE Absent
    BY <1>1 DEF WithRuntime, SeenOK, SeenBy
  <2>3. c \in stale' <=> c \in stale
    BY <1>1, <2>1 DEF Overtaken
  <2>4. NotAnnounced(c) => ups[c] = None
    BY <1>1, <2>2 DEF Differences, NotAnnounced, SessionAt, Entered
  <2>5. c \in runtime \cap forgotten => ups[c] = Present
    BY <1>1, <2>2, BoundsAssumption DEF Differences, SessionAt, Entered
  <2> HIDE DEF new, ups
  <2>6. NotAnnounced(c) => NotAnnounced(c)'
    <3>1. NotAnnounced(c) => c \notin runtime'
      BY <2>1 DEF NotAnnounced
    <3> QED BY <1>3, <2>1, <2>4, <3>1, NotAnnouncedKept
  <2>7. Entered(c)'
    <3>1. c \in runtime => c \notin forgotten'
      BY <1>1, <2>1, <2>5, IdsApart DEF Emits, Emitted
    <3> QED BY <2>1, <2>2, <3>1 DEF Entered
  <2>8. Aside
    BY <2>1, <2>3, <2>6, <2>7
  <2> QED BY <1>4, <1>5, <1>6, <2>8
<1>10. ASSUME NEW r \in Reloads, NEW targets \in SUBSET Providers, ForgetAffected(r, targets)
       PROVE  SessionAt(c)'
  <2> DEFINE affected == {id \in Ids : Provider[id] \in targets}
  <2>1. /\ UNCHANGED <<pending, batch, queue, manager, held, runtime, stale>>
        /\ current' = [id \in Ids |-> IF id \in affected THEN Absent ELSE current[id]]
        /\ forgotten' = forgotten \cup {id \in affected : current[id] # Absent}
    BY <1>10 DEF ForgetAffected
  <2>2. NotAnnounced(c) => NotAnnounced(c)'
    BY <2>1, NotAnnouncedKept DEF NotAnnounced
  <2> HIDE DEF affected
  <2>3. Entered(c)'
    BY <1>1, <2>1, BoundsAssumption DEF SessionAt, Entered
  <2>4. Aside
    BY <2>1, <2>2, <2>3
  <2> QED BY <1>4, <1>5, <1>6, <2>4
<1>11. ASSUME NEW d \in Channels, Announce(d) \/ Forget(d), d # c PROVE SessionAt(c)'
  <2>1. /\ d \in Ids /\ Present \in Contents /\ Absent \in Contents
        /\ Opener(d) \in Actors /\ Closer(d) \in Actors
    BY IdsApart, ActorsApart
  <2>2. /\ UNCHANGED <<pending, batch, queue, manager>>
        /\ c \in runtime' <=> c \in runtime
        /\ c \in stale' <=> c \in stale
        /\ current'[c] = current[c]
    BY <1>1, <1>11 DEF Announce, Forget, UpdatesTypeOK
  <2>3. \/ UNCHANGED held
        \/ Emits(Opener(d), Only(d, Present)) \/ Emits(Closer(d), Only(d, Absent))
    BY <1>11 DEF Announce, Forget
  <2>4. NotAnnounced(c) => \A b \in Actors : held'[b][c] \in {None, Absent}
    BY <1>2, <1>3, <1>11, <2>1, <2>3 DEF NotAnnounced
  <2>5. NotAnnounced(c) => NotAnnounced(c)'
    <3>1. NotAnnounced(c) => c \notin runtime'
      BY <2>2 DEF NotAnnounced
    <3> QED BY <2>2, <2>4, <3>1, NotAnnouncedKept
  <2>6. c \in forgotten' <=> c \in forgotten
    BY <1>1, <1>2, <1>11, <2>1, <2>3 DEF Announce, Forget, Emits, Emitted
  <2>7. Aside
    BY <1>1, <2>2, <2>5, <2>6 DEF SessionAt, Entered
  <2> QED BY <1>4, <1>5, <1>6, <2>7
<1>12. CASE \/ \E a \in Actors : Dispatch(a)
            \/ \E h \in Hooks, id \in Ids : ApplyHere(h, id)
            \/ TakeBatch \/ (\E id \in Ids : SendUpdate(id)) \/ Apply
  <2>1. UNCHANGED <<runtime, current, forgotten, stale>>
    BY <1>12 DEF Dispatch, ApplyHere, TakeBatch, SendUpdate, Apply
  <2>2. NotAnnounced(c) => c \notin runtime'
    BY <2>1 DEF NotAnnounced
  <2>3. NotAnnounced(c) => NotAnnounced(c)'
    BY <1>12, <2>2, NotAnnouncedKept
  <2>4. Aside
    BY <1>1, <2>1, <2>3 DEF SessionAt, Entered
  <2> QED BY <1>4, <1>5, <1>6, <2>4
<1> QED BY <1>5, <1>6, <1>7, <1>8, <1>9, <1>10, <1>11, <1>12, WhatTravels

(* A reload that has forgotten entries goes on to an installation.         *)
LEMMA ReloadEnds ==
    ASSUME UpdatesTypeOK, Placed, UpdatesNext, ReloadDue,
           ~(\E a \in Actors, force \in BOOLEAN : Install(a, force))
    PROVE  ReloadDue'
<1>1. PICK r \in Reloads : step[r] \in {"snapshot", "install"}
  BY DEF ReloadDue
<1>2. r \in Actors
  BY ActorsApart
<1>3. CASE step'[r] = step[r]
  BY <1>1, <1>3 DEF ReloadDue
<1>4. CASE step'[r] # step[r]
  <2>1. ~Dispatch(r) /\ ~TimerFires(r) /\ ~ReloadConfig(r) /\ ~LoadConfig(r) /\ ~StoreConfig(r) /\ ~Rehash(r)
    BY <1>1 DEF Dispatch, TimerFires, ReloadConfig, LoadConfig, StoreConfig, Rehash, At
  <2>2. \A targets \in SUBSET Providers : ~ForgetAffected(r, targets)
    BY <1>1 DEF ForgetAffected, At
  <2>3. Refresh(r) => TakeSnapshot(r)
    BY <1>2 DEF Refresh
  <2>4. TakeSnapshot(r)
    BY <1>2, <1>4, <2>1, <2>2, <2>3, OwnMoves DEF ConfigReload
  <2>5. step'[r] = "install"
    BY <1>2, <2>4, MovesOnly DEF TakeSnapshot
  <2> QED BY <2>5 DEF ReloadDue
<1> QED BY <1>3, <1>4

(* What a reload forgot has no entry until an update of it is sent, and    *)
(* the entry of a session comes back with the next refresh.                *)
LEMMA ForgottenKept ==
    ASSUME UpdatesTypeOK, Placed, SeenOK, Sessions, ForgottenOK, UpdatesNext
    PROVE  ForgottenOK'
<1> USE DEF files, watcher, dispatcher, consumer, goroutines, history
<1> SUFFICES ASSUME NEW id \in forgotten'
             PROVE  current'[id] = Absent /\ (id \in Channels => id \in runtime' /\ ReloadDue')
  BY DEF ForgottenOK
<1>1. id \in forgotten => current[id] = Absent /\ (id \in Channels => id \in runtime /\ ReloadDue)
  BY DEF ForgottenOK
<1>2. /\ \A x \in Ids, v \in Contents : Only(x, v) = [NoUpdates EXCEPT ![x] = v]
      /\ Absent # Present /\ None \notin Contents /\ Absent \in Contents /\ Present \in Contents
      /\ Channels \subseteq Ids
  BY IdsApart, BoundsAssumption DEF Only, Contents
<1>3. ASSUME NEW a \in Actors, NEW force \in BOOLEAN, Install(a, force)
      PROVE  current'[id] = Absent /\ (id \in Channels => id \in runtime' /\ ReloadDue')
  <2> DEFINE new == WithRuntime(seen[a])
             ups == Differences(new, force)
  <2>1. Emits(a, ups) /\ current' = new
    BY <1>3 DEF Install
  <2>2. id \in forgotten /\ id \in Ids /\ ups[id] = None
    BY <2>1 DEF Emits, Emitted, UpdatesTypeOK
  <2>3. \A x \in Ids : new[x] \in Contents
    BY <1>2 DEF WithRuntime, UpdatesTypeOK
  <2>4. new[id] = current[id]
    BY <1>2, <2>2, <2>3 DEF Differences
  <2>5. id \in runtime => new[id] = Present
    BY <2>2 DEF WithRuntime
  <2> QED BY <1>1, <1>2, <2>1, <2>2, <2>4, <2>5
<1>4. ASSUME NEW r \in Reloads, NEW targets \in SUBSET Providers, ForgetAffected(r, targets)
      PROVE  current'[id] = Absent /\ (id \in Channels => id \in runtime' /\ ReloadDue')
  <2> DEFINE affected == {x \in Ids : Provider[x] \in targets}
  <2>1. /\ current' = [x \in Ids |-> IF x \in affected THEN Absent ELSE current[x]]
        /\ forgotten' = forgotten \cup {x \in affected : current[x] # Absent}
        /\ UNCHANGED runtime /\ Goes(r, "snapshot")
    BY <1>4 DEF ForgetAffected
  <2>2. ReloadDue'
    <3>1. step'[r] = "snapshot"
      BY <2>1, MovesOnly, ActorsApart
    <3> QED BY <3>1 DEF ReloadDue
  <2>3. id \in Ids
    BY <2>1 DEF UpdatesTypeOK
  <2> HIDE DEF affected
  <2>4. current[id] # Absent /\ id \in Channels => id \in runtime
    BY DEF Sessions, SessionAt, Entered
  <2> QED BY <1>1, <2>1, <2>2, <2>3, <2>4
<1>5. CASE /\ id \in forgotten /\ id \in Ids /\ current'[id] = current[id]
           /\ id \in Channels /\ id \in runtime => id \in runtime'
           /\ ~(\E a \in Actors, force \in BOOLEAN : Install(a, force))
  BY <1>1, <1>5, ReloadEnds
<1>6. CASE UNCHANGED <<current, forgotten, runtime>>
  BY <1>1, <1>3, <1>5, <1>6 DEF UpdatesTypeOK
<1>7. ASSUME NEW a \in Actors, NEW x \in Ids, NEW v \in Contents,
             current' = [current EXCEPT ![x] = v],
             Emits(a, Only(x, v)) \/ (current[x] = v /\ Emits(a, NoUpdates)),
             runtime \ {x} \subseteq runtime', x \in Channels => Emits(a, Only(x, v)),
             ~(\E b \in Actors, force \in BOOLEAN : Install(b, force))
      PROVE  current'[id] = Absent /\ (id \in Channels => id \in runtime' /\ ReloadDue')
  <2>1. id \in forgotten /\ id \in Ids
    BY <1>7 DEF Emits, UpdatesTypeOK
  <2>2. Emits(a, Only(x, v)) => id # x
    BY <1>2, <1>7 DEF Emits, Emitted, NoUpdates
  <2>3. current'[id] = current[id] /\ (id \in Channels => id # x)
    BY <1>7, <2>1, <2>2 DEF UpdatesTypeOK
  <2> QED BY <1>5, <1>7, <2>1, <2>3
<1>8. ASSUME NEW r \in Reloads PROVE r \in Actors
  BY <1>8, ActorsApart
<1>9. CASE ~(\E a \in Actors, force \in BOOLEAN : Install(a, force)) /\ (UpdateClient \/ RemoveClient)
  <2> DEFINE f == LoopFile
             v == seen[Loop][f]
  <2>1. f \in Files /\ f \in Ids /\ f \notin Channels /\ v \in Contents /\ Loop \in Actors
    BY <1>9, FileLookedAt, IdsApart, ActorsApart DEF UpdateClient, RemoveClient, At
  <2> HIDE DEF f, v
  <2>2. /\ UNCHANGED runtime
        /\ \/ UNCHANGED <<current, forgotten>>
           \/ \E w \in Contents : /\ current' = [current EXCEPT ![f] = w]
                                  /\ Emits(Loop, Only(f, w)) \/ (current[f] = w /\ Emits(Loop, NoUpdates))
    BY <1>2, <1>9, <2>1 DEF UpdateClient, RemoveClient, f, v
  <2> QED BY <1>6, <1>7, <1>9, <2>1, <2>2
<1>10. ASSUME NEW c \in Channels, Announce(c) \/ Forget(c),
              ~(\E a \in Actors, force \in BOOLEAN : Install(a, force))
       PROVE  current'[id] = Absent /\ (id \in Channels => id \in runtime' /\ ReloadDue')
  <2>1. c \in Ids /\ Opener(c) \in Actors /\ Closer(c) \in Actors
    BY IdsApart, ActorsApart
  <2>2. \/ UNCHANGED <<current, forgotten, runtime>>
        \/ /\ runtime' = runtime \cup {c} /\ current' = [current EXCEPT ![c] = Present]
           /\ Emits(Opener(c), Only(c, Present))
        \/ /\ runtime' = runtime \ {c} /\ current' = [current EXCEPT ![c] = Absent]
           /\ Emits(Closer(c), Only(c, Absent))
    BY <1>10 DEF Announce, Forget
  <2> QED BY <1>2, <1>6, <1>7, <1>10, <2>1, <2>2
<1>11. CASE \/ \E h \in Hooks, x \in Ids : ApplyHere(h, x)
            \/ \E a \in Actors : Dispatch(a)
            \/ TakeBatch \/ (\E x \in Ids : SendUpdate(x)) \/ Apply
  <2>1. UNCHANGED <<current, forgotten, runtime>>
    BY <1>11 DEF ApplyHere, Dispatch, TakeBatch, SendUpdate, Apply
  <2> QED BY <1>6, <2>1
<1> QED BY <1>3, <1>4, <1>6, <1>9, <1>10, <1>11, WhatTravels

(* The steps that touch files, events of files, or what was read of them.  *)
LEMMA WhatIsWatched ==
    ASSUME UpdatesNext
    PROVE  \/ UNCHANGED <<events, disk, hashes, ignored>>
           \/ \E f \in Files, v \in Versions \cup {Broken} : WriteFile(f, v) \/ ReplaceFile(f, v)
           \/ \E f \in Files : RemoveFile(f)
           \/ HandleWrite \/ HandleRemove \/ CheckReplaced
           \/ UpdateClient \/ RemoveClient
           \/ Rescan
<1> USE DEF files, watcher, dispatcher, consumer, goroutines, history
<1>1. CASE World
  BY <1>1 DEF World, EditConfig, SaveConfig, Connect, Disconnect, StopSessions
<1>2. CASE (\E f \in Files : WindowPasses(f)) \/ EventLoop \/ Rescan
  BY <1>2 DEF WindowPasses, EventLoop
<1>3. ASSUME NEW a \in Actors, Refresh(a)
      PROVE  UNCHANGED <<events, disk, hashes, ignored>>
  BY <1>3 DEF Refresh, TakeSnapshot, Install
<1>4. CASE \E r \in Reloads : ConfigReload(r)
  BY <1>4, <1>3, ActorsApart DEF ConfigReload, TimerFires, ReloadConfig, LoadConfig, StoreConfig,
                                 Rehash, ForgetAffected
<1>5. CASE \E h \in Hooks : Hook(h)
  BY <1>5, <1>3, ActorsApart DEF Hook, SetConfig, HookDone, ApplyHere
<1>6. CASE \/ \E c \in Channels : Announce(c) \/ Forget(c)
           \/ \E a \in Actors : Dispatch(a)
           \/ Dispatcher \/ Apply
  BY <1>6 DEF Announce, Forget, Dispatch, Dispatcher, TakeBatch, SendUpdate, Apply
<1> QED BY <1>1, <1>2, <1>3, <1>4, <1>5, <1>6, ActorsApart DEF UpdatesNext

(* Only the event loop changes what the event loop has read.               *)
LEMMA LoopSees ==
    ASSUME UpdatesTypeOK, Placed, UpdatesNext, ~EventLoop
    PROVE  seen'[Loop] = seen[Loop]
<1> USE DEF EventLoop
<1>1. Loop \in Actors /\ Loop \notin Hooks
  BY ActorsApart
<1>2. ASSUME NEW h \in Hooks, NEW c \in Configs, SaveConfig(h, c) PROVE seen'[Loop] = seen[Loop]
  BY <1>1, <1>2 DEF SaveConfig, UpdatesTypeOK
<1>3. ASSUME NEW a \in Actors, TakeSnapshot(a) PROVE seen'[Loop] = seen[Loop]
  <2>1. a # Loop
    BY <1>3 DEF TakeSnapshot, At, Placed
  <2> QED BY <1>1, <1>3, <2>1 DEF TakeSnapshot, UpdatesTypeOK
<1>4. ASSUME NEW a \in Actors, NEW force \in BOOLEAN, Install(a, force) PROVE seen'[Loop] = seen[Loop]
  <2>1. a # Loop
    BY <1>4 DEF Install, At, Placed
  <2> QED BY <1>1, <1>4, <2>1 DEF Install, UpdatesTypeOK
<1>5. ASSUME NEW r \in Reloads, LoadConfig(r) \/ StoreConfig(r) PROVE seen'[Loop] = seen[Loop]
  BY <1>1, <1>5, ActorsApart DEF LoadConfig, StoreConfig, UpdatesTypeOK
<1> QED BY <1>2, <1>3, <1>4, <1>5, WhoSees

(* Appending an element is appending the sequence of it.                   *)
LEMMA AppendedOne ==
    ASSUME NEW S, NEW s \in Seq(S), NEW e \in S
    PROVE  Append(s, e) = s \o <<e>>
OBVIOUS

(* An event to come stays to come when others follow it,                   *)
LEMMA ComingAppended ==
    ASSUME UpdatesTypeOK, NEW f \in Files, NEW more \in Seq([file : Files, removes : BOOLEAN]),
           Coming(f), disk'[f] = disk[f], events' = events \o more
    PROVE  Coming(f)'
<1>1. events \in Seq([file : Files, removes : BOOLEAN])
  BY DEF UpdatesTypeOK
<1>2. \A i \in 1 .. Len(events) : i \in 1 .. Len(events') /\ events'[i] = events[i]
  BY <1>1
<1> QED BY <1>2 DEF Coming

(* and when one is taken that is of another file or finds nothing to read. *)
LEMMA ComingDropped ==
    ASSUME UpdatesTypeOK, NEW f \in Files, events # <<>>, Coming(f), disk' = disk, Drop,
           Head(events).file # f \/ (disk[f] = Absent /\ ~Head(events).removes)
    PROVE  Coming(f)'
<1>1. events \in Seq([file : Files, removes : BOOLEAN]) /\ events' = Tail(events)
  BY DEF UpdatesTypeOK, Drop
<1>2. PICK i \in 1 .. Len(events) : events[i].file = f /\ (disk[f] = Absent => events[i].removes)
  BY DEF Coming
<1>3. Head(events) = events[1] /\ i # 1
  BY <1>1, <1>2
<1>4. i - 1 \in 1 .. Len(events') /\ events'[i - 1] = events[i]
  BY <1>1, <1>2, <1>3
<1> QED BY <1>2, <1>4 DEF Coming

(* What the event loop looks at is one file.                               *)
LEMMA LooksAtOne ==
    ASSUME UpdatesTypeOK, SeenOK, NEW f \in Files
    PROVE  /\ LooksAt(f) <=> step[Loop] \in {"update", "remove"} /\ f = LoopFile
           /\ LooksAt(f) => seen[Loop][f] \in Versions
<1>1. CASE step[Loop] \notin {"update", "remove"}
  BY <1>1 DEF LooksAt
<1>2. CASE step[Loop] \in {"update", "remove"}
  <2>1. /\ LoopFile \in Files /\ seen[Loop][LoopFile] \in Versions
        /\ seen[Loop] = [Nothing EXCEPT ![LoopFile] = seen[Loop][LoopFile]]
    BY <1>2, FileLookedAt
  <2>2. f \in Ids /\ LoopFile \in Ids /\ Absent \notin Versions
    BY <2>1, IdsApart
  <2>3. f # LoopFile => seen[Loop][f] = Absent
    BY <2>1, <2>2 DEF Nothing
  <2> QED BY <1>2, <2>1, <2>2, <2>3 DEF LooksAt
<1> QED BY <1>1, <1>2

(* Every step keeps the files watched: whatever changes a file leaves an   *)
(* event for it, and the event loop drops an event when it has looked.     *)
LEMMA FilesWatchedKept ==
    ASSUME UpdatesTypeOK, UpdatesTypeOK', Placed, SeenOK, SeenOK', FilesWatched, UpdatesNext
    PROVE  FilesWatched'
<1> USE DEF files, watcher, dispatcher, consumer, goroutines, history
<1> DEFINE Events == [file : Files, removes : BOOLEAN]
<1> SUFFICES ASSUME NEW f \in Files PROVE WatchedAt(f)'
  BY DEF FilesWatched
<1>1. WatchedAt(f) /\ Loop \in Actors /\ Boot \in Actors /\ Boot # Loop
  BY ActorsApart DEF FilesWatched
<1>2. ASSUME NEW g \in Files, NEW more \in Seq(Events), events' = events \o more,
             disk' = [disk EXCEPT ![g] = disk'[g]], UNCHANGED <<step, seen, hashes, ignored>>,
             \E i \in 1 .. Len(more) : more[i].file = g /\ (disk'[g] = Absent => more[i].removes)
      PROVE  WatchedAt(f)'
  <2>1. CASE f = g
    <3>1. events \in Seq(Events)
      BY DEF UpdatesTypeOK
    <3>2. PICK i \in 1 .. Len(more) : more[i].file = g /\ (disk'[g] = Absent => more[i].removes)
      BY <1>2
    <3>3. Len(events) + i \in 1 .. Len(events') /\ events'[Len(events) + i] = more[i]
      BY <1>2, <3>1
    <3>4. Coming(f)'
      BY <2>1, <3>2, <3>3 DEF Coming
    <3> QED BY <3>4 DEF WatchedAt
  <2>2. CASE f # g
    <3>1. disk'[f] = disk[f]
      BY <1>2, <2>2 DEF UpdatesTypeOK
    <3>2. Coming(f) => Coming(f)'
      BY <1>2, <3>1, ComingAppended
    <3> QED BY <1>1, <1>2, <3>1, <3>2 DEF WatchedAt, LooksAt, Finds
  <2> QED BY <2>1, <2>2
<1>3. ASSUME NEW g \in Files, NEW v \in Versions \cup {Broken}, WriteFile(g, v) \/ ReplaceFile(g, v)
      PROVE  WatchedAt(f)'
  <2> DEFINE written == [file |-> g, removes |-> FALSE]
             removed == [file |-> g, removes |-> TRUE]
  <2>1. v # Absent /\ events \in Seq(Events) /\ written \in Events /\ removed \in Events
    BY IdsApart DEF UpdatesTypeOK
  <2>2. UNCHANGED <<step, seen, hashes, ignored>>
    BY <1>3 DEF WriteFile, ReplaceFile
  <2>3. CASE WriteFile(g, v)
    <3>1. disk' = [disk EXCEPT ![g] = v] /\ events' = events \o <<written>>
      BY <2>1, <2>3, AppendedOne DEF WriteFile
    <3>2. <<written>> \in Seq(Events) /\ <<written>>[1].file = g /\ disk'[g] # Absent
      BY <2>1, <3>1 DEF UpdatesTypeOK
    <3>3. disk' = [disk EXCEPT ![g] = disk'[g]]
      BY <3>1 DEF UpdatesTypeOK
    <3>4. \E i \in 1 .. Len(<<written>>) :
             <<written>>[i].file = g /\ (disk'[g] = Absent => <<written>>[i].removes)
      BY <3>2
    <3> QED BY <1>2, <2>2, <3>1, <3>2, <3>3, <3>4
  <2>4. CASE ReplaceFile(g, v)
    <3>1. disk' = [disk EXCEPT ![g] = v] /\ events' = events \o <<removed, written>>
      BY <2>4 DEF ReplaceFile
    <3>2. <<removed, written>> \in Seq(Events) /\ <<removed, written>>[2].file = g /\ disk'[g] # Absent
      BY <2>1, <3>1 DEF UpdatesTypeOK
    <3>3. disk' = [disk EXCEPT ![g] = disk'[g]]
      BY <3>1 DEF UpdatesTypeOK
    <3>4. \E i \in 1 .. Len(<<removed, written>>) :
             <<removed, written>>[i].file = g /\ (disk'[g] = Absent => <<removed, written>>[i].removes)
      BY <3>2
    <3> QED BY <1>2, <2>2, <3>1, <3>2, <3>3, <3>4
  <2> QED BY <1>3, <2>3, <2>4
<1>4. ASSUME NEW g \in Files, RemoveFile(g) PROVE WatchedAt(f)'
  <2> DEFINE removed == [file |-> g, removes |-> TRUE]
  <2>1. removed \in Events /\ events \in Seq(Events)
    BY DEF UpdatesTypeOK
  <2>2. /\ UNCHANGED <<step, seen, hashes, ignored>>
        /\ disk' = [disk EXCEPT ![g] = Absent] /\ events' = events \o <<removed>>
    BY <1>4, <2>1, AppendedOne DEF RemoveFile
  <2>3. <<removed>> \in Seq(Events) /\ <<removed>>[1].file = g /\ <<removed>>[1].removes
    BY <2>1
  <2>4. disk' = [disk EXCEPT ![g] = disk'[g]]
    BY <2>2 DEF UpdatesTypeOK
  <2>5. \E i \in 1 .. Len(<<removed>>) :
           <<removed>>[i].file = g /\ (disk'[g] = Absent => <<removed>>[i].removes)
    BY <2>3
  <2> QED BY <1>2, <2>2, <2>3, <2>4, <2>5
<1>5. ASSUME NEW s, Goes(Loop, s) PROVE step'[Boot] = step[Boot] /\ step'[Loop] = s
  BY <1>1, <1>5, MovesOnly
<1>6. CASE HandleWrite
  <2> DEFINE g == Head(events).file
  <2>1. step[Loop] = "idle" /\ events # <<>> /\ ~Head(events).removes /\ Drop
        /\ UNCHANGED <<disk, hashes, ignored>>
    BY <1>6 DEF HandleWrite, At
  <2>2. ~LooksAt(f)
    BY <2>1 DEF LooksAt
  <2>3. g \in Files /\ g \in Ids /\ f \in Ids
    <3>1. Head(events) \in Events
      BY <2>1, HeadTailOf DEF UpdatesTypeOK
    <3> QED BY <3>1, IdsApart
  <2> HIDE DEF g
  <2>4. CASE UNCHANGED goroutines /\ disk[g] \in {Absent, Broken, hashes[g]}
    <3>1. ~LooksAt(f)' /\ step'[Boot] = step[Boot]
      BY <2>1, <2>4 DEF LooksAt
    <3>2. disk[f] \notin {Broken, hashes[f]} /\ Coming(f) => Coming(f)'
      BY <2>1, <2>4, ComingDropped DEF g
    <3> QED BY <1>1, <2>1, <2>2, <3>1, <3>2 DEF WatchedAt
  <2>5. CASE /\ Goes(Loop, "update") /\ disk[g] # Absent
             /\ seen' = [seen EXCEPT ![Loop] = [Nothing EXCEPT ![g] = disk[g]]]
    <3>1. step'[Boot] = step[Boot] /\ step'[Loop] = "update"
      BY <1>5, <2>5
    <3>2. seen'[Loop] = [Nothing EXCEPT ![g] = disk[g]]
      BY <1>1, <2>5 DEF UpdatesTypeOK
    <3>3. seen'[Loop][f] = IF f = g THEN disk[f] ELSE Absent
      BY <2>3, <3>2 DEF Nothing
    <3>4. CASE f = g
      <4>1. LooksAt(f)' /\ Finds(f)' = disk'[f]
        BY <2>1, <2>5, <3>1, <3>3, <3>4 DEF LooksAt, Finds
      <4> QED BY <4>1 DEF WatchedAt
    <3>5. CASE f # g
      <4>1. ~LooksAt(f)'
        BY <3>3, <3>5 DEF LooksAt
      <4>2. Coming(f) => Coming(f)'
        BY <2>1, <3>5, ComingDropped DEF g
      <4> QED BY <1>1, <2>1, <2>2, <3>1, <4>1, <4>2 DEF WatchedAt
    <3> QED BY <3>4, <3>5
  <2> QED BY <1>6, <2>4, <2>5 DEF HandleWrite, g
<1>7. CASE HandleRemove
  <2> DEFINE g == Head(events).file
  <2>1. step[Loop] = "idle" /\ events # <<>> /\ UNCHANGED <<disk, hashes, seen>>
    BY <1>7 DEF HandleRemove, At
  <2>2. ~LooksAt(f)
    BY <2>1 DEF LooksAt
  <2> HIDE DEF g
  <2>3. CASE /\ Drop /\ UNCHANGED step
             /\ ignored' = IF disk[g] \notin {Broken, hashes[g]} THEN ignored \cup {g} ELSE ignored
    <3>1. ~LooksAt(f)'
      BY <2>1, <2>3 DEF LooksAt
    <3>2. CASE f = g
      BY <1>1, <2>1, <2>2, <2>3, <3>1, <3>2 DEF WatchedAt
    <3>3. CASE f # g
      <4>1. Coming(f) => Coming(f)'
        BY <2>1, <2>3, <3>3, ComingDropped DEF g
      <4> QED BY <1>1, <2>1, <2>2, <2>3, <3>1, <3>3, <4>1 DEF WatchedAt
    <3> QED BY <3>2, <3>3
  <2>4. CASE Goes(Loop, "check") /\ UNCHANGED <<events, ignored>>
    <3>1. step'[Boot] = step[Boot] /\ step'[Loop] = "check"
      BY <1>5, <2>4
    <3>2. ~LooksAt(f)' /\ (Coming(f)' <=> Coming(f))
      BY <2>1, <2>4, <3>1 DEF LooksAt, Coming
    <3> QED BY <1>1, <2>1, <2>2, <2>4, <3>1, <3>2 DEF WatchedAt
  <2> QED BY <1>7, <2>3, <2>4 DEF HandleRemove, g
<1>8. CASE CheckReplaced
  <2> DEFINE g == Head(events).file
  <2>1. step[Loop] = "check" /\ events # <<>> /\ Drop /\ UNCHANGED <<disk, hashes, ignored>>
    BY <1>8 DEF CheckReplaced, SeenOK, At
  <2>2. ~LooksAt(f)
    BY <2>1 DEF LooksAt
  <2>3. g \in Files /\ g \in Ids /\ f \in Ids
    <3>1. Head(events) \in Events
      BY <2>1, HeadTailOf DEF UpdatesTypeOK
    <3> QED BY <3>1, IdsApart
  <2> HIDE DEF g
  <2>4. f # g /\ Coming(f) => Coming(f)'
    BY <2>1, ComingDropped DEF g
  <2>5. ASSUME NEW v, v # Absent, Goes(Loop, "update") \/ Goes(Loop, "remove"),
               seen' = [seen EXCEPT ![Loop] = [Nothing EXCEPT ![g] = v]],
               disk[g] = IF Goes(Loop, "update") THEN v ELSE Absent
        PROVE  WatchedAt(f)'
    <3>1. step'[Boot] = step[Boot] /\ step'[Loop] \in {"update", "remove"}
      BY <1>5, <2>5
    <3>2. step'[Loop] = "update" <=> Goes(Loop, "update")
      BY <1>5, <2>5
    <3>3. seen'[Loop] = [Nothing EXCEPT ![g] = v]
      BY <1>1, <2>5 DEF UpdatesTypeOK
    <3>4. seen'[Loop][f] = IF f = g THEN v ELSE Absent
      BY <2>3, <3>3 DEF Nothing
    <3>5. CASE f = g
      <4>1. LooksAt(f)' /\ disk'[f] = Finds(f)'
        BY <2>1, <2>5, <3>1, <3>2, <3>4, <3>5 DEF LooksAt, Finds
      <4> QED BY <4>1 DEF WatchedAt
    <3>6. CASE f # g
      <4>1. ~LooksAt(f)'
        BY <3>4, <3>6 DEF LooksAt
      <4> QED BY <1>1, <2>1, <2>2, <2>4, <3>1, <3>6, <4>1 DEF WatchedAt
    <3> QED BY <3>5, <3>6
  <2>6. ASSUME Goes(Loop, "idle"), seen' = seen, disk[g] \in {Broken, hashes[g]} PROVE WatchedAt(f)'
    <3>1. step'[Boot] = step[Boot] /\ step'[Loop] = "idle"
      BY <1>5, <2>6
    <3>2. ~LooksAt(f)'
      BY <3>1 DEF LooksAt
    <3> QED BY <1>1, <2>1, <2>2, <2>4, <2>6, <3>1, <3>2 DEF WatchedAt
  <2>7. ~(Goes(Loop, "update") /\ Goes(Loop, "remove"))
    <3>1. Goes(Loop, "update") => step'[Loop] = "update"
      BY <1>5
    <3>2. Goes(Loop, "remove") => step'[Loop] = "remove"
      BY <1>5
    <3> QED BY <3>1, <3>2
  <2>8. \/ /\ disk[g] # Absent /\ Goes(Loop, "update")
           /\ seen' = [seen EXCEPT ![Loop] = [Nothing EXCEPT ![g] = disk[g]]]
        \/ /\ disk[g] = Absent /\ hashes[g] # Absent /\ Goes(Loop, "remove")
           /\ seen' = [seen EXCEPT ![Loop] = [Nothing EXCEPT ![g] = hashes[g]]]
        \/ disk[g] \in {Broken, hashes[g]} /\ Goes(Loop, "idle") /\ seen' = seen
    BY <1>8 DEF CheckReplaced, g
  <2> QED BY <2>5, <2>6, <2>7, <2>8
<1>9. CASE UpdateClient \/ RemoveClient
  <2> DEFINE g == LoopFile
             v == seen[Loop][g]
             w == IF step[Loop] = "update" THEN v ELSE Absent
  <2>1. step[Loop] \in {"update", "remove"} /\ UNCHANGED <<disk, events>>
    BY <1>9 DEF UpdateClient, RemoveClient, At
  <2>2. g \in Files /\ (LooksAt(f) <=> f = g)
    BY <2>1, FileLookedAt, LooksAtOne
  <2>3. f = g => Finds(f) = w
    BY <2>1 DEF Finds
  <2>4. /\ \E s \in {"idle", "dispatch"} : Goes(Loop, s)
        /\ \/ hashes[g] = w /\ UNCHANGED <<hashes, ignored>>
           \/ hashes' = [hashes EXCEPT ![g] = w] /\ ignored' = ignored \ {g}
    BY <1>9, <2>1 DEF UpdateClient, RemoveClient, At
  <2> HIDE DEF g, v, w
  <2>5. step'[Boot] = step[Boot] /\ step'[Loop] \in {"idle", "dispatch"}
    BY <1>5, <2>4
  <2>6. ~LooksAt(f)' /\ (Coming(f)' <=> Coming(f))
    BY <2>1, <2>5 DEF LooksAt, Coming
  <2>7. hashes'[f] = IF f = g THEN w ELSE hashes[f]
    BY <2>2, <2>4 DEF UpdatesTypeOK
  <2>8. f # g => (f \in ignored' <=> f \in ignored)
    BY <2>4
  <2> QED BY <1>1, <2>1, <2>2, <2>3, <2>5, <2>6, <2>7, <2>8 DEF WatchedAt
<1>10. CASE Rescan
  <2>1. /\ disk'[f] \in {Broken, hashes'[f]} /\ UNCHANGED <<events, disk, seen>>
        /\ Goes(Boot, "snapshot")
    BY <1>10, ContentTypes DEF Rescan
  <2>2. step'[Loop] = step[Loop]
    BY <1>1, <2>1, MovesOnly
  <2>3. /\ LooksAt(f)' <=> LooksAt(f)
        /\ Finds(f)' = Finds(f) /\ (Coming(f)' <=> Coming(f))
    BY <2>1, <2>2 DEF LooksAt, Finds, Coming
  <2> QED BY <1>1, <2>1, <2>3 DEF WatchedAt
<1>11. CASE UNCHANGED <<events, disk, hashes, ignored>> /\ ~EventLoop /\ ~Rescan
  <2>1. seen'[Loop] = seen[Loop]
    BY <1>11, LoopSees
  <2>2. \/ step'[Loop] = step[Loop]
        \/ step[Loop] = "dispatch" /\ step'[Loop] = "idle"
    <3>1. Dispatch(Loop) => step[Loop] = "dispatch" /\ Goes(Loop, "idle")
      BY ActorsApart DEF Dispatch, AfterDispatch, At
    <3> QED BY <1>5, <1>11, <3>1, OwnMoves
  <2>3. step[Boot] = "rescan" => step'[Boot] = "rescan"
    <3>1. Refresh(Boot) \/ Dispatch(Boot) => step[Boot] # "rescan"
      BY DEF Refresh, TakeSnapshot, Install, Dispatch, At
    <3> QED BY <1>11, <3>1, OwnMoves
  <2>4. /\ LooksAt(f)' <=> LooksAt(f)
        /\ (LooksAt(f) => Finds(f)' = Finds(f)) /\ (Coming(f)' <=> Coming(f))
    BY <1>11, <2>1, <2>2 DEF LooksAt, Finds, Coming
  <2> QED BY <1>1, <1>11, <2>3, <2>4 DEF WatchedAt
<1> QED BY <1>3, <1>6, <1>7, <1>8, <1>9, <1>10, <1>11, <1>4, WhatIsWatched DEF EventLoop

(* The steps that change entries, or what they are taken from.             *)
LEMMA WhatRefreshes ==
    ASSUME UpdatesNext
    PROVE  \/ UNCHANGED <<current, hashes, config, stale>>
           \/ UpdateClient \/ RemoveClient
           \/ Rescan
           \/ \E a \in Actors, force \in BOOLEAN : Install(a, force)
           \/ \E r \in Reloads : StoreConfig(r)
           \/ \E r \in Reloads, targets \in SUBSET Providers : ForgetAffected(r, targets)
           \/ \E h \in Hooks : SetConfig(h)
           \/ \E c \in Channels : Announce(c) \/ Forget(c)
<1> USE DEF files, watcher, dispatcher, consumer, goroutines, history
<1>1. CASE World
  BY <1>1 DEF World, WriteFile, ReplaceFile, RemoveFile, EditConfig,
              SaveConfig, Connect, Disconnect, StopSessions
<1>2. CASE (\E f \in Files : WindowPasses(f)) \/ EventLoop \/ Rescan
  BY <1>2 DEF WindowPasses, EventLoop, HandleWrite, HandleRemove, CheckReplaced
<1>3. ASSUME NEW a \in Actors, Refresh(a)
      PROVE  \/ \E force \in BOOLEAN : Install(a, force)
             \/ UNCHANGED <<current, hashes, config, stale>>
  BY <1>3 DEF Refresh, TakeSnapshot
<1>4. CASE \E r \in Reloads : ConfigReload(r)
  BY <1>4, <1>3, ActorsApart DEF ConfigReload, TimerFires, ReloadConfig, LoadConfig, Rehash
<1>5. CASE \E h \in Hooks : Hook(h)
  BY <1>5, <1>3, ActorsApart DEF Hook, HookDone, ApplyHere
<1>6. CASE \/ \E c \in Channels : Announce(c) \/ Forget(c)
           \/ \E a \in Actors : Dispatch(a)
           \/ Dispatcher \/ Apply
  BY <1>6 DEF Dispatch, Dispatcher, TakeBatch, SendUpdate, Apply
<1> QED BY <1>1, <1>2, <1>3, <1>4, <1>5, <1>6, ActorsApart DEF UpdatesNext

(* A refresh that is under way ends with an installation.                  *)
LEMMA RefreshingEnds ==
    ASSUME UpdatesTypeOK, Placed, UpdatesNext, Refreshing,
           ~(\E a \in Actors, force \in BOOLEAN : Install(a, force))
    PROVE  Refreshing'
<1>1. PICK a \in Actors : Due(a)
  BY DEF Refreshing, Due
<1>2. CASE step'[a] = step[a]
  BY <1>1, <1>2 DEF Refreshing, Due
<1>3. CASE step'[a] # step[a]
  <2>1. a = Boot \/ a \in Reloads \/ a \in Hooks
    <3>1. ~Due(Loop) /\ \A c \in Channels : ~Due(Opener(c)) /\ ~Due(Closer(c))
      BY DEF Placed, Due
    <3> QED BY <1>1, <3>1, ActorsApart
  <2>2. /\ ~Dispatch(a)
        /\ \A c \in Configs : ~SaveConfig(a, c)
        /\ ~TimerFires(a) /\ ~ReloadConfig(a) /\ ~LoadConfig(a) /\ ~StoreConfig(a) /\ ~Rehash(a)
        /\ ~SetConfig(a) /\ ~HookDone(a)
    BY <1>1 DEF Due, Dispatch, SaveConfig, TimerFires, ReloadConfig, LoadConfig, StoreConfig, Rehash,
                SetConfig, HookDone, At
  <2>3. \A id \in Ids : ~ApplyHere(a, id)
    BY <1>1 DEF Due, ApplyHere, At
  <2>4. Refresh(a) => TakeSnapshot(a)
    BY DEF Refresh
  <2>5. \/ Rescan /\ a = Boot
        \/ TakeSnapshot(a)
        \/ \E targets \in SUBSET Providers : ForgetAffected(a, targets)
    <3>1. CASE a = Boot
      BY <1>3, <2>2, <2>4, <3>1, OwnMoves
    <3>2. CASE a \in Reloads
      BY <1>3, <2>2, <2>4, <3>2, OwnMoves DEF ConfigReload
    <3>3. CASE a \in Hooks
      BY <1>3, <2>2, <2>3, <2>4, <3>3, OwnMoves DEF Hook
    <3> QED BY <2>1, <3>1, <3>2, <3>3
  <2>6. \E s \in {"snapshot", "install"} : Goes(a, s)
    BY <2>5 DEF Rescan, TakeSnapshot, ForgetAffected
  <2>7. step'[a] \in {"snapshot", "install"}
    BY <2>6, MovesOnly
  <2> QED BY <2>7 DEF Refreshing, Due
<1> QED BY <1>2, <1>3

(* Every step keeps the entries refreshed, or a refresh under way.         *)
LEMMA RefreshedKept ==
    ASSUME UpdatesTypeOK, Placed, SeenOK, Refreshed, UpdatesNext
    PROVE  Refreshed'
<1> USE DEF files, watcher, dispatcher, consumer, goroutines, history
<1> DEFINE Right == \A id \in (Files \cup Keys) \ stale : current[id] = Own(id)
<1>1. \A id \in Files \cup Keys : id \in Ids /\ id \notin Channels
  BY IdsApart
<1>2. ASSUME NEW a \in Actors, NEW force \in BOOLEAN, Install(a, force) PROVE Refreshed'
  <2>1. /\ current' = WithRuntime(seen[a]) /\ UNCHANGED <<hashes, config, runtime>>
        /\ Overtaken(seen[a]) \subseteq stale'
    BY <1>2 DEF Install
  <2>2. ASSUME NEW id \in (Files \cup Keys) \ stale' PROVE current'[id] = Own(id)'
    <3>1. current'[id] = seen[a][id]
      BY <1>1, <2>1 DEF WithRuntime, UpdatesTypeOK
    <3>2. seen[a][id] = Own(id)
      BY <2>1, <2>2, IdsApart DEF Overtaken, Own
    <3> QED BY <2>1, <3>1, <3>2 DEF Own
  <2> QED BY <2>2 DEF Refreshed
<1>3. ASSUME Right => Right', ~(\E a \in Actors, force \in BOOLEAN : Install(a, force)) PROVE Refreshed'
  BY <1>3, RefreshingEnds DEF Refreshed
<1>4. CASE \/ UNCHANGED <<current, hashes, config, stale>>
           \/ \E c \in Channels : Announce(c) \/ Forget(c)
  <2>1. /\ UNCHANGED <<hashes, config>> /\ stale \subseteq stale'
        /\ \A id \in Files \cup Keys : current'[id] = current[id]
    BY <1>1, <1>4, IdsApart DEF Announce, Forget, UpdatesTypeOK
  <2>2. Right => Right'
    BY <2>1 DEF Own
  <2> QED BY <1>2, <1>3, <2>2
<1>5. CASE UpdateClient \/ RemoveClient
  <2> DEFINE f == LoopFile
             v == seen[Loop][f]
             w == IF step[Loop] = "update" THEN v ELSE Absent
  <2>1. f \in Files /\ f \in Ids
    BY <1>1, <1>5, FileLookedAt DEF UpdateClient, RemoveClient, At
  <2>2. /\ UNCHANGED config
        /\ \/ UNCHANGED <<hashes, current, stale>>
           \/ /\ hashes' = [hashes EXCEPT ![f] = w] /\ current' = [current EXCEPT ![f] = w]
              /\ stale' = stale \ {f}
    BY <1>5 DEF UpdateClient, RemoveClient, At
  <2> HIDE DEF f, v, w
  <2>3. Right => Right'
    <3>1. CASE UNCHANGED <<hashes, current, stale>>
      BY <2>2, <3>1 DEF Own
    <3>2. CASE /\ hashes' = [hashes EXCEPT ![f] = w] /\ current' = [current EXCEPT ![f] = w]
               /\ stale' = stale \ {f}
      <4> SUFFICES ASSUME Right, NEW id \in (Files \cup Keys) \ stale' PROVE current'[id] = Own(id)'
        OBVIOUS
      <4>1. CASE id = f
        BY <2>1, <3>2, <4>1 DEF Own, UpdatesTypeOK
      <4>2. CASE id # f
        <5>1. id \in (Files \cup Keys) \ stale /\ id \in Ids
          BY <1>1, <3>2, <4>2
        <5> QED BY <2>1, <2>2, <3>2, <4>2, <5>1 DEF Own, UpdatesTypeOK
      <4> QED BY <4>1, <4>2
    <3> QED BY <2>2, <3>1, <3>2
  <2> QED BY <1>2, <1>3, <2>3
<1>6. CASE \/ Rescan
           \/ \E r \in Reloads, targets \in SUBSET Providers : ForgetAffected(r, targets)
           \/ \E h \in Hooks : SetConfig(h)
  <2>1. PICK a \in Actors : Goes(a, "snapshot")
    BY <1>6, ActorsApart DEF Rescan, ForgetAffected, SetConfig
  <2>2. step'[a] = "snapshot"
    BY <2>1, MovesOnly
  <2> QED BY <2>2 DEF Refreshed, Refreshing, Due
<1>7. ASSUME NEW r \in Reloads, StoreConfig(r) PROVE Refreshed'
  <2>1. r \in Actors /\ step'[r] = "filter"
    BY <1>7, MovesOnly, ActorsApart DEF StoreConfig
  <2> QED BY <2>1 DEF Refreshed, Refreshing, Due
<1> QED BY <1>2, <1>4, <1>5, <1>6, <1>7, WhatRefreshes

(* The steps that touch the config.                                        *)
LEMMA WhatConfigures ==
    ASSUME UpdatesNext
    PROVE  \/ UNCHANGED <<timer, configFile, configHash, config>>
           \/ \E c \in Configs : EditConfig(c)
           \/ \E h \in Hooks, c \in Configs : SaveConfig(h, c)
           \/ \E r \in Reloads : TimerFires(r) \/ StoreConfig(r) \/ Rehash(r)
           \/ \E h \in Hooks : SetConfig(h)
<1> USE DEF files, watcher, dispatcher, consumer, goroutines, history
<1>1. CASE World
  BY <1>1 DEF World, WriteFile, ReplaceFile, RemoveFile, Connect, Disconnect, StopSessions
<1>2. CASE (\E f \in Files : WindowPasses(f)) \/ EventLoop \/ Rescan
  BY <1>2 DEF WindowPasses, EventLoop, HandleWrite, HandleRemove, CheckReplaced,
              UpdateClient, RemoveClient, Rescan
<1>3. ASSUME NEW a \in Actors, Refresh(a)
      PROVE  UNCHANGED <<timer, configFile, configHash, config>>
  BY <1>3 DEF Refresh, TakeSnapshot, Install
<1>4. CASE \E r \in Reloads : ConfigReload(r)
  BY <1>4, <1>3, ActorsApart DEF ConfigReload, ReloadConfig, LoadConfig, ForgetAffected
<1>5. CASE \E h \in Hooks : Hook(h)
  BY <1>5, <1>3, ActorsApart DEF Hook, HookDone, ApplyHere
<1>6. CASE \/ \E c \in Channels : Announce(c) \/ Forget(c)
           \/ \E a \in Actors : Dispatch(a)
           \/ Dispatcher \/ Apply
  BY <1>6 DEF Announce, Forget, Dispatch, Dispatcher, TakeBatch, SendUpdate, Apply
<1> QED BY <1>1, <1>2, <1>3, <1>4, <1>5, <1>6, ActorsApart DEF UpdatesNext

(* Every step keeps a reload of a changed config file due.                 *)
LEMMA ConfigKeptKept ==
    ASSUME UpdatesTypeOK, Placed, ConfigKept, UpdatesNext
    PROVE  ConfigKept'
<1> USE DEF files, watcher, dispatcher, consumer, goroutines, history
<1>1. Reloads \subseteq Actors /\ Hooks \subseteq Actors
  BY ActorsApart
<1>2. CASE (\E c \in Configs : EditConfig(c)) \/ (\E h \in Hooks, c \in Configs : SaveConfig(h, c))
  BY <1>2 DEF EditConfig, SaveConfig, ConfigKept, Reloading
<1>3. ASSUME NEW r \in Reloads, TimerFires(r) PROVE ConfigKept'
  <2>1. step'[r] = "reload"
    BY <1>1, <1>3, MovesOnly DEF TimerFires
  <2> QED BY <2>1 DEF ConfigKept, Reloading
<1>4. ASSUME NEW r \in Reloads, ReloadConfig(r) PROVE ConfigKept'
  <2>1. UNCHANGED <<timer, configFile, configHash, config>>
    BY <1>4 DEF ReloadConfig
  <2>2. CASE configHash = configFile
    BY <2>1, <2>2 DEF ConfigKept
  <2>3. CASE configHash # configFile
    <3>1. step'[r] = "load"
      BY <1>1, <1>4, <2>3, MovesOnly DEF ReloadConfig
    <3> QED BY <3>1 DEF ConfigKept, Reloading
  <2> QED BY <2>2, <2>3
<1>8. ASSUME NEW r \in Reloads, StoreConfig(r) PROVE ConfigKept'
  <2>1. step'[r] = "filter"
    BY <1>1, <1>8, MovesOnly DEF StoreConfig
  <2> QED BY <2>1 DEF ConfigKept, Reloading
<1>5. ASSUME NEW r \in Reloads, Rehash(r) PROVE ConfigKept'
  BY <1>5 DEF Rehash, ConfigKept
<1>6. ASSUME NEW h \in Hooks, SetConfig(h) PROVE ConfigKept'
  <2>1. step[h] = "hook" /\ UNCHANGED <<timer, configFile, configHash>> /\ Goes(h, "snapshot")
    BY <1>6 DEF SetConfig, At
  <2>2. \A r \in Reloads : step'[r] = step[r]
    BY <1>1, <2>1, MovesOnly, ActorsApart
  <2> QED BY <2>1, <2>2 DEF ConfigKept, Reloading
<1>7. CASE /\ UNCHANGED <<timer, configFile, configHash, config>>
           /\ ~(\E r \in Reloads : ReloadConfig(r) \/ StoreConfig(r) \/ Rehash(r))
           /\ ~(\E h \in Hooks, c \in Configs : SaveConfig(h, c))
  <2>1. ASSUME NEW r \in Reloads, step[r] # "idle" PROVE step'[r] # "idle"
    <3>1. CASE step'[r] # step[r]
      <4>1. ConfigReload(r) \/ Dispatch(r)
        BY <3>1, OwnMoves
      <4>2. \E s \in {"reload", "store", "snapshot", "install", "apply", "dispatch", "rehash"} : Goes(r, s)
        BY <1>7, <4>1, ActorsApart
           DEF ConfigReload, Refresh, TimerFires, LoadConfig, ForgetAffected, TakeSnapshot, Install,
               Dispatch, AfterDispatch
      <4> QED BY <1>1, <4>2, MovesOnly
    <3> QED BY <2>1, <3>1
  <2>2. ASSUME NEW h \in Hooks, step[h] # "hook" PROVE step'[h] # "hook"
    <3>1. CASE step'[h] # step[h]
      <4>1. Hook(h)
        BY <1>7, <3>1, OwnMoves
      <4>2. UNCHANGED step \/ \E s \in {"idle", "snapshot", "install", "apply", "dispatch"} : Goes(h, s)
        BY <4>1 DEF Hook, Refresh, SetConfig, HookDone, ApplyHere, TakeSnapshot, Install
      <4> QED BY <1>1, <2>2, <4>2, MovesOnly
    <3> QED BY <2>2, <3>1
  <2> QED BY <1>7, <2>1, <2>2 DEF ConfigKept, Reloading
<1> QED BY <1>2, <1>3, <1>4, <1>5, <1>6, <1>7, <1>8, WhatConfigures

(* When nothing is left to be looked at, everything that was to be done    *)
(* has been.                                                               *)
LEMMA QuietFollows ==
    ASSUME UpdatesTypeOK, Placed, Sessions, ForgottenOK, FilesWatched, Refreshed, ConfigKept
    PROVE  SourcesFollowed
<1> SUFFICES ASSUME Quiet
             PROVE  /\ \A id \in Ids \ stale : current[id] = Source(id)
                    /\ \A f \in Files \ ignored : disk[f] \in {Broken, hashes[f]}
                    /\ configFile \in {config, configHash}
  BY DEF SourcesFollowed
<1>1. events = <<>> /\ ~timer /\ \A a \in Actors : step[a] \in {"idle", "done"}
  BY DEF Quiet, Busy, UpdatesTypeOK
<1>2. ~Refreshing /\ ~Reloading /\ ~ReloadDue
  BY <1>1, ActorsApart DEF Refreshing, Due, Reloading, ReloadDue, Placed
<1>3. ASSUME NEW id \in Ids \ stale PROVE current[id] = Source(id)
  <2>1. CASE id \in Files \cup Keys
    BY <1>2, <1>3, <2>1, IdsApart DEF Refreshed, Own, Source
  <2>2. CASE id \in Channels
    <3>1. /\ step[Opener(id)] \in {"idle", "done"} /\ step[Closer(id)] \in {"idle", "done"}
          /\ SessionAt(id) /\ id \notin forgotten
      BY <1>1, <1>2, <2>2, ActorsApart DEF Sessions, ForgottenOK
    <3>2. Source(id) = IF step[Opener(id)] = "done" /\ step[Closer(id)] = "idle" THEN Present ELSE Absent
      BY <2>2, IdsApart DEF Source, At
    <3> QED BY <1>3, <3>1, <3>2 DEF SessionAt, Entered, NotAnnounced
  <2> QED BY <1>3, <2>1, <2>2, IdsApart
<1>4. ASSUME NEW f \in Files \ ignored PROVE disk[f] \in {Broken, hashes[f]}
  <2>1. ~LooksAt(f) /\ step[Boot] # "rescan"
    BY <1>1, ActorsApart DEF LooksAt
  <2>2. ~Coming(f)
    BY <1>1 DEF Coming
  <2> QED BY <1>4, <2>1, <2>2 DEF FilesWatched, WatchedAt
<1>5. configFile \in {config, configHash}
  BY <1>2 DEF ConfigKept
<1> QED BY <1>3, <1>4, <1>5

(* The inductive invariant of AuthUpdates.                                 *)
UpdatesInv ==
    /\ UpdatesTypeOK /\ Placed /\ HandsFull /\ SeenOK
    /\ InOrder /\ Sessions /\ ForgottenOK /\ FilesWatched /\ Refreshed /\ ConfigKept

(* It holds where the service starts.                                      *)
LEMMA UpdatesInvStarts == UpdatesInit => UpdatesInv
<1> SUFFICES ASSUME UpdatesInit PROVE UpdatesInv
  OBVIOUS
<1> USE DEF UpdatesInit
<1>1. /\ Nothing \in [Ids -> Contents] /\ NoUpdates \in Updates
      /\ Files \subseteq Ids /\ Channels \subseteq Ids /\ Sources \subseteq Contents /\ Absent \in Sources
      /\ Loop \in Actors /\ Boot \in Actors /\ Loop # Boot
  BY IdsApart, ActorsApart DEF Nothing, NoUpdates, Updates
<1>2. UpdatesTypeOK
  <2>1. manager \in [Ids -> Contents]
    <3>1. \A f \in Files : disk[f] = Broken \/ disk[f] \in Sources
      BY DEF FileContents
    <3> QED BY <1>1, <3>1 DEF Content
  <2>2. step \in [Actors -> Steps] /\ queue \in Seq(Messages) /\ Len(queue) <= QueueSize
    BY BoundsAssumption DEF Steps
  <2>3. hashes \in [Files -> Sources] /\ events \in Seq([file : Files, removes : BOOLEAN])
    BY <1>1
  <2> QED BY <1>1, <2>1, <2>2, <2>3 DEF UpdatesTypeOK
<1>3. Placed /\ HandsFull
  BY ActorsApart DEF Placed, HandsFull
<1>4. SeenOK
  BY <1>1, IdsApart DEF SeenOK, SeenBy, Nothing
<1>5. InOrder
  BY DEF InOrder
<1>6. Sessions
  <2> SUFFICES ASSUME NEW c \in Channels PROVE SessionAt(c)
    BY DEF Sessions
  <2>1. c \in Ids /\ c \notin Files /\ Opener(c) \in Actors /\ Closer(c) \in Actors
        /\ Opener(c) # Boot /\ Closer(c) # Boot
    BY IdsApart, ActorsApart
  <2>2. QueuedAt(c) = {}
    BY DEF QueuedAt
  <2> QED BY <2>1, <2>2 DEF SessionAt, Entered, NotAnnounced, Nothing, NoUpdates
<1>7. FilesWatched
  BY <1>1 DEF FilesWatched, WatchedAt, LooksAt
<1>8. Refreshed
  BY <1>1 DEF Refreshed, Refreshing, Due
<1>9. ConfigKept
  BY ActorsApart DEF ConfigKept
<1>10. ForgottenOK
  BY DEF ForgottenOK
<1> QED BY <1>2, <1>3, <1>4, <1>5, <1>6, <1>7, <1>8, <1>9, <1>10 DEF UpdatesInv

(* Every step keeps it.                                                    *)
LEMMA UpdatesInvStays == UpdatesInv /\ [UpdatesNext]_updatesVars => UpdatesInv'
<1> SUFFICES ASSUME UpdatesInv, [UpdatesNext]_updatesVars PROVE UpdatesInv'
  OBVIOUS
<1>1. CASE UpdatesNext
  <2>1. UpdatesTypeOK' /\ SeenOK'
    BY <1>1, TypesKept, SeenKept DEF UpdatesInv
  <2>2. Placed' /\ HandsFull'
    BY <1>1, PlacedKept, HandsKept DEF UpdatesInv
  <2>3. InOrder' /\ Sessions' /\ ForgottenOK'
    BY <1>1, InOrderKept, SessionsKept, ForgottenKept DEF UpdatesInv
  <2>4. FilesWatched' /\ Refreshed' /\ ConfigKept'
    BY <1>1, <2>1, FilesWatchedKept, RefreshedKept, ConfigKeptKept DEF UpdatesInv
  <2> QED BY <2>1, <2>2, <2>3, <2>4 DEF UpdatesInv
<1>2. CASE UNCHANGED updatesVars
  <2> USE <1>2 DEF updatesVars, files, watcher, dispatcher, consumer, goroutines, history
  <2>1. (UpdatesTypeOK /\ Placed /\ HandsFull /\ SeenOK)'
    BY DEF UpdatesInv, UpdatesTypeOK, Placed, HandsFull, SeenOK, SeenBy
  <2>2. InOrder'
    BY OrderUntouched DEF UpdatesInv, InOrder
  <2>3. Sessions' /\ ForgottenOK'
    BY DEF UpdatesInv, Sessions, SessionAt, Entered, NotAnnounced, QueuedAt, ForgottenOK, ReloadDue
  <2>4. FilesWatched'
    BY DEF UpdatesInv, FilesWatched, WatchedAt, LooksAt, Finds, Coming
  <2>5. Refreshed' /\ ConfigKept'
    BY DEF UpdatesInv, Refreshed, Refreshing, Due, Own, ConfigKept, Reloading
  <2> QED BY <2>1, <2>2, <2>3, <2>4, <2>5 DEF UpdatesInv
<1> QED BY <1>1, <1>2

(* The type invariant of AuthUpdates: the channel to the consumer never    *)
(* holds more than its capacity (watcher.go, service.go).                  *)
THEOREM UpdatesTypeCorrect == UpdatesSpec => []UpdatesTypeOK
<1>1. UpdatesInv => UpdatesTypeOK
  BY DEF UpdatesInv
<1> QED BY <1>1, UpdatesInvStarts, UpdatesInvStays, PTL DEF UpdatesSpec

(* A credential whose updates were emitted one after the other reaches the *)
(* manager as the last of them says, through the hands of the goroutine,   *)
(* the pending map, the batch and the channel (dispatchAuthUpdates,        *)
(* flushBatch, consumeAuthUpdates), or past them where a hook applies it.  *)
(* Excepted is, until the next update of it, one whose entry a reload      *)
(* forgot, of a file, a key or a session alike, and that has not come back.*)
THEOREM ManagerAlwaysFollows == UpdatesSpec => []ManagerFollows
<1>1. UpdatesInv => ManagerFollows
  BY InOrderFollows DEF UpdatesInv
<1> QED BY <1>1, UpdatesInvStarts, UpdatesInvStays, PTL DEF UpdatesSpec

(* When nothing is under way any more, the entries are what the files, the *)
(* config and the sessions say, except where a race is recorded as having  *)
(* made them stale or ignored (events.go, dispatcher.go, config_reload.go, *)
(* service.go).                                                            *)
THEOREM SourcesAlwaysFollowed == UpdatesSpec => []SourcesFollowed
<1>1. UpdatesInv => SourcesFollowed
  BY QuietFollows DEF UpdatesInv
<1> QED BY <1>1, UpdatesInvStarts, UpdatesInvStays, PTL DEF UpdatesSpec
=============================================================================
