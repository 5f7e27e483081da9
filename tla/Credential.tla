---------------------------- MODULE Credential ----------------------------
(***************************************************************************)
(* One credential and the clock: every operation of the program that       *)
(* writes its scheduling fields, one at a time.  What two operations do to *)
(* each other when they overlap is the subject of AuthSync; here each      *)
(* action is a whole operation.                                            *)
(***************************************************************************)
EXTENDS CredentialState

CONSTANTS
    MaxNow              \* bound of the clock, for model checking

ASSUME ClockAssumption == MaxNow \in Nat \ {0}

VARIABLES
    cred,       \* the entry of m.auths
    now,        \* time.Now()
    noCooling,  \* quotaCooldownDisabled, a run-time setting
    embedder    \* may an embedder of the SDK report results that name no model?

vars == <<cred, now, noCooling, embedder>>

Init ==
    /\ cred = NewAuth
    /\ now = 1
    /\ noCooling \in BOOLEAN
    /\ embedder \in BOOLEAN

-----------------------------------------------------------------------------
Hints(kind) == IF kind = "quota" THEN RetryHints \cup {Zero} ELSE {Zero}

ReportSuccess(m) ==
    /\ cred' = MarkModelSuccess(cred, m, now)
    /\ UNCHANGED <<now, noCooling, embedder>>

ReportFailure(m, kind, hint) ==
    /\ cred' = MarkModelFailure(cred, m, kind, hint, noCooling, now)
    /\ UNCHANGED <<now, noCooling, embedder>>

ReportSuccessWithoutModel ==
    /\ embedder
    /\ cred' = MarkAuthSuccess(cred)
    /\ UNCHANGED <<now, noCooling, embedder>>

ReportFailureWithoutModel(kind, hint) ==
    /\ embedder
    /\ cred' = MarkAuthFailure(cred, kind, hint, noCooling, now)
    /\ UNCHANGED <<now, noCooling, embedder>>

(* A models refresh of the registry followed by                            *)
(* ReconcileRegistryModelStates.                                           *)
Reconcile(supported) ==
    /\ cred' = Reconciled(cred, supported, now)
    /\ UNCHANGED <<now, noCooling, embedder>>

(* refreshAuth when the executor's Refresh fails.                          *)
RefreshFails(unauthorized) ==
    /\ cred' = IF unauthorized
               THEN [cred EXCEPT !.lastError   = "unauthorized",
                                 !.unavailable = TRUE,
                                 !.status      = "error"]
               ELSE [cred EXCEPT !.lastError = "error"]
    /\ UNCHANGED <<now, noCooling, embedder>>

(* refreshAuth when Refresh succeeds: the clone taken before the call is   *)
(* stored back without its LastError.                                      *)
RefreshSucceeds ==
    /\ cred' = [cred EXCEPT !.lastError = NoError]
    /\ UNCHANGED <<now, noCooling, embedder>>

(* PatchAuthFileStatus and disableAuth.                                    *)
SetDisabled(flag) ==
    /\ cred' = [cred EXCEPT !.disabled = flag,
                            !.status   = IF flag THEN "disabled" ELSE "active"]
    /\ UNCHANGED <<now, noCooling, embedder>>

(* applyCoreAuthAddOrUpdate with a record read from a file: Update stores  *)
(* it with the old model states unless one of the two is disabled, then    *)
(* the models are registered and reconciled.                               *)
Reload(flag, supported) ==
    LET fresh   == [NewAuth EXCEPT !.disabled = flag,
                                   !.status   = IF flag THEN "disabled" ELSE "active"]
        inherit == ~cred.disabled /\ cred.status # "disabled" /\ ~flag
        stored  == IF inherit THEN [fresh EXCEPT !.tracked = cred.tracked,
                                                 !.models  = cred.models]
                              ELSE fresh
    IN /\ cred' = Reconciled(stored, supported, now)
       /\ UNCHANGED <<now, noCooling, embedder>>

SetQuotaCooldownDisabled ==
    /\ noCooling' = ~noCooling
    /\ UNCHANGED <<cred, now, embedder>>

Tick ==
    /\ now < MaxNow
    /\ now' = now + 1
    /\ UNCHANGED <<cred, noCooling, embedder>>

Next ==
    \/ \E m \in Models : ReportSuccess(m)
    \/ \E m \in Models, kind \in Failures :
          \E hint \in Hints(kind) : ReportFailure(m, kind, hint)
    \/ ReportSuccessWithoutModel
    \/ \E kind \in Failures :
          \E hint \in Hints(kind) : ReportFailureWithoutModel(kind, hint)
    \/ \E supported \in SUBSET Models : Reconcile(supported)
    \/ \E unauthorized \in BOOLEAN : RefreshFails(unauthorized)
    \/ RefreshSucceeds
    \/ \E flag \in BOOLEAN : SetDisabled(flag)
    \/ \E flag \in BOOLEAN, supported \in SUBSET Models : Reload(flag, supported)
    \/ SetQuotaCooldownDisabled
    \/ Tick

Spec == Init /\ [][Next]_vars

-----------------------------------------------------------------------------
(* Type invariant: in particular no sequence of quota failures drives the  *)
(* backoff level past TopLevel, where 1 << level would run away.           *)
TypeOK ==
    /\ cred \in Auths
    /\ now \in Nat \ {0}
    /\ noCooling \in BOOLEAN
    /\ embedder \in BOOLEAN

(* A credential is never put away for longer than the longest hold: every  *)
(* cooldown, of a model or of the whole credential, ends within one of the *)
(* holds counted from now.  (Together with BlockedForModel this says that  *)
(* a credential that gets no more results becomes selectable by itself.)   *)
WithinHolds(until, t) ==
    \/ until <= t + QuotaMax
    \/ until <= t + TransientHold
    \/ until <= t + AccountHold
    \/ until <= t + LongHold
    \/ \E h \in RetryHints : until <= t + h

CooldownsEndAt(a, t) ==
    /\ WithinHolds(a.nextRetry, t)
    /\ \A m \in Models : WithinHolds(a.models[m].nextRetry, t)

CooldownsEnd == CooldownsEndAt(cred, now)

(* The aggregate that selectors without a model read                       *)
(* (updateAggregatedAvailability) is exact at every instant, also long     *)
(* after it was computed: the credential is away as a whole exactly while  *)
(* every model it has a record of is cooling down - if results name their  *)
(* models, as those of this program do.                                    *)
AggregateExact ==
    ~embedder =>
        ((cred.unavailable /\ cred.nextRetry > now) <=> AllCooling(cred, now))

(* A model that is blocked is released before its time only by a result    *)
(* about that very model or by an operation that replaces the record: no   *)
(* result about one model releases another, although every result sweeps   *)
(* all the models of the credential.                                       *)
ReleasedEarly(m) ==
    /\ BlockedForModel(cred, m, now) /\ ~BlockedForModel(cred', m, now)
    /\ now' = now

ReplacesRecord ==
    \/ \E supported \in SUBSET Models : Reconcile(supported)
    \/ \E flag \in BOOLEAN : SetDisabled(flag)
    \/ \E flag \in BOOLEAN, supported \in SUBSET Models : Reload(flag, supported)

ReportsAbout(m) ==
    \/ ReportSuccess(m)
    \/ \E kind \in Failures : \E hint \in Hints(kind) : ReportFailure(m, kind, hint)

NoCrossRelease ==
    [][\A m \in Models : ReleasedEarly(m) => ReplacesRecord \/ ReportsAbout(m)]_vars
=============================================================================
