--------------------------- MODULE ModelRegistry ---------------------------
(***************************************************************************)
(* The global model registry: which client serves which model, how many    *)
(* registrations each model has and through which providers, which clients *)
(* are over quota or suspended for a model, and the cached list of         *)
(* available models.  Every exported method runs under the registry mutex, *)
(* so every method is one action.                                          *)
(*                                                                         *)
(* A client may list a model several times; the order of its list is left  *)
(* out and bound[c][m] is the number of times c lists m.  A registration   *)
(* that r.models does not hold is the empty one.                           *)
(***************************************************************************)
EXTENDS Integers, FiniteSets

CONSTANTS
    Clients,        \* credential identifiers
    Models,         \* model identifiers
    Providers,      \* provider identifiers
    NoProvider,     \* the empty provider string
    MarkedModels,   \* the models that results are reported about
    Repeated,       \* the models that a list may hold more than once
    QuotaWindow,    \* modelQuotaExceededWindow
    MaxCopies,      \* bound: how often a client lists a repeated model
    MaxNow          \* bound of the clock

ASSUME RegistryAssumption ==
    /\ IsFiniteSet(Clients) /\ IsFiniteSet(Models)
    /\ NoProvider \notin Providers
    /\ MarkedModels \subseteq Models
    /\ Repeated \subseteq Models
    /\ QuotaWindow \in Nat \ {0}
    /\ MaxCopies \in Nat \ {0} /\ MaxNow \in Nat

Never == 0              \* no quota mark, Go's zero expiry
NotSuspended == "no"
Reasons == {"quota", "other"}

VARIABLES
    bound,      \* clientModels: [Clients -> [Models -> Nat]]
    provider,   \* clientProviders
    models,     \* r.models: [Models -> registrations]
    cache,      \* availableModelsCache of one handler type
    picked,     \* the bindings a request may have picked so far
    now         \* time.Now()

vars == <<bound, provider, models, cache, picked, now>>

Registrations ==
    [ count     : Nat,
      providers : [Providers -> Nat],
      quotaAt   : [Clients -> Nat],
      suspended : [Clients -> Reasons \cup {NotSuspended}] ]

NoRegistration ==
    [ count     |-> 0,
      providers |-> [p \in Providers |-> 0],
      quotaAt   |-> [c \in Clients |-> Never],
      suspended |-> [c \in Clients |-> NotSuspended] ]

NoCache == [valid |-> FALSE, models |-> {}, expiresAt |-> Never]
Unbound == [m \in Models |-> 0]

Init ==
    /\ bound = [c \in Clients |-> Unbound]
    /\ provider = [c \in Clients |-> NoProvider]
    /\ models = [m \in Models |-> NoRegistration]
    /\ cache = NoCache
    /\ picked = {}
    /\ now = 1

-----------------------------------------------------------------------------
(* Counting.                                                               *)

Minimum(x, y) == IF x <= y THEN x ELSE y
Minus(x, y) == IF x <= y THEN 0 ELSE x - y

AddToProvider(r, p, n) ==
    IF p = NoProvider THEN r ELSE [r EXCEPT !.providers[p] = @ + n]
TakeFromProvider(r, p, n) ==
    IF p = NoProvider THEN r ELSE [r EXCEPT !.providers[p] = Minus(@, n)]

(* addModelRegistration, n times.                                          *)
AddRegistrations(r, p, n) == AddToProvider([r EXCEPT !.count = @ + n], p, n)

(* removeModelRegistration, n times: the marks of the client go, and the   *)
(* registration itself goes with its last count.                           *)
ClearMarks(r, c) == [r EXCEPT !.quotaAt[c] = Never, !.suspended[c] = NotSuspended]

\* Mutant: the marks of the client stay behind.
RemoveRegistrationsMarked(r, c, p, n) ==
    IF n = 0 THEN r
    ELSE IF r.count <= n THEN NoRegistration
    ELSE TakeFromProvider([r EXCEPT !.count = @ - n], p, n)

RemoveRegistrations(r, c, p, n) ==
    IF n = 0 THEN r
    ELSE IF r.count <= n THEN NoRegistration
    ELSE TakeFromProvider([ClearMarks(r, c) EXCEPT !.count = @ - n], p, n)

(* What RegisterClient does to one model of a client that was registered:  *)
(* old and new are its counts of the model, oldP and newP its providers.   *)
\* Mutant: the copies both registrations have are not moved to the new provider.
RebindUnmoved(r, c, old, new, oldP, newP) ==
    LET trimmed == IF old > new THEN RemoveRegistrations(r, c, oldP, old - new) ELSE r
        grown   == IF new > old THEN AddRegistrations(trimmed, newP, new - old) ELSE trimmed
    IN IF new = 0 THEN grown ELSE ClearMarks(grown, c)

\* Mutant: a re-registration keeps the client's marks.
RebindMarked(r, c, old, new, oldP, newP) ==
    LET common  == Minimum(old, new)
        moved   == oldP # newP /\ common > 0
        left    == IF moved THEN TakeFromProvider(r, oldP, common) ELSE r
        trimmed == IF old > new THEN RemoveRegistrations(left, c, oldP, old - new) ELSE left
        grown   == IF new > old THEN AddRegistrations(trimmed, newP, new - old) ELSE trimmed
    IN IF moved THEN AddToProvider(grown, newP, common) ELSE grown

Rebind(r, c, old, new, oldP, newP) ==
    LET common  == Minimum(old, new)
        moved   == oldP # newP /\ common > 0
        left    == IF moved THEN TakeFromProvider(r, oldP, common) ELSE r
        trimmed == IF old > new THEN RemoveRegistrations(left, c, oldP, old - new) ELSE left
        grown   == IF new > old THEN AddRegistrations(trimmed, newP, new - old) ELSE trimmed
        cleared == IF new > 0 THEN ClearMarks(grown, c) ELSE grown
    IN IF moved THEN AddToProvider(cleared, newP, common) ELSE cleared

-----------------------------------------------------------------------------
(* Reading.                                                                *)

InQuotaWindow(r, c, t) == r.quotaAt[c] # Never /\ t < r.quotaAt[c] + QuotaWindow

OverQuota(r, t) == {c \in Clients : InQuotaWindow(r, c, t)}
SuspendedFor(r, reason) == {c \in Clients : r.suspended[c] = reason}

(* The condition of buildAvailableModelsLocked.                            *)
\* Mutant: a cooling client keeps the model listed whatever the others are.
ListedWhileCooling(r, t) ==
    LET expired == Cardinality(OverQuota(r, t))
        cooling == Cardinality(SuspendedFor(r, "quota"))
        other   == Cardinality(SuspendedFor(r, "other"))
    IN /\ r.count > 0
       /\ \/ r.count - expired - other > 0
          \/ expired > 0 \/ cooling > 0

Listed(r, t) ==
    LET expired == Cardinality(OverQuota(r, t))
        cooling == Cardinality(SuspendedFor(r, "quota"))
        other   == Cardinality(SuspendedFor(r, "other"))
    IN /\ r.count > 0
       /\ \/ r.count - expired - other > 0
          \/ (expired > 0 \/ cooling > 0) /\ other = 0

AvailableModels(t) == {m \in Models : Listed(models[m], t)}

(* When the list may change by itself: the first end of a quota window.    *)
LeastOf(S) == CHOOSE x \in S : \A y \in S : x <= y

\* Mutant: the list is kept for one window from the time it was built.
CacheExpiryFromNow(t) ==
    IF \A m \in Models : OverQuota(models[m], t) = {} THEN Never ELSE t + QuotaWindow

CacheExpiry(t) ==
    LET ends == UNION {{models[m].quotaAt[c] + QuotaWindow : c \in OverQuota(models[m], t)} :
                         m \in Models}
    IN IF ends = {} THEN Never ELSE LeastOf(ends)

CacheUsable(t) == cache.valid /\ (cache.expiresAt = Never \/ t < cache.expiresAt)

-----------------------------------------------------------------------------
(* The methods.                                                            *)

Registered(c) == bound[c] # Unbound

UnregisterClient(c) ==
    /\ models' = [m \in Models |->
                    RemoveRegistrations(models[m], c, provider[c], bound[c][m])]
    /\ bound' = [bound EXCEPT ![c] = Unbound]
    /\ provider' = [provider EXCEPT ![c] = NoProvider]
    /\ cache' = NoCache
    /\ UNCHANGED <<picked, now>>

RegisterClient(c, p, list) ==
    /\ list # Unbound               \* the empty list unregisters the client
    /\ \A m \in Models : list[m] > 1 => m \in Repeated
    /\ models' = [m \in Models |->
                    IF Registered(c)
                    THEN Rebind(models[m], c, bound[c][m], list[m], provider[c], p)
                    ELSE AddRegistrations(models[m], p, list[m])]
    /\ bound' = [bound EXCEPT ![c] = list]
    /\ provider' = [provider EXCEPT ![c] = p]
    /\ cache' = NoCache
    /\ picked' = picked \cup {<<c, m>> : m \in {n \in Models : list[n] > 0}}
    /\ UNCHANGED now

(* MarkResult names the binding its request was routed by, which may have  *)
(* been removed since.                                                     *)
Reportable(c, m) == m \in MarkedModels /\ <<c, m>> \in picked

\* Mutant: the end of the window is stored in place of its start.
SetModelQuotaExceededUntil(c, m) ==
    /\ Reportable(c, m) /\ models[m].count > 0
    /\ models' = [models EXCEPT ![m].quotaAt[c] = now + QuotaWindow]
    /\ cache' = NoCache
    /\ UNCHANGED <<bound, provider, picked, now>>

SetModelQuotaExceeded(c, m) ==
    /\ Reportable(c, m) /\ models[m].count > 0
    /\ models' = [models EXCEPT ![m].quotaAt[c] = now]
    /\ cache' = NoCache
    /\ UNCHANGED <<bound, provider, picked, now>>

ClearModelQuotaExceeded(c, m) ==
    /\ Reportable(c, m) /\ models[m].count > 0
    /\ models' = [models EXCEPT ![m].quotaAt[c] = Never]
    /\ cache' = NoCache
    /\ UNCHANGED <<bound, provider, picked, now>>

(* A client that is suspended already keeps its first reason.              *)
SuspendClientModel(c, m, reason) ==
    /\ Reportable(c, m) /\ models[m].count > 0
    /\ models[m].suspended[c] = NotSuspended
    /\ models' = [models EXCEPT ![m].suspended[c] = reason]
    /\ cache' = NoCache
    /\ UNCHANGED <<bound, provider, picked, now>>

ResumeClientModel(c, m) ==
    /\ Reportable(c, m) /\ models[m].count > 0
    /\ models[m].suspended[c] # NotSuspended
    /\ models' = [models EXCEPT ![m].suspended[c] = NotSuspended]
    /\ cache' = NoCache
    /\ UNCHANGED <<bound, provider, picked, now>>

(* GetAvailableModels without a usable cache entry; with one it changes    *)
(* nothing.                                                                *)
GetAvailableModels ==
    /\ ~CacheUsable(now)
    /\ cache' = [valid     |-> TRUE,
                 models    |-> AvailableModels(now),
                 expiresAt |-> CacheExpiry(now)]
    /\ UNCHANGED <<bound, provider, models, picked, now>>

CleanupExpiredQuotas ==
    LET expired(m) == {c \in Clients : /\ models[m].quotaAt[c] # Never
                                       /\ ~InQuotaWindow(models[m], c, now)}
    IN /\ \E m \in Models : expired(m) # {}
       /\ models' = [m \in Models |->
                       [models[m] EXCEPT !.quotaAt =
                          [c \in Clients |-> IF c \in expired(m) THEN Never ELSE @[c]]]]
       /\ cache' = NoCache
       /\ UNCHANGED <<bound, provider, picked, now>>

Tick ==
    /\ now < MaxNow
    /\ now' = now + 1
    /\ UNCHANGED <<bound, provider, models, cache, picked>>

Next ==
    \/ \E c \in Clients : UnregisterClient(c)
    \/ \E c \in Clients, p \in Providers \cup {NoProvider},
          list \in [Models -> 0 .. MaxCopies] : RegisterClient(c, p, list)
    \/ \E c \in Clients, m \in Models :
          \/ SetModelQuotaExceeded(c, m)
          \/ ClearModelQuotaExceeded(c, m)
          \/ \E reason \in Reasons : SuspendClientModel(c, m, reason)
          \/ ResumeClientModel(c, m)
    \/ GetAvailableModels
    \/ CleanupExpiredQuotas
    \/ Tick

Spec == Init /\ [][Next]_vars

-----------------------------------------------------------------------------
(* Every quota mark was set by now, and a cached list expires, if it does, *)
(* when the window of a mark ends.                                         *)
TypeOK ==
    /\ bound \in [Clients -> [Models -> 0 .. MaxCopies]]
    /\ provider \in [Clients -> Providers \cup {NoProvider}]
    /\ models \in [Models -> Registrations]
    /\ \A m \in Models, c \in Clients : models[m].quotaAt[c] <= now
    /\ cache \in [valid : BOOLEAN, models : SUBSET Models, expiresAt : Nat]
    /\ cache.expiresAt <= now + QuotaWindow
    /\ picked \subseteq Clients \X Models
    /\ now \in 1 .. MaxNow + 1

(* The reference count of a model is the number of registrations its       *)
(* clients hold, in all and for each provider, whatever sequence of        *)
(* registrations, re-registrations with other lists or providers and       *)
(* removals led there (RegisterClient works by differences): a model       *)
(* disappears exactly with its last client, what GetModelProviders         *)
(* answers, and so where a request is routed, is where the model's clients *)
(* are, and a client that changes provider takes its registrations along.  *)
(* (The registrations of m are counted as pairs of a client and a number   *)
(* up to its count of m.)                                                  *)
Copies(b, m, clients) == {k \in clients \X (1 .. MaxCopies) : k[2] <= b[k[1]][m]}
Held(b, m, clients) == Cardinality(Copies(b, m, clients))
ServedBy(prov, p) == {c \in Clients : prov[c] = p}

CountsMatchClients ==
    \A m \in Models :
        /\ models[m].count = Held(bound, m, Clients)
        /\ \A p \in Providers :
              models[m].providers[p] = Held(bound, m, ServedBy(provider, p))

(* A binding takes its marks along when it ends, whether the client        *)
(* unregisters or only drops the model from its list, and however often it *)
(* was listed: nothing stays behind that would count against the model's   *)
(* other clients.  (A result that arrives later may mark it again.)        *)
Unmarked(r, c) == r.quotaAt[c] = Never /\ r.suspended[c] = NotSuspended

MarksEndWithBinding ==
    [][\A m \in Models, c \in Clients :
          bound[c][m] > 0 /\ bound'[c][m] = 0 => Unmarked(models'[m], c)]_vars

(* A cached list that GetAvailableModels would still hand out is the list  *)
(* it would build now: every change invalidates the cache, and the passing *)
(* of time is covered by the expiry computed when the list was built.      *)
CacheCoherent == CacheUsable(now) => cache.models = AvailableModels(now)

(* A listed model has a client that holds it and is not out for a reason   *)
(* that waiting does not cure (a suspension other than for quota), unless  *)
(* a client lists it twice: it counts twice, and its suspension once.      *)
ListSound ==
    \A m \in AvailableModels(now) :
        (\A c \in Clients : bound[c][m] <= 1) =>
            \E c \in Clients : bound[c][m] > 0 /\ models[m].suspended[c] # "other"

(* "Cooldown and suspension are transient scheduling state and must not    *)
(* survive this reconciliation step": a client that is registered and      *)
(* registers again starts without marks on every model of its new list,    *)
(* late results included.                                                  *)
RegisteredAfresh ==
    [][\A c \in Clients, p \in Providers \cup {NoProvider}, list \in [Models -> 0 .. MaxCopies] :
          Registered(c) /\ RegisterClient(c, p, list) =>
             \A m \in Models : list[m] > 0 =>
                 /\ models'[m].quotaAt[c] = Never
                 /\ models'[m].suspended[c] = NotSuspended]_vars
=============================================================================
