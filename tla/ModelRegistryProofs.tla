------------------------ MODULE ModelRegistryProofs ------------------------
(* The type of the registry, its reference counts, the absence of marks    *)
(* without a binding, and the soundness and coherence of the cached list,  *)
(* for every set of clients, models and providers and every window.        *)
EXTENDS ModelRegistry, FiniteSetTheorems, TLAPS

(* A non-empty set of naturals has the least element LeastOf names.        *)
LEMMA LeastOfNaturals ==
    ASSUME NEW S, S \subseteq Nat, S # {}
    PROVE  LeastOf(S) \in S /\ \A y \in S : LeastOf(S) <= y
<1> DEFINE Less == OpToRel(<, Nat)
<1>1. \A x, y \in Nat : <<x, y>> \in Less <=> x < y
  BY DEF OpToRel
<1>2. IsWellFoundedOn(Less, Nat)
  BY NatLessThanWellFounded
<1> HIDE DEF Less
<1>3. PICK x \in S : \A y \in S : ~(<<y, x>> \in Less)
  BY <1>2, WFMin
<1>4. ASSUME NEW y \in S PROVE x <= y
  <2>1. x \in Nat /\ y \in Nat
    OBVIOUS
  <2>2. ~(y < x)
    BY <1>1, <1>3, <2>1
  <2> QED BY <2>1, <2>2
<1> QED BY <1>4 DEF LeastOf

-----------------------------------------------------------------------------
(* What the operations on one registration do: they keep its type, and a   *)
(* mark stays or goes.                                                     *)

MarksShrink(r, s) ==
    \A c \in Clients :
        /\ s.quotaAt[c] \in {r.quotaAt[c], Never}
        /\ s.suspended[c] \in {r.suspended[c], NotSuspended}


(* An unmarked client stays unmarked when marks only go.                   *)
LEMMA UnmarkedStays ==
    ASSUME NEW r, NEW s, NEW c \in Clients, MarksShrink(r, s), Unmarked(r, c)
    PROVE  Unmarked(s, c)
BY DEF MarksShrink, Unmarked

LEMMA ShrinkTransitive ==
    ASSUME NEW r, NEW s, NEW t, MarksShrink(r, s), MarksShrink(s, t)
    PROVE  MarksShrink(r, t)
BY DEF MarksShrink

LEMMA NoRegistrationType ==
    /\ NoRegistration \in Registrations
    /\ \A c \in Clients : Unmarked(NoRegistration, c)
    /\ \A r : MarksShrink(r, NoRegistration)
BY DEF NoRegistration, Registrations, Unmarked, MarksShrink, Never, NotSuspended

LEMMA ProvidersType ==
    ASSUME NEW r \in Registrations, NEW p \in Providers \cup {NoProvider}, NEW n \in Nat
    PROVE  /\ AddToProvider(r, p, n) \in Registrations
           /\ TakeFromProvider(r, p, n) \in Registrations
           /\ MarksShrink(r, AddToProvider(r, p, n))
           /\ MarksShrink(r, TakeFromProvider(r, p, n))
BY DEF AddToProvider, TakeFromProvider, Minus, Registrations, MarksShrink

LEMMA AddRegistrationsType ==
    ASSUME NEW r \in Registrations, NEW p \in Providers \cup {NoProvider}, NEW n \in Nat
    PROVE  /\ AddRegistrations(r, p, n) \in Registrations
           /\ MarksShrink(r, AddRegistrations(r, p, n))
<1> DEFINE s == [r EXCEPT !.count = @ + n]
<1>1. s \in Registrations /\ MarksShrink(r, s)
  BY DEF Registrations, MarksShrink
<1> HIDE DEF s
<1>2. AddToProvider(s, p, n) \in Registrations /\ MarksShrink(s, AddToProvider(s, p, n))
  BY <1>1, ProvidersType
<1>3. MarksShrink(r, AddToProvider(s, p, n))
  BY <1>1, <1>2, ShrinkTransitive
<1> QED BY <1>2, <1>3 DEF AddRegistrations, s

LEMMA ClearMarksType ==
    ASSUME NEW r \in Registrations, NEW c \in Clients
    PROVE  /\ ClearMarks(r, c) \in Registrations
           /\ ClearMarks(r, c).count = r.count
           /\ MarksShrink(r, ClearMarks(r, c))
           /\ Unmarked(ClearMarks(r, c), c)
BY DEF ClearMarks, Registrations, MarksShrink, Unmarked, Never, NotSuspended

LEMMA RemoveRegistrationsType ==
    ASSUME NEW r \in Registrations, NEW c \in Clients,
           NEW p \in Providers \cup {NoProvider}, NEW n \in Nat
    PROVE  /\ RemoveRegistrations(r, c, p, n) \in Registrations
           /\ MarksShrink(r, RemoveRegistrations(r, c, p, n))
           /\ n # 0 => Unmarked(RemoveRegistrations(r, c, p, n), c)
<1>1. CASE n = 0
  BY <1>1 DEF RemoveRegistrations, MarksShrink
<1>2. CASE n # 0 /\ r.count <= n
  BY <1>2, NoRegistrationType DEF RemoveRegistrations
<1>3. CASE n # 0 /\ ~(r.count <= n)
  <2> DEFINE cleared == ClearMarks(r, c)
             s == [cleared EXCEPT !.count = @ - n]
  <2>1. cleared \in Registrations /\ cleared.count = r.count
        /\ MarksShrink(r, cleared) /\ Unmarked(cleared, c)
    BY ClearMarksType
  <2>2. RemoveRegistrations(r, c, p, n) = TakeFromProvider(s, p, n)
    BY <1>3 DEF RemoveRegistrations
  <2> HIDE DEF cleared
  <2>3. s \in Registrations /\ MarksShrink(cleared, s)
    BY <1>3, <2>1 DEF Registrations, MarksShrink
  <2> HIDE DEF s
  <2>4. TakeFromProvider(s, p, n) \in Registrations /\ MarksShrink(s, TakeFromProvider(s, p, n))
    BY <2>3, ProvidersType
  <2> QED BY <2>1, <2>2, <2>3, <2>4, ShrinkTransitive, UnmarkedStays
<1> QED BY <1>1, <1>2, <1>3

(* A re-registration leaves the client without a mark on the model, unless *)
(* the model is in neither list.                                           *)
LEMMA RebindType ==
    ASSUME NEW r \in Registrations, NEW c \in Clients, NEW old \in Nat, NEW new \in Nat,
           NEW oldP \in Providers \cup {NoProvider}, NEW newP \in Providers \cup {NoProvider}
    PROVE  /\ Rebind(r, c, old, new, oldP, newP) \in Registrations
           /\ MarksShrink(r, Rebind(r, c, old, new, oldP, newP))
           /\ old > 0 \/ new > 0 => Unmarked(Rebind(r, c, old, new, oldP, newP), c)
<1> DEFINE common  == Minimum(old, new)
           moved   == oldP # newP /\ common > 0
           left    == IF moved THEN TakeFromProvider(r, oldP, common) ELSE r
           trimmed == IF old > new THEN RemoveRegistrations(left, c, oldP, old - new) ELSE left
           grown   == IF new > old THEN AddRegistrations(trimmed, newP, new - old) ELSE trimmed
           cleared == IF new > 0 THEN ClearMarks(grown, c) ELSE grown
           result  == IF moved THEN AddToProvider(cleared, newP, common) ELSE cleared
<1>0. /\ Rebind(r, c, old, new, oldP, newP) = result
      /\ common \in Nat
  BY DEF Rebind, Minimum
<1>1. \A s : MarksShrink(s, s)
  BY DEF MarksShrink
<1> HIDE DEF common
<1>2. left \in Registrations /\ MarksShrink(r, left)
  BY <1>0, <1>1, ProvidersType
<1> HIDE DEF left
<1>3. /\ trimmed \in Registrations /\ MarksShrink(left, trimmed)
      /\ old > new => Unmarked(trimmed, c)
  <2>1. CASE old > new
    <3>1. old - new \in Nat /\ old - new # 0
      BY <2>1
    <3> QED BY <1>2, <2>1, <3>1, RemoveRegistrationsType
  <2>2. CASE ~(old > new)
    BY <1>1, <1>2, <2>2
  <2> QED BY <2>1, <2>2
<1> HIDE DEF trimmed
<1>4. grown \in Registrations /\ MarksShrink(trimmed, grown)
  <2>1. CASE new > old
    <3>1. new - old \in Nat
      BY <2>1
    <3> QED BY <1>3, <2>1, <3>1, AddRegistrationsType
  <2>2. CASE ~(new > old)
    BY <1>1, <1>3, <2>2
  <2> QED BY <2>1, <2>2
<1> HIDE DEF grown
<1>5. /\ cleared \in Registrations /\ MarksShrink(grown, cleared)
      /\ new > 0 => Unmarked(cleared, c)
  BY <1>1, <1>4, ClearMarksType
<1> HIDE DEF cleared
<1>6. result \in Registrations /\ MarksShrink(cleared, result)
  BY <1>0, <1>1, <1>5, ProvidersType
<1> HIDE DEF result
<1>7. MarksShrink(left, grown) /\ MarksShrink(grown, result)
  BY <1>3, <1>4, <1>5, <1>6, ShrinkTransitive
<1>8. MarksShrink(r, result)
  BY <1>2, <1>7, ShrinkTransitive
<1>9. CASE new > 0
  BY <1>0, <1>5, <1>6, <1>8, <1>9, UnmarkedStays
<1>10. CASE new = 0 /\ old > 0
  <2>1. old > new
    BY <1>10
  <2>2. Unmarked(grown, c)
    BY <1>3, <1>4, <2>1, UnmarkedStays
  <2> QED BY <1>0, <1>6, <1>7, <1>8, <1>10, <2>2, UnmarkedStays
<1>11. CASE new = 0 /\ old = 0
  BY <1>0, <1>6, <1>8, <1>11
<1> QED BY <1>9, <1>10, <1>11

-----------------------------------------------------------------------------
(* The type of the registry.                                               *)

LEMMA NoCacheType ==
    NoCache \in [valid : BOOLEAN, models : SUBSET Models, expiresAt : Nat]
    /\ NoCache.expiresAt = 0 /\ ~NoCache.valid
BY DEF NoCache, Never

(* The expiry of a list built at t lies after t, and no window that is     *)
(* open at t ends before it.                                               *)
LEMMA CacheExpiryBounds ==
    ASSUME models \in [Models -> Registrations], NEW t \in Nat,
           \A m \in Models, c \in Clients : models[m].quotaAt[c] <= t
    PROVE  /\ CacheExpiry(t) \in Nat
           /\ CacheExpiry(t) <= t + QuotaWindow
           /\ CacheExpiry(t) = Never => \A m \in Models : OverQuota(models[m], t) = {}
           /\ \A m \in Models : \A c \in OverQuota(models[m], t) :
                 CacheExpiry(t) <= models[m].quotaAt[c] + QuotaWindow
<1> DEFINE endsOf(m) == {models[m].quotaAt[c] + QuotaWindow : c \in OverQuota(models[m], t)}
           ends == UNION {endsOf(m) : m \in Models}
<1>1. CacheExpiry(t) = IF ends = {} THEN Never ELSE LeastOf(ends)
  BY DEF CacheExpiry
<1>2. \A m \in Models : \A c \in OverQuota(models[m], t) :
         models[m].quotaAt[c] + QuotaWindow \in ends
  OBVIOUS
<1>3. \A e \in ends : e \in Nat /\ t < e /\ e <= t + QuotaWindow
  BY RegistryAssumption DEF OverQuota, InQuotaWindow, Registrations
<1> HIDE DEF ends
<1>4. CASE ends = {}
  BY <1>1, <1>2, <1>4, RegistryAssumption DEF Never
<1>5. CASE ends # {}
  <2>1. LeastOf(ends) \in ends /\ \A e \in ends : LeastOf(ends) <= e
    BY <1>3, <1>5, LeastOfNaturals
  <2>2. LeastOf(ends) \in Nat /\ LeastOf(ends) <= t + QuotaWindow /\ LeastOf(ends) # Never
    BY <1>3, <2>1 DEF Never
  <2> QED BY <1>1, <1>2, <1>5, <2>1, <2>2
<1> QED BY <1>4, <1>5

LEMMA TypeInit == Init => TypeOK
<1> SUFFICES ASSUME Init PROVE TypeOK
  OBVIOUS
<1>1. NoRegistration \in Registrations /\ \A c \in Clients : NoRegistration.quotaAt[c] = 0
  BY NoRegistrationType DEF NoRegistration, Never
<1>2. Unbound \in [Models -> 0 .. MaxCopies]
  BY RegistryAssumption DEF Unbound
<1> QED BY <1>1, <1>2, NoCacheType, RegistryAssumption DEF Init, TypeOK

(* A step that only takes marks away, or leaves them, keeps the typing of  *)
(* the registrations.                                                      *)
LEMMA ShrinkingKeepsTime ==
    ASSUME models \in [Models -> Registrations], models' \in [Models -> Registrations],
           now \in Nat, now' = now,
           \A m \in Models, c \in Clients : models[m].quotaAt[c] <= now,
           \A m \in Models : MarksShrink(models[m], models'[m])
    PROVE  \A m \in Models, c \in Clients : models'[m].quotaAt[c] <= now'
<1> SUFFICES ASSUME NEW m \in Models, NEW c \in Clients
             PROVE  models'[m].quotaAt[c] <= now'
  OBVIOUS
<1>1. models'[m].quotaAt[c] \in {models[m].quotaAt[c], Never}
  BY DEF MarksShrink
<1> QED BY <1>1 DEF Never

(* What UnregisterClient and RegisterClient do to the registrations.       *)
LEMMA UnregisterMarks ==
    ASSUME NEW c \in Clients, TypeOK, UnregisterClient(c)
    PROVE  /\ models' \in [Models -> Registrations]
           /\ \A m \in Models : /\ MarksShrink(models[m], models'[m])
                                /\ bound[c][m] # 0 => Unmarked(models'[m], c)
<1> SUFFICES ASSUME NEW m \in Models
             PROVE  /\ models'[m] \in Registrations
                    /\ MarksShrink(models[m], models'[m])
                    /\ bound[c][m] # 0 => Unmarked(models'[m], c)
  BY DEF UnregisterClient
<1>1. models[m] \in Registrations /\ bound[c][m] \in Nat
      /\ provider[c] \in Providers \cup {NoProvider}
  BY RegistryAssumption DEF TypeOK
<1>2. models'[m] = RemoveRegistrations(models[m], c, provider[c], bound[c][m])
  BY DEF UnregisterClient
<1> QED BY <1>1, <1>2, RemoveRegistrationsType

LEMMA RegisterMarks ==
    ASSUME TypeOK, NEW c \in Clients, NEW p \in Providers \cup {NoProvider},
           NEW list \in [Models -> 0 .. MaxCopies], RegisterClient(c, p, list)
    PROVE  /\ models' \in [Models -> Registrations]
           /\ \A m \in Models :
                 /\ MarksShrink(models[m], models'[m])
                 /\ Registered(c) /\ (bound[c][m] > 0 \/ list[m] > 0)
                       => Unmarked(models'[m], c)
<1> SUFFICES ASSUME NEW m \in Models
             PROVE  /\ models'[m] \in Registrations
                    /\ MarksShrink(models[m], models'[m])
                    /\ Registered(c) /\ (bound[c][m] > 0 \/ list[m] > 0)
                          => Unmarked(models'[m], c)
  BY DEF RegisterClient
<1>1. models[m] \in Registrations /\ bound[c][m] \in Nat /\ list[m] \in Nat
      /\ provider[c] \in Providers \cup {NoProvider}
  BY RegistryAssumption DEF TypeOK
<1>2. CASE Registered(c)
  <2>1. models'[m] = Rebind(models[m], c, bound[c][m], list[m], provider[c], p)
    BY <1>2 DEF RegisterClient
  <2> DEFINE r == models[m]
             old == bound[c][m]
             new == list[m]
             oldP == provider[c]
  <2>2. r \in Registrations /\ old \in Nat /\ new \in Nat
        /\ oldP \in Providers \cup {NoProvider}
    BY <1>1
  <2> HIDE DEF r, old, new, oldP
  <2>3. /\ Rebind(r, c, old, new, oldP, p) \in Registrations
        /\ MarksShrink(r, Rebind(r, c, old, new, oldP, p))
        /\ old > 0 \/ new > 0 => Unmarked(Rebind(r, c, old, new, oldP, p), c)
    BY <2>2, RebindType
  <2> QED BY <2>1, <2>3 DEF r, old, new, oldP
<1>3. CASE ~Registered(c)
  <2>1. models'[m] = AddRegistrations(models[m], p, list[m])
    BY <1>3 DEF RegisterClient
  <2> QED BY <1>1, <1>3, <2>1, AddRegistrationsType
<1> QED BY <1>2, <1>3

(* What the marking methods do: only SetModelQuotaExceeded and             *)
(* SuspendClientModel add a mark, and only to the binding they name.       *)
MarkStep(c, m) ==
    \/ SetModelQuotaExceeded(c, m)
    \/ ClearModelQuotaExceeded(c, m)
    \/ \E reason \in Reasons : SuspendClientModel(c, m, reason)
    \/ ResumeClientModel(c, m)

LEMMA MarkStepEffect ==
    ASSUME TypeOK, NEW c \in Clients, NEW m \in Models, MarkStep(c, m)
    PROVE  /\ models' \in [Models -> Registrations]
           /\ \A n \in Models, d \in Clients :
                 /\ models'[n].quotaAt[d] \in {models[n].quotaAt[d], Never, now}
                 /\ n # m \/ d # c => /\ models'[n].quotaAt[d] = models[n].quotaAt[d]
                                      /\ models'[n].suspended[d] = models[n].suspended[d]
           /\ UNCHANGED <<bound, provider, picked, now>>
           /\ cache' = NoCache
           /\ Reportable(c, m)
<1>0. models \in [Models -> Registrations] /\ now \in Nat
  BY DEF TypeOK
<1>1. CASE SetModelQuotaExceeded(c, m)
  BY <1>0, <1>1 DEF SetModelQuotaExceeded, Registrations
<1>2. CASE ClearModelQuotaExceeded(c, m)
  BY <1>0, <1>2 DEF ClearModelQuotaExceeded, Registrations, Never
<1>3. ASSUME NEW reason \in Reasons, SuspendClientModel(c, m, reason)
      PROVE  /\ models' = [models EXCEPT ![m].suspended[c] = reason]
             /\ reason \in Reasons \cup {NotSuspended}
             /\ UNCHANGED <<bound, provider, picked, now>> /\ cache' = NoCache /\ Reportable(c, m)
  BY <1>3 DEF SuspendClientModel
<1>4. ASSUME NEW reason \in Reasons \cup {NotSuspended},
             models' = [models EXCEPT ![m].suspended[c] = reason],
             UNCHANGED <<bound, provider, picked, now>>, cache' = NoCache, Reportable(c, m)
      PROVE  /\ models' \in [Models -> Registrations]
             /\ \A n \in Models, d \in Clients :
                   /\ models'[n].quotaAt[d] = models[n].quotaAt[d]
                   /\ n # m \/ d # c => models'[n].suspended[d] = models[n].suspended[d]
  BY <1>0, <1>4 DEF Registrations
<1>5. CASE ResumeClientModel(c, m)
  BY <1>4, <1>5 DEF ResumeClientModel
<1>6. CASE \E reason \in Reasons : SuspendClientModel(c, m, reason)
  BY <1>3, <1>4, <1>6
<1> QED BY <1>1, <1>2, <1>5, <1>6 DEF MarkStep

LEMMA CleanupEffect ==
    ASSUME TypeOK, CleanupExpiredQuotas
    PROVE  /\ models' \in [Models -> Registrations]
           /\ \A m \in Models : MarksShrink(models[m], models'[m])
           /\ UNCHANGED <<bound, provider, picked, now>>
           /\ cache' = NoCache
BY ZenonT(60) DEF TypeOK, CleanupExpiredQuotas, Registrations, MarksShrink, Never

LEMMA TypeStep == TypeOK /\ [Next]_vars => TypeOK'
<1> SUFFICES ASSUME TypeOK, [Next]_vars PROVE TypeOK'
  OBVIOUS
<1>0. /\ models \in [Models -> Registrations] /\ now \in Nat
      /\ \A m \in Models, c \in Clients : models[m].quotaAt[c] <= now
  BY DEF TypeOK
<1>1. ASSUME NEW c \in Clients, UnregisterClient(c) PROVE TypeOK'
  <2>0. /\ models' \in [Models -> Registrations]
        /\ \A m \in Models : MarksShrink(models[m], models'[m])
    BY <1>1, UnregisterMarks
  <2>1. \A m \in Models, d \in Clients : models'[m].quotaAt[d] <= now'
    <3>1. now' = now
      BY <1>1 DEF UnregisterClient
    <3> QED BY <1>0, <2>0, <3>1, ShrinkingKeepsTime
  <2>2. Unbound \in [Models -> 0 .. MaxCopies]
    BY RegistryAssumption DEF Unbound
  <2> QED BY <1>1, <2>0, <2>1, <2>2, NoCacheType, RegistryAssumption DEF UnregisterClient, TypeOK
<1>2. ASSUME NEW c \in Clients, NEW p \in Providers \cup {NoProvider},
             NEW list \in [Models -> 0 .. MaxCopies], RegisterClient(c, p, list)
      PROVE  TypeOK'
  <2>1. /\ models' \in [Models -> Registrations]
        /\ \A m \in Models, d \in Clients : models'[m].quotaAt[d] <= now'
    BY <1>0, <1>2, RegisterMarks, ShrinkingKeepsTime DEF RegisterClient
  <2> QED BY <1>2, <2>1, NoCacheType, RegistryAssumption DEF RegisterClient, TypeOK
<1>3. ASSUME NEW c \in Clients, NEW m \in Models, MarkStep(c, m) PROVE TypeOK'
  <2>1. /\ models' \in [Models -> Registrations]
        /\ \A n \in Models, d \in Clients :
              models'[n].quotaAt[d] \in {models[n].quotaAt[d], Never, now}
        /\ UNCHANGED <<bound, provider, picked, now>> /\ cache' = NoCache
    BY <1>3, MarkStepEffect
  <2>2. \A n \in Models, d \in Clients : models'[n].quotaAt[d] <= now'
    BY <1>0, <2>1 DEF Never
  <2> QED BY <2>1, <2>2, NoCacheType, RegistryAssumption DEF TypeOK
<1>4. CASE GetAvailableModels
  <2>1. CacheExpiry(now) \in Nat /\ CacheExpiry(now) <= now + QuotaWindow
    BY <1>0, CacheExpiryBounds
  <2>2. AvailableModels(now) \subseteq Models
    BY DEF AvailableModels
  <2> QED BY <1>4, <2>1, <2>2 DEF GetAvailableModels, TypeOK
<1>5. CASE CleanupExpiredQuotas
  <2>1. /\ models' \in [Models -> Registrations]
        /\ \A m \in Models, d \in Clients : models'[m].quotaAt[d] <= now'
    BY <1>0, <1>5, CleanupEffect, ShrinkingKeepsTime
  <2> QED BY <1>5, <2>1, CleanupEffect, NoCacheType, RegistryAssumption DEF TypeOK
<1>6. CASE Tick
  <2>1. \A m \in Models, c \in Clients : models[m].quotaAt[c] \in Nat
    BY <1>0 DEF Registrations
  <2> QED BY <1>0, <1>6, <2>1, RegistryAssumption DEF Tick, TypeOK
<1>7. CASE UNCHANGED vars
  BY <1>7 DEF vars, TypeOK
<1> QED BY <1>1, <1>2, <1>3, <1>4, <1>5, <1>6, <1>7 DEF Next, MarkStep

(* No sequence of calls leaves the type of the registry: counts stay       *)
(* natural, quota marks are never in the future and a cached list never    *)
(* outlives a whole quota window.                                          *)
THEOREM RegistryTypeCorrect == Spec => []TypeOK
<1>1. Init => TypeOK
  BY TypeInit
<1>2. TypeOK /\ [Next]_vars => TypeOK'
  BY TypeStep
<1> QED BY <1>1, <1>2, PTL DEF Spec

-----------------------------------------------------------------------------
(* Marks end with their binding.                                           *)

(* A client that unregisters, or drops a model from its list, leaves no    *)
(* mark on it: UnregisterClient and the differences of RegisterClient take *)
(* the marks along, and no other method ends a binding.                    *)
THEOREM MarksEndWithBindingAlways == Spec => MarksEndWithBinding
<1> DEFINE Ended ==
      \A m \in Models, c \in Clients :
          bound[c][m] > 0 /\ bound'[c][m] = 0 => Unmarked(models'[m], c)
<1>1. TypeOK /\ [Next]_vars => Ended
  <2> SUFFICES ASSUME TypeOK, [Next]_vars, NEW m \in Models, NEW d \in Clients,
                      bound[d][m] > 0, bound'[d][m] = 0
               PROVE  Unmarked(models'[m], d)
    OBVIOUS
  <2>0. bound \in [Clients -> [Models -> 0 .. MaxCopies]]
    BY DEF TypeOK
  <2>1. ASSUME NEW c \in Clients, UnregisterClient(c) PROVE Unmarked(models'[m], d)
    <3>1. c = d
      BY <2>0, <2>1 DEF UnregisterClient
    <3>2. bound[c][m] # 0
      BY <3>1
    <3> QED BY <2>1, <3>1, <3>2, UnregisterMarks
  <2>2. ASSUME NEW c \in Clients, NEW p \in Providers \cup {NoProvider},
               NEW list \in [Models -> 0 .. MaxCopies], RegisterClient(c, p, list)
        PROVE  Unmarked(models'[m], d)
    <3>1. c = d
      BY <2>0, <2>2 DEF RegisterClient
    <3>2. Registered(c)
      BY <2>0, <3>1 DEF Registered, Unbound
    <3> QED BY <2>2, <3>1, <3>2, RegisterMarks
  <2>3. ASSUME NEW c \in Clients, NEW n \in Models, MarkStep(c, n)
        PROVE  Unmarked(models'[m], d)
    <3>1. bound' = bound
      BY <2>3, MarkStepEffect
    <3> QED BY <3>1
  <2>4. CASE CleanupExpiredQuotas \/ GetAvailableModels \/ Tick \/ UNCHANGED vars
    <3>1. bound' = bound
      BY <2>4 DEF CleanupExpiredQuotas, GetAvailableModels, Tick, vars
    <3> QED BY <3>1
  <2> QED BY <2>1, <2>2, <2>3, <2>4 DEF Next, MarkStep
<1>2. TypeOK /\ [Next]_vars => [Ended]_vars
  BY <1>1
<1> QED BY <1>2, RegistryTypeCorrect, PTL DEF Spec, MarksEndWithBinding

-----------------------------------------------------------------------------
(* The cached list.                                                        *)

(* A usable cache was built from the registrations there are now, so it    *)
(* holds the list and the expiry a rebuild would.                          *)
CacheInv ==
    CacheUsable(now) => /\ cache.models = AvailableModels(now)
                        /\ cache.expiresAt = CacheExpiry(now)

(* Time alone changes neither, before the cache expires: a window open now *)
(* is open until the expiry, and no window opens by itself.                *)
LEMMA TickKeepsList ==
    ASSUME TypeOK, CacheInv, Tick, CacheUsable(now')
    PROVE  /\ CacheUsable(now)
           /\ AvailableModels(now') = AvailableModels(now)
           /\ CacheExpiry(now') = CacheExpiry(now)
<1>0. /\ models \in [Models -> Registrations] /\ now \in Nat /\ now' = now + 1
      /\ \A m \in Models, c \in Clients : models[m].quotaAt[c] <= now
      /\ cache.expiresAt \in Nat
  BY DEF TypeOK, Tick
<1>1. CacheUsable(now)
  BY <1>0 DEF CacheUsable
<1>2. cache.expiresAt = CacheExpiry(now)
  BY <1>1 DEF CacheInv
<1>3. ASSUME NEW m \in Models PROVE OverQuota(models[m], now') = OverQuota(models[m], now)
  <2>1. SUFFICES ASSUME NEW c \in Clients
                 PROVE  InQuotaWindow(models[m], c, now') <=> InQuotaWindow(models[m], c, now)
    BY DEF OverQuota
  <2>2. models[m].quotaAt[c] \in Nat
    BY <1>0 DEF Registrations
  <2>3. InQuotaWindow(models[m], c, now') => InQuotaWindow(models[m], c, now)
    BY <1>0, <2>2, RegistryAssumption DEF InQuotaWindow
  <2>4. ASSUME InQuotaWindow(models[m], c, now)
        PROVE  InQuotaWindow(models[m], c, now')
    <3>1. c \in OverQuota(models[m], now)
      BY <2>4 DEF OverQuota
    <3>2. CacheExpiry(now) <= models[m].quotaAt[c] + QuotaWindow /\ CacheExpiry(now) # Never
          /\ CacheExpiry(now) \in Nat
      BY <1>0, <3>1, CacheExpiryBounds
    <3>3. now' < CacheExpiry(now)
      BY <1>2, <3>2 DEF CacheUsable
    <3> QED BY <1>0, <2>2, <2>4, <3>2, <3>3, RegistryAssumption DEF InQuotaWindow
  <2> QED BY <2>3, <2>4
<1>4. AvailableModels(now') = AvailableModels(now)
  BY <1>3 DEF AvailableModels, Listed
<1>5. CacheExpiry(now') = CacheExpiry(now)
  <2> DEFINE endsOf(m, t) == {models[m].quotaAt[c] + QuotaWindow : c \in OverQuota(models[m], t)}
             ends(t) == UNION {endsOf(m, t) : m \in Models}
  <2>1. \A m \in Models : endsOf(m, now') = endsOf(m, now)
    BY <1>3
  <2> HIDE DEF endsOf
  <2>2. ends(now') = ends(now)
    BY <2>1
  <2> USE DEF endsOf
  <2>3. \A t : CacheExpiry(t) = IF ends(t) = {} THEN Never ELSE LeastOf(ends(t))
    BY DEF CacheExpiry
  <2> HIDE DEF ends
  <2> QED BY <2>2, <2>3
<1> QED BY <1>1, <1>4, <1>5

(* A list GetAvailableModels hands out from its cache is the list it would *)
(* build at that moment.                                                   *)
THEOREM CacheCoherentAlways == Spec => []CacheCoherent
<1> DEFINE Inv == TypeOK /\ CacheInv
<1>1. Init => Inv
  <2> SUFFICES ASSUME Init PROVE CacheInv
    BY TypeInit
  <2> QED BY NoCacheType DEF Init, CacheInv, CacheUsable
<1>2. Inv /\ [Next]_vars => Inv'
  <2> SUFFICES ASSUME Inv, [Next]_vars PROVE CacheInv'
    BY TypeStep
  <2>1. ASSUME cache' = NoCache PROVE CacheInv'
    BY <2>1, NoCacheType DEF CacheInv, CacheUsable
  <2>2. CASE GetAvailableModels
    <3>1. models' = models /\ now' = now
      BY <2>2 DEF GetAvailableModels
    <3>2. AvailableModels(now)' = AvailableModels(now) /\ CacheExpiry(now)' = CacheExpiry(now)
      BY <3>1 DEF AvailableModels, CacheExpiry
    <3> QED BY <2>2, <3>2 DEF GetAvailableModels, CacheInv
  <2>3. CASE Tick
    <3> SUFFICES ASSUME CacheUsable(now)'
                 PROVE  (cache.models = AvailableModels(now) /\ cache.expiresAt = CacheExpiry(now))'
      BY DEF CacheInv
    <3>1. models' = models /\ cache' = cache
      BY <2>3 DEF Tick
    <3>2. CacheUsable(now')
      BY <3>1 DEF CacheUsable
    <3>3. cache.models = AvailableModels(now') /\ cache.expiresAt = CacheExpiry(now')
      BY <2>3, <3>2, TickKeepsList DEF CacheInv
    <3>4. AvailableModels(now)' = AvailableModels(now') /\ CacheExpiry(now)' = CacheExpiry(now')
      BY <3>1 DEF AvailableModels, CacheExpiry
    <3> QED BY <3>1, <3>3, <3>4
  <2>4. CASE UNCHANGED vars
    <3>1. models' = models /\ cache' = cache /\ now' = now
      BY <2>4 DEF vars
    <3>2. /\ AvailableModels(now)' = AvailableModels(now)
          /\ CacheExpiry(now)' = CacheExpiry(now)
          /\ CacheUsable(now)' <=> CacheUsable(now)
      BY <3>1 DEF AvailableModels, CacheExpiry, CacheUsable
    <3> QED BY <3>1, <3>2 DEF CacheInv
  <2>5. ASSUME NEW c \in Clients, NEW m \in Models, MarkStep(c, m) PROVE cache' = NoCache
    BY <2>5, MarkStepEffect
  <2> QED BY <2>1, <2>2, <2>3, <2>4, <2>5
          DEF Next, MarkStep, UnregisterClient, RegisterClient, CleanupExpiredQuotas
<1>3. Inv => CacheCoherent
  BY DEF CacheInv, CacheCoherent
<1> QED BY <1>1, <1>2, <1>3, PTL DEF Spec

-----------------------------------------------------------------------------
(* A registered client that registers again loses every mark on the models *)
(* of its new list, whether RegisterClient moves, removes or adds copies.  *)
THEOREM RegisteredAfreshAlways == Spec => RegisteredAfresh
<1> DEFINE Afresh ==
      \A c \in Clients, p \in Providers \cup {NoProvider}, list \in [Models -> 0 .. MaxCopies] :
          Registered(c) /\ RegisterClient(c, p, list) =>
             \A m \in Models : list[m] > 0 =>
                 /\ models'[m].quotaAt[c] = Never
                 /\ models'[m].suspended[c] = NotSuspended
<1>1. TypeOK => Afresh
  <2> SUFFICES ASSUME TypeOK, NEW c \in Clients, NEW p \in Providers \cup {NoProvider},
                      NEW list \in [Models -> 0 .. MaxCopies],
                      Registered(c), RegisterClient(c, p, list),
                      NEW m \in Models, list[m] > 0
               PROVE  Unmarked(models'[m], c)
    BY DEF Unmarked
  <2> QED BY RegisterMarks
<1>2. TypeOK => [Afresh]_vars
  BY <1>1
<1> QED BY <1>2, RegistryTypeCorrect, PTL DEF RegisteredAfresh

-----------------------------------------------------------------------------
(* Counting.  The registrations of a model split into those of one client  *)
(* and those of the others.                                                *)

LEMMA CopiesFinite ==
    ASSUME NEW b, NEW m, NEW S \in SUBSET Clients
    PROVE  IsFiniteSet(Copies(b, m, S)) /\ Held(b, m, S) \in Nat
<1>1. IsFiniteSet(S) /\ IsFiniteSet(1 .. MaxCopies)
  BY RegistryAssumption, FS_Subset, FS_Interval
<1>2. IsFiniteSet(S \X (1 .. MaxCopies))
  BY <1>1, FS_Product
<1>3. Copies(b, m, S) \in SUBSET (S \X (1 .. MaxCopies))
  BY DEF Copies
<1>4. IsFiniteSet(Copies(b, m, S))
  BY <1>2, <1>3, FS_Subset
<1> QED BY <1>4, FS_CardinalityType DEF Held

LEMMA PairsWithOne ==
    ASSUME NEW c, NEW n \in Nat
    PROVE  IsFiniteSet({c} \X (1 .. n)) /\ Cardinality({c} \X (1 .. n)) = n
<1>1. IsFiniteSet({c}) /\ Cardinality({c}) = 1
  BY FS_Singleton
<1>2. IsFiniteSet(1 .. n) /\ Cardinality(1 .. n) = n
  <2>1. IsFiniteSet(1 .. n) /\ Cardinality(1 .. n) = IF 1 > n THEN 0 ELSE n - 1 + 1
    BY FS_Interval
  <2> QED BY <2>1
<1> DEFINE I == 1 .. n
           O == {c}
<1> HIDE DEF I, O
<1>3. IsFiniteSet(O \X I) /\ Cardinality(O \X I) = 1 * n
  <2>1. IsFiniteSet(I) /\ IsFiniteSet(O) /\ Cardinality(O) = 1 /\ Cardinality(I) = n
    BY <1>1, <1>2 DEF I, O
  <2>2. IsFiniteSet(O \X I) /\ Cardinality(O \X I) = Cardinality(O) * Cardinality(I)
    BY <2>1, FS_Product
  <2> QED BY <2>1, <2>2
<1> QED BY <1>3 DEF I, O

LEMMA HeldSplit ==
    ASSUME NEW b \in [Clients -> [Models -> 0 .. MaxCopies]], NEW m \in Models,
           NEW S \in SUBSET Clients, NEW c \in S
    PROVE  Held(b, m, S) = Held(b, m, S \ {c}) + b[c][m]
<1> DEFINE own == {c} \X (1 .. b[c][m])
           others == Copies(b, m, S \ {c})
<1>0. b[c][m] \in 0 .. MaxCopies /\ MaxCopies \in Nat
  BY RegistryAssumption
<1>1. Copies(b, m, S) = others \cup own
  <2>1. ASSUME NEW k \in Copies(b, m, S) PROVE k \in others \cup own
    BY <1>0, <2>1 DEF Copies
  <2>2. ASSUME NEW k \in others PROVE k \in Copies(b, m, S)
    BY <2>2 DEF Copies
  <2>3. ASSUME NEW k \in own PROVE k \in Copies(b, m, S)
    BY <1>0, <2>3 DEF Copies
  <2> QED BY <2>1, <2>2, <2>3
<1>2. others \cap own = {}
  BY DEF Copies
<1>3. IsFiniteSet(own) /\ Cardinality(own) = b[c][m]
  <2>1. b[c][m] \in Nat
    BY <1>0
  <2> QED BY <2>1, PairsWithOne
<1>4. IsFiniteSet(others) /\ Cardinality(others) \in Nat
  BY CopiesFinite DEF Held
<1> HIDE DEF own, others
<1>5. Cardinality(others \cup own) = Cardinality(others) + Cardinality(own) - 0
  <2>1. Cardinality(others \cap own) = 0
    BY <1>2, FS_EmptySet
  <2>2. Cardinality(others \cup own) =
           Cardinality(others) + Cardinality(own) - Cardinality(others \cap own)
    BY <1>3, <1>4, FS_Union
  <2> QED BY <2>1, <2>2
<1>6. Cardinality(Copies(b, m, S)) = Cardinality(others) + b[c][m]
  BY <1>0, <1>1, <1>3, <1>4, <1>5
<1> QED BY <1>6 DEF Held, others

LEMMA HeldSame ==
    ASSUME NEW b, NEW d, NEW m, NEW S, \A c \in S : b[c][m] = d[c][m]
    PROVE  Held(b, m, S) = Held(d, m, S)
<1>1. Copies(b, m, S) = Copies(d, m, S)
  BY DEF Copies
<1> QED BY <1>1 DEF Held

LEMMA HeldMonotone ==
    ASSUME NEW b, NEW m, NEW S \in SUBSET Clients, NEW T \in SUBSET S
    PROVE  Held(b, m, T) <= Held(b, m, S)
<1>1. Copies(b, m, T) \in SUBSET Copies(b, m, S)
  BY DEF Copies
<1> QED BY <1>1, CopiesFinite, FS_Subset DEF Held

(* A registration that counts n registrations of one client, through       *)
(* provider p, next to those of the other clients: rest in all, through[q] *)
(* of them through provider q.                                             *)
Counts(r, n, p, rest, through) ==
    /\ r.count = rest + n
    /\ \A q \in Providers :
          r.providers[q] = through[q] + (IF q = p THEN n ELSE 0)

Others(rest, through) ==
    /\ rest \in Nat
    /\ through \in [Providers -> Nat]
    /\ \A q \in Providers : through[q] <= rest

(* What the operations do to the counts.                                   *)
LEMMA ProviderCounts ==
    ASSUME NEW r \in Registrations, NEW p \in Providers \cup {NoProvider}, NEW n \in Nat
    PROVE  /\ AddToProvider(r, p, n).count = r.count
           /\ TakeFromProvider(r, p, n).count = r.count
           /\ \A q \in Providers :
                 /\ AddToProvider(r, p, n).providers[q] =
                       r.providers[q] + (IF q = p THEN n ELSE 0)
                 /\ TakeFromProvider(r, p, n).providers[q] =
                       Minus(r.providers[q], IF q = p THEN n ELSE 0)
<1>1. /\ AddToProvider(r, p, n).count = r.count
      /\ TakeFromProvider(r, p, n).count = r.count
  BY DEF AddToProvider, TakeFromProvider, Registrations
<1>2. ASSUME NEW q \in Providers
      PROVE  /\ AddToProvider(r, p, n).providers[q] =
                   r.providers[q] + (IF q = p THEN n ELSE 0)
             /\ TakeFromProvider(r, p, n).providers[q] =
                   Minus(r.providers[q], IF q = p THEN n ELSE 0)
  <2>1. r.providers \in [Providers -> Nat] /\ r.providers[q] \in Nat
    BY DEF Registrations
  <2>2. CASE p = NoProvider
    <3>1. q # p
      BY <2>2, RegistryAssumption
    <3> QED BY <2>1, <2>2, <3>1 DEF AddToProvider, TakeFromProvider, Minus
  <2>3. CASE p # NoProvider
    <3>1. CASE q = p
      BY <2>1, <2>3, <3>1 DEF AddToProvider, TakeFromProvider, Registrations
    <3>2. CASE q # p
      BY <2>1, <2>3, <3>2 DEF AddToProvider, TakeFromProvider, Minus, Registrations
    <3> QED BY <3>1, <3>2
  <2> QED BY <2>2, <2>3
<1> QED BY <1>1, <1>2

LEMMA AddCounts ==
    ASSUME NEW r \in Registrations, NEW p \in Providers \cup {NoProvider}, NEW n \in Nat
    PROVE  /\ AddRegistrations(r, p, n).count = r.count + n
           /\ \A q \in Providers :
                 AddRegistrations(r, p, n).providers[q] =
                    r.providers[q] + (IF q = p THEN n ELSE 0)
<1> DEFINE s == [r EXCEPT !.count = @ + n]
<1>1. s \in Registrations /\ s.count = r.count + n /\ s.providers = r.providers
  BY DEF Registrations
<1> HIDE DEF s
<1>2. /\ AddToProvider(s, p, n).count = s.count
      /\ \A q \in Providers :
            AddToProvider(s, p, n).providers[q] = s.providers[q] + (IF q = p THEN n ELSE 0)
  BY <1>1, ProviderCounts, ZenonT(60)
<1> QED BY <1>1, <1>2 DEF AddRegistrations, s

LEMMA ClearCounts ==
    ASSUME NEW r \in Registrations, NEW c \in Clients
    PROVE  ClearMarks(r, c).count = r.count /\ ClearMarks(r, c).providers = r.providers
BY DEF ClearMarks, Registrations

LEMMA RemoveCounts ==
    ASSUME NEW r \in Registrations, NEW c \in Clients,
           NEW p \in Providers \cup {NoProvider}, NEW n \in Nat, n = 0 \/ r.count > n
    PROVE  /\ RemoveRegistrations(r, c, p, n).count = r.count - n
           /\ \A q \in Providers :
                 RemoveRegistrations(r, c, p, n).providers[q] =
                    Minus(r.providers[q], IF q = p THEN n ELSE 0)
<1>0. r.count \in Nat /\ \A q \in Providers : r.providers[q] \in Nat
  BY DEF Registrations
<1>1. CASE n = 0
  BY <1>0, <1>1 DEF RemoveRegistrations, Minus
<1>2. CASE n # 0
  <2> DEFINE cleared == ClearMarks(r, c)
             s == [cleared EXCEPT !.count = @ - n]
  <2>1. RemoveRegistrations(r, c, p, n) = TakeFromProvider(s, p, n)
    BY <1>0, <1>2 DEF RemoveRegistrations
  <2>2. cleared \in Registrations /\ cleared.count = r.count
        /\ cleared.providers = r.providers
    BY ClearMarksType, ClearCounts
  <2> HIDE DEF cleared
  <2>3. s \in Registrations /\ s.count = r.count - n /\ s.providers = r.providers
    BY <1>0, <1>2, <2>2 DEF Registrations
  <2> HIDE DEF s
  <2>4. /\ TakeFromProvider(s, p, n).count = s.count
        /\ \A q \in Providers : TakeFromProvider(s, p, n).providers[q] =
              Minus(s.providers[q], IF q = p THEN n ELSE 0)
    BY <2>3, ProviderCounts, ZenonT(60)
  <2> QED BY <2>1, <2>3, <2>4
<1> QED BY <1>1, <1>2

(* A removal takes exactly the client's registrations out; when they are   *)
(* the last ones, the reset registration holds nothing of the others.      *)
LEMMA RemoveCounted ==
    ASSUME NEW r \in Registrations, NEW c \in Clients, NEW n \in Nat,
           NEW p \in Providers \cup {NoProvider}, NEW k \in Nat,
           NEW rest, NEW through, Others(rest, through), Counts(r, n + k, p, rest, through)
    PROVE  Counts(RemoveRegistrations(r, c, p, n), k, p, rest, through)
<1> DEFINE s == RemoveRegistrations(r, c, p, n)
<1>0. /\ rest \in Nat /\ r.count = rest + (n + k)
      /\ \A q \in Providers :
            /\ through[q] \in Nat /\ through[q] <= rest
            /\ r.providers[q] = through[q] + (IF q = p THEN n + k ELSE 0)
  BY DEF Others, Counts
<1>1. CASE n # 0 /\ r.count <= n
  <2>1. rest = 0 /\ k = 0
    BY <1>0, <1>1
  <2>2. s.count = 0 /\ \A q \in Providers : s.providers[q] = 0
    <3>1. s = NoRegistration
      BY <1>1 DEF RemoveRegistrations
    <3> QED BY <3>1 DEF NoRegistration
  <2>3. \A q \in Providers : through[q] = 0
    BY <1>0, <2>1
  <2> HIDE DEF s
  <2> QED BY <2>1, <2>2, <2>3 DEF Counts, s
<1>2. CASE n = 0 \/ r.count > n
  <2>1. /\ s.count = r.count - n
        /\ \A q \in Providers :
              s.providers[q] = Minus(r.providers[q], IF q = p THEN n ELSE 0)
    BY <1>2, RemoveCounts
  <2> HIDE DEF s
  <2>2. s.count = rest + k
    BY <1>0, <2>1
  <2>3. ASSUME NEW q \in Providers
        PROVE  s.providers[q] = through[q] + (IF q = p THEN k ELSE 0)
    BY <1>0, <2>1 DEF Minus
  <2> QED BY <2>2, <2>3 DEF Counts, s
<1>3. r.count \in Nat
  BY <1>0
<1> QED BY <1>1, <1>2, <1>3

LEMMA AddCounted ==
    ASSUME NEW r \in Registrations, NEW n \in Nat, NEW k \in Nat,
           NEW p \in Providers \cup {NoProvider},
           NEW rest, NEW through, Others(rest, through), Counts(r, k, p, rest, through)
    PROVE  Counts(AddRegistrations(r, p, n), k + n, p, rest, through)
<1> DEFINE s == AddRegistrations(r, p, n)
<1>0. /\ rest \in Nat /\ r.count = rest + k
      /\ \A q \in Providers :
            /\ through[q] \in Nat
            /\ r.providers[q] = through[q] + (IF q = p THEN k ELSE 0)
  BY DEF Others, Counts
<1>1. s.count = r.count + n
  BY DEF AddRegistrations, AddToProvider, Registrations
<1>2. \A q \in Providers :
         s.providers[q] = r.providers[q] + (IF q = p THEN n ELSE 0)
  BY AddCounts
<1> HIDE DEF s
<1>3. s.count = rest + (k + n)
  BY <1>0, <1>1
<1>4. ASSUME NEW q \in Providers
      PROVE  s.providers[q] = through[q] + (IF q = p THEN k + n ELSE 0)
  BY <1>0, <1>2
<1> QED BY <1>3, <1>4 DEF Counts, s

(* A client without registrations counts nothing through any provider.     *)
LEMMA NothingCounted ==
    ASSUME NEW r, NEW p, NEW q, NEW rest, NEW through, Others(rest, through),
           Counts(r, 0, p, rest, through)
    PROVE  Counts(r, 0, q, rest, through)
BY DEF Counts, Others

LEMMA ClearCounted ==
    ASSUME NEW r \in Registrations, NEW c \in Clients, NEW n, NEW p, NEW rest, NEW through,
           Counts(r, n, p, rest, through)
    PROVE  Counts(ClearMarks(r, c), n, p, rest, through)
BY ClearCounts DEF Counts

(* A re-registration turns old registrations through oldP into new ones    *)
(* through newP.  The k copies that move are counted as if another client  *)
(* held them while they belong to neither provider.                        *)
LEMMA RebindCounted ==
    ASSUME NEW r \in Registrations, NEW c \in Clients, NEW old \in Nat, NEW new \in Nat,
           NEW oldP \in Providers \cup {NoProvider}, NEW newP \in Providers \cup {NoProvider},
           NEW rest, NEW through, Others(rest, through), Counts(r, old, oldP, rest, through)
    PROVE  Counts(Rebind(r, c, old, new, oldP, newP), new, newP, rest, through)
<1> DEFINE common  == Minimum(old, new)
           moved   == oldP # newP /\ common > 0
           left    == IF moved THEN TakeFromProvider(r, oldP, common) ELSE r
           trimmed == IF old > new THEN RemoveRegistrations(left, c, oldP, old - new) ELSE left
           grown   == IF new > old THEN AddRegistrations(trimmed, newP, new - old) ELSE trimmed
           cleared == IF new > 0 THEN ClearMarks(grown, c) ELSE grown
           result  == IF moved THEN AddToProvider(cleared, newP, common) ELSE cleared
           k       == IF moved THEN common ELSE 0
<1>0. /\ Rebind(r, c, old, new, oldP, newP) = result
      /\ common \in Nat /\ common <= old /\ common <= new /\ (common = old \/ common = new)
  BY DEF Rebind, Minimum
<1> HIDE DEF common
<1>1. /\ k \in Nat /\ old - k \in Nat /\ new - k \in Nat /\ rest + k \in Nat
      /\ oldP # newP => old - k = 0 \/ new - k = 0
      /\ moved => k = common
      /\ ~moved => k = 0
  BY <1>0 DEF Others
<1>2. Others(rest + k, through)
  BY <1>1 DEF Others
<1>3. left \in Registrations /\ Counts(left, old - k, oldP, rest + k, through)
  <2>1. CASE moved
    <3>1. left = TakeFromProvider(r, oldP, common)
      BY <2>1
    <3>2. /\ left \in Registrations /\ left.count = r.count
          /\ \A q \in Providers : left.providers[q] =
                Minus(r.providers[q], IF q = oldP THEN common ELSE 0)
      <4>1. /\ TakeFromProvider(r, oldP, common) \in Registrations
            /\ TakeFromProvider(r, oldP, common).count = r.count
            /\ \A q \in Providers : TakeFromProvider(r, oldP, common).providers[q] =
                  Minus(r.providers[q], IF q = oldP THEN common ELSE 0)
        <5>1. TakeFromProvider(r, oldP, common) \in Registrations
          BY <1>0, ProvidersType
        <5> QED BY <1>0, <5>1, ProviderCounts
      <4> HIDE DEF left
      <4> QED BY <3>1, <4>1
    <3> HIDE DEF left
    <3> QED BY <1>0, <1>1, <2>1, <3>2 DEF Counts, Others, Minus
  <2>2. CASE ~moved
    BY <1>1, <2>2 DEF Counts, Others
  <2> QED BY <2>1, <2>2
<1> HIDE DEF left, k, moved
<1>4. trimmed \in Registrations
      /\ Counts(trimmed, IF old > new THEN new - k ELSE old - k, oldP, rest + k, through)
  <2>1. CASE old > new
    <3>1. old - new \in Nat /\ (old - new) + (new - k) = old - k
      BY <1>1, <2>1
    <3> QED BY <1>1, <1>2, <1>3, <2>1, <3>1, RemoveCounted, RemoveRegistrationsType
  <2>2. CASE ~(old > new)
    BY <1>3, <2>2
  <2> QED BY <2>1, <2>2
<1> HIDE DEF trimmed
<1>5. Counts(trimmed, IF old > new THEN new - k ELSE old - k, newP, rest + k, through)
  <2>1. CASE oldP = newP
    BY <1>4, <2>1
  <2>2. CASE oldP # newP
    <3>1. (IF old > new THEN new - k ELSE old - k) = 0
      BY <1>1, <2>2
    <3> QED BY <1>2, <1>4, <3>1, NothingCounted
  <2> QED BY <2>1, <2>2
<1>6. grown \in Registrations /\ Counts(grown, new - k, newP, rest + k, through)
  <2>1. CASE new > old
    <3>1. new - old \in Nat /\ (old - k) + (new - old) = new - k /\ ~(old > new)
      BY <1>1, <2>1
    <3> QED BY <1>1, <1>2, <1>4, <1>5, <2>1, <3>1, AddCounted, AddRegistrationsType
  <2>2. CASE ~(new > old)
    <3>1. (IF old > new THEN new - k ELSE old - k) = new - k
      BY <1>1, <2>2
    <3> QED BY <1>4, <1>5, <2>2, <3>1
  <2> QED BY <2>1, <2>2
<1> HIDE DEF grown
<1>7. cleared \in Registrations /\ Counts(cleared, new - k, newP, rest + k, through)
  BY <1>6, ClearMarksType, ClearCounted
<1> HIDE DEF cleared
<1>8. Counts(result, new, newP, rest, through)
  <2>1. CASE moved
    <3>1. /\ result.count = cleared.count
          /\ \A q \in Providers : result.providers[q] =
                cleared.providers[q] + (IF q = newP THEN common ELSE 0)
      BY <1>0, <1>7, <2>1, ProviderCounts
    <3> HIDE DEF result
    <3> QED BY <1>0, <1>1, <1>7, <2>1, <3>1 DEF Counts, Others
  <2>2. CASE ~moved
    BY <1>1, <1>7, <2>2 DEF Counts, Others
  <2> QED BY <2>1, <2>2
<1> QED BY <1>0, <1>8

-----------------------------------------------------------------------------
(* The counts of every model.  Matches says of one registration what       *)
(* CountsMatchClients says of all; Rest and Through are what the clients   *)
(* other than c hold.                                                      *)
Matches(r, b, prov, m) ==
    /\ r.count = Held(b, m, Clients)
    /\ \A p \in Providers : r.providers[p] = Held(b, m, ServedBy(prov, p))

Rest(b, m, c) == Held(b, m, Clients \ {c})
Through(b, prov, m, c) == [q \in Providers |-> Held(b, m, ServedBy(prov, q) \ {c})]

LEMMA OthersRest ==
    ASSUME NEW b, NEW prov, NEW m, NEW c
    PROVE  Others(Rest(b, m, c), Through(b, prov, m, c))
<1>1. Clients \ {c} \in SUBSET Clients
  OBVIOUS
<1>2. \A q \in Providers : ServedBy(prov, q) \ {c} \in SUBSET (Clients \ {c})
  BY DEF ServedBy
<1>3. Rest(b, m, c) \in Nat
  BY <1>1, CopiesFinite DEF Rest
<1>4. ASSUME NEW q \in Providers
      PROVE  /\ Held(b, m, ServedBy(prov, q) \ {c}) \in Nat
             /\ Held(b, m, ServedBy(prov, q) \ {c}) <= Rest(b, m, c)
  <2> DEFINE S == Clients \ {c}
             T == ServedBy(prov, q) \ {c}
  <2>1. S \in SUBSET Clients /\ T \in SUBSET S /\ T \in SUBSET Clients
    BY <1>2 DEF ServedBy
  <2> HIDE DEF S, T
  <2>2. Held(b, m, T) \in Nat /\ Held(b, m, T) <= Held(b, m, S)
    BY <2>1, CopiesFinite, HeldMonotone
  <2> QED BY <2>2 DEF S, T, Rest
<1> QED BY <1>3, <1>4 DEF Others, Through

LEMMA MatchesSplit ==
    ASSUME NEW b \in [Clients -> [Models -> 0 .. MaxCopies]], NEW prov, NEW r,
           NEW m \in Models, NEW c \in Clients
    PROVE  Matches(r, b, prov, m) <=>
              Counts(r, b[c][m], prov[c], Rest(b, m, c), Through(b, prov, m, c))
<1>1. Held(b, m, Clients) = Rest(b, m, c) + b[c][m]
  <2>1. Clients \in SUBSET Clients
    OBVIOUS
  <2> QED BY <2>1, HeldSplit DEF Rest
<1>2. ASSUME NEW q \in Providers
      PROVE  Held(b, m, ServedBy(prov, q)) =
                Through(b, prov, m, c)[q] + (IF q = prov[c] THEN b[c][m] ELSE 0)
  <2> DEFINE S == ServedBy(prov, q)
  <2>1. S \in SUBSET Clients /\ Held(b, m, S \ {c}) \in Nat
    <3>1. S \in SUBSET Clients /\ S \ {c} \in SUBSET Clients
      BY DEF ServedBy
    <3> QED BY <3>1, CopiesFinite
  <2>2. Through(b, prov, m, c)[q] = Held(b, m, S \ {c})
    BY DEF Through
  <2>3. c \in S <=> q = prov[c]
    BY DEF ServedBy
  <2> HIDE DEF S
  <2>4. CASE c \in S
    <3>1. Held(b, m, S) = Held(b, m, S \ {c}) + b[c][m]
      BY <2>1, <2>4, HeldSplit
    <3> QED BY <2>2, <2>3, <2>4, <3>1 DEF S
  <2>5. CASE c \notin S
    <3>1. S \ {c} = S
      BY <2>5
    <3>2. Held(b, m, S \ {c}) = Held(b, m, S)
      BY <3>1, Zenon
    <3>3. Through(b, prov, m, c)[q] \in Nat /\ Held(b, m, S) = Through(b, prov, m, c)[q]
      BY <2>1, <2>2, <3>2
    <3>4. (IF q = prov[c] THEN b[c][m] ELSE 0) = 0
      BY <2>3, <2>5
    <3> QED BY <3>3, <3>4 DEF S
  <2> QED BY <2>4, <2>5
<1> QED BY <1>1, <1>2 DEF Matches, Counts

LEMMA OthersUnchanged ==
    ASSUME NEW b, NEW d, NEW prov, NEW prow, NEW m, NEW c,
           \A e \in Clients \ {c} : b[e] = d[e] /\ prov[e] = prow[e]
    PROVE  /\ Rest(b, m, c) = Rest(d, m, c)
           /\ Through(b, prov, m, c) = Through(d, prow, m, c)
<1>1. Rest(b, m, c) = Rest(d, m, c)
  BY HeldSame DEF Rest
<1>2. ASSUME NEW q \in Providers
      PROVE  Held(b, m, ServedBy(prov, q) \ {c}) = Held(d, m, ServedBy(prow, q) \ {c})
  <2> DEFINE S == ServedBy(prov, q) \ {c}
  <2>1. S = ServedBy(prow, q) \ {c} /\ \A e \in S : b[e][m] = d[e][m]
    BY DEF ServedBy
  <2> HIDE DEF S
  <2>2. Held(b, m, S) = Held(d, m, S)
    BY <2>1, HeldSame
  <2> QED BY <2>1, <2>2 DEF S
<1> QED BY <1>1, <1>2 DEF Through

(* One client's counts change, the others' stay: the step keeps the counts *)
(* of a model when it turns the client's old ones into the new ones.       *)
LEMMA MatchesStep ==
    ASSUME TypeOK, bound' \in [Clients -> [Models -> 0 .. MaxCopies]],
           NEW c \in Clients, NEW m \in Models,
           \A e \in Clients \ {c} : bound[e] = bound'[e] /\ provider[e] = provider'[e],
           Matches(models[m], bound, provider, m),
           \A rest, through :
              Others(rest, through) /\ Counts(models[m], bound[c][m], provider[c], rest, through)
                 => Counts(models'[m], bound'[c][m], provider'[c], rest, through)
    PROVE  Matches(models'[m], bound', provider', m)
<1> DEFINE rest == Rest(bound, m, c)
           through == Through(bound, provider, m, c)
<1>1. rest = Rest(bound', m, c) /\ through = Through(bound', provider', m, c)
  BY OthersUnchanged
<1>2. Counts(models[m], bound[c][m], provider[c], rest, through)
  BY MatchesSplit DEF TypeOK
<1>3. Others(rest, through)
  BY OthersRest
<1> HIDE DEF rest, through
<1>4. Counts(models'[m], bound'[c][m], provider'[c], rest, through)
  BY <1>2, <1>3
<1>5. Counts(models'[m], bound'[c][m], provider'[c], Rest(bound', m, c), Through(bound', provider', m, c))
  BY <1>1, <1>4
<1> QED BY <1>5, MatchesSplit

LEMMA CountsInit == Init => CountsMatchClients
<1> SUFFICES ASSUME Init, NEW m \in Models PROVE Matches(models[m], bound, provider, m)
  BY DEF CountsMatchClients, Matches
<1>1. \A S \in SUBSET Clients : Held(bound, m, S) = 0
  <2> SUFFICES ASSUME NEW S \in SUBSET Clients PROVE Held(bound, m, S) = 0
    OBVIOUS
  <2>1. Copies(bound, m, S) = {}
    BY RegistryAssumption DEF Init, Copies, Unbound
  <2> QED BY <2>1, FS_EmptySet DEF Held
<1>2. \A p : ServedBy(provider, p) \in SUBSET Clients
  BY DEF ServedBy
<1> QED BY <1>1, <1>2 DEF Init, NoRegistration, Matches

LEMMA CountsStep == TypeOK /\ CountsMatchClients /\ [Next]_vars => CountsMatchClients'
<1> SUFFICES ASSUME TypeOK, CountsMatchClients, [Next]_vars, NEW m \in Models
             PROVE  Matches(models'[m], bound', provider', m)
  BY DEF CountsMatchClients, Matches
<1>0. /\ bound' \in [Clients -> [Models -> 0 .. MaxCopies]]
      /\ Matches(models[m], bound, provider, m)
      /\ models[m] \in Registrations
      /\ \A c \in Clients : /\ bound[c][m] \in Nat
                             /\ provider[c] \in Providers \cup {NoProvider}
  BY TypeStep, RegistryAssumption DEF TypeOK, CountsMatchClients, Matches
<1>1. ASSUME NEW c \in Clients, UnregisterClient(c)
      PROVE  Matches(models'[m], bound', provider', m)
  <2>1. /\ models'[m] = RemoveRegistrations(models[m], c, provider[c], bound[c][m])
        /\ bound'[c][m] = 0
        /\ \A e \in Clients \ {c} : bound[e] = bound'[e] /\ provider[e] = provider'[e]
    BY <1>1 DEF UnregisterClient, TypeOK, Unbound
  <2>2. ASSUME NEW rest, NEW through, Others(rest, through),
               Counts(models[m], bound[c][m], provider[c], rest, through)
        PROVE  Counts(models'[m], bound'[c][m], provider'[c], rest, through)
    <3> DEFINE n == bound[c][m]
    <3>1. n \in Nat /\ n + 0 = n
      BY <1>0
    <3> HIDE DEF n
    <3>2. Counts(models[m], n + 0, provider[c], rest, through)
      BY <2>2, <3>1 DEF n
    <3>3. Counts(RemoveRegistrations(models[m], c, provider[c], n), 0, provider[c], rest, through)
      BY <1>0, <2>2, <3>1, <3>2, RemoveCounted
    <3>4. Counts(models'[m], 0, provider[c], rest, through)
      BY <2>1, <3>3 DEF n
    <3> QED BY <2>1, <2>2, <3>4, NothingCounted
  <2> QED BY <1>0, <2>1, <2>2, MatchesStep
<1>2. ASSUME NEW c \in Clients, NEW p \in Providers \cup {NoProvider},
             NEW list \in [Models -> 0 .. MaxCopies], RegisterClient(c, p, list)
      PROVE  Matches(models'[m], bound', provider', m)
  <2>1. /\ bound'[c][m] = list[m] /\ list[m] \in Nat /\ provider'[c] = p
        /\ \A e \in Clients \ {c} : bound[e] = bound'[e] /\ provider[e] = provider'[e]
    BY <1>2, RegistryAssumption DEF RegisterClient, TypeOK
  <2>2. ASSUME NEW rest, NEW through, Others(rest, through),
               Counts(models[m], bound[c][m], provider[c], rest, through)
        PROVE  Counts(models'[m], list[m], p, rest, through)
    <3>1. CASE Registered(c)
      <4>1. models'[m] = Rebind(models[m], c, bound[c][m], list[m], provider[c], p)
        BY <1>2, <3>1 DEF RegisterClient
      <4>2. Counts(Rebind(models[m], c, bound[c][m], list[m], provider[c], p),
                   list[m], p, rest, through)
        BY <1>0, <2>1, <2>2, RebindCounted
      <4> QED BY <4>1, <4>2
    <3>2. CASE ~Registered(c)
      <4>1. models'[m] = AddRegistrations(models[m], p, list[m])
        BY <1>2, <3>2 DEF RegisterClient
      <4>2. bound[c][m] = 0
        BY <3>2 DEF Registered, Unbound
      <4>3. Counts(models[m], 0, p, rest, through)
        BY <2>2, <4>2, NothingCounted
      <4>4. Counts(AddRegistrations(models[m], p, list[m]), 0 + list[m], p, rest, through)
        BY <1>0, <2>1, <2>2, <4>3, AddCounted
      <4>5. 0 + list[m] = list[m]
        BY <2>1
      <4> QED BY <4>1, <4>4, <4>5
    <3> QED BY <3>1, <3>2
  <2> QED BY <1>0, <2>1, <2>2, MatchesStep
<1>3. ASSUME UNCHANGED <<bound, provider>>,
             models'[m].count = models[m].count /\ models'[m].providers = models[m].providers
      PROVE  Matches(models'[m], bound', provider', m)
  BY <1>0, <1>3 DEF Matches
<1>4. ASSUME NEW c \in Clients, NEW n \in Models, MarkStep(c, n)
      PROVE  models'[m].count = models[m].count /\ models'[m].providers = models[m].providers
  <2>0. models \in [Models -> Registrations]
    BY DEF TypeOK
  <2>1. ASSUME NEW reason, models' = [models EXCEPT ![n].suspended[c] = reason]
        PROVE  models'[m].count = models[m].count /\ models'[m].providers = models[m].providers
    BY <2>0, <2>1 DEF Registrations
  <2>2. ASSUME NEW mark, models' = [models EXCEPT ![n].quotaAt[c] = mark]
        PROVE  models'[m].count = models[m].count /\ models'[m].providers = models[m].providers
    BY <2>0, <2>2 DEF Registrations
  <2> QED BY <1>4, <2>1, <2>2 DEF MarkStep, SetModelQuotaExceeded, ClearModelQuotaExceeded,
             SuspendClientModel, ResumeClientModel
<1>5. CASE CleanupExpiredQuotas
  <2>1. models'[m].count = models[m].count /\ models'[m].providers = models[m].providers
    BY <1>0, <1>5 DEF CleanupExpiredQuotas, Registrations
  <2> QED BY <1>3, <1>5, <2>1 DEF CleanupExpiredQuotas
<1>6. CASE GetAvailableModels \/ Tick \/ UNCHANGED vars
  BY <1>3, <1>6 DEF GetAvailableModels, Tick, vars
<1>7. ASSUME NEW c \in Clients, NEW n \in Models, MarkStep(c, n)
      PROVE  Matches(models'[m], bound', provider', m)
  BY <1>3, <1>4, <1>7, MarkStepEffect
<1> QED BY <1>1, <1>2, <1>5, <1>6, <1>7 DEF Next, MarkStep

(* No sequence of registrations, re-registrations and removals lets the    *)
(* reference count of a model, or its count for a provider, drift from     *)
(* what the clients hold, although every method works by differences.      *)
THEOREM CountsMatchClientsAlways == Spec => []CountsMatchClients
<1> DEFINE Inv == TypeOK /\ CountsMatchClients
<1>1. Init => Inv
  BY TypeInit, CountsInit
<1>2. Inv /\ [Next]_vars => Inv'
  BY TypeStep, CountsStep
<1>3. Inv => CountsMatchClients
  OBVIOUS
<1> QED BY <1>1, <1>2, <1>3, PTL DEF Spec

-----------------------------------------------------------------------------
(* A model whose clients list it once, all of them suspended for a reason  *)
(* other than quota, has no more registrations than suspended clients.     *)
LEMMA SuspendedCoverCount ==
    ASSUME NEW m \in Models, NEW S \in SUBSET Clients,
           \A c \in Clients : bound[c][m] <= 1,
           \A c \in Clients : bound[c][m] > 0 => c \in S,
           bound \in [Clients -> [Models -> 0 .. MaxCopies]]
    PROVE  Held(bound, m, Clients) <= Cardinality(S)
<1>1. IsFiniteSet(S)
  BY RegistryAssumption, FS_Subset
<1>2. IsFiniteSet(S \X {1}) /\ Cardinality(S \X {1}) = Cardinality(S)
  <2> DEFINE O == {1}
  <2>1. IsFiniteSet(O) /\ Cardinality(O) = 1
    BY FS_Singleton
  <2> HIDE DEF O
  <2>2. IsFiniteSet(S \X O) /\ Cardinality(S \X O) = Cardinality(S) * Cardinality(O)
    BY <1>1, <2>1, FS_Product
  <2>3. Cardinality(S) \in Nat
    BY <1>1, FS_CardinalityType
  <2> QED BY <2>1, <2>2, <2>3 DEF O
<1>3. Copies(bound, m, Clients) \in SUBSET (S \X {1})
  <2> SUFFICES ASSUME NEW k \in Copies(bound, m, Clients) PROVE k \in S \X {1}
    OBVIOUS
  <2>1. /\ k \in Clients \X (1 .. MaxCopies)
        /\ k[1] \in Clients /\ k[2] \in 1 .. MaxCopies /\ k[2] <= bound[k[1]][m]
    BY DEF Copies
  <2>2. bound[k[1]][m] \in Nat /\ k[2] \in Nat /\ k[2] >= 1
    BY <2>1, RegistryAssumption
  <2>3. k[1] \in S /\ k[2] = 1
    BY <2>1, <2>2
  <2> QED BY <2>1, <2>3
<1> DEFINE T == S \X {1}
<1> HIDE DEF T
<1>4. Cardinality(Copies(bound, m, Clients)) <= Cardinality(T)
  BY <1>2, <1>3, FS_Subset DEF T
<1> QED BY <1>2, <1>4 DEF Held, T

(* A listed model has a client that holds it and is not suspended for      *)
(* another reason than quota, as long as no client lists it twice: with    *)
(* all its clients suspended the count that Listed subtracts them from is  *)
(* used up, because the count is exactly what the clients hold.            *)
THEOREM ListSoundAlways == Spec => []ListSound
<1>1. TypeOK /\ CountsMatchClients => ListSound
  <2> SUFFICES ASSUME TypeOK, CountsMatchClients, NEW m \in AvailableModels(now),
                      \A c \in Clients : bound[c][m] <= 1,
                      \A c \in Clients : bound[c][m] > 0 => models[m].suspended[c] = "other"
               PROVE  FALSE
    BY DEF ListSound
  <2> DEFINE other == SuspendedFor(models[m], "other")
             over == OverQuota(models[m], now)
  <2>1. m \in Models /\ Listed(models[m], now)
    BY DEF AvailableModels
  <2>2. other \in SUBSET Clients /\ over \in SUBSET Clients
    BY DEF SuspendedFor, OverQuota
  <2>3. Cardinality(other) \in Nat /\ Cardinality(over) \in Nat
    BY <2>2, RegistryAssumption, FS_Subset, FS_CardinalityType
  <2>4. \A c \in Clients : bound[c][m] > 0 => c \in other
    BY DEF SuspendedFor
  <2>5. Listed(models[m], now) => /\ models[m].count > 0
                                 /\ \/ models[m].count - Cardinality(over) - Cardinality(other) > 0
                                    \/ Cardinality(other) = 0
    BY DEF Listed
  <2> HIDE DEF other, over
  <2>6. models[m].count <= Cardinality(other)
    <3>1. Held(bound, m, Clients) <= Cardinality(other)
      BY <2>1, <2>2, <2>4, SuspendedCoverCount DEF TypeOK
    <3> QED BY <2>1, <3>1 DEF CountsMatchClients
  <2>7. models[m].count \in Nat
    BY <2>1 DEF TypeOK, Registrations
  <2> QED BY <2>1, <2>3, <2>5, <2>6, <2>7
<1> QED BY <1>1, RegistryTypeCorrect, CountsMatchClientsAlways, PTL
=============================================================================
