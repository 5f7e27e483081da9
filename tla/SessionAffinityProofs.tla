----------------------- MODULE SessionAffinityProofs -----------------------
(***************************************************************************)
(* Sessions stay with their credentials, for any credentials, keys, number *)
(* of concurrent picks and time to live.                                   *)
(***************************************************************************)
EXTENDS SessionAffinity, TLAPS

(* Nothing has read a clock that is still to come.                         *)
ClocksOK ==
    /\ sweep <= now
    /\ \A p \in Picks : InFlight(p) => pick[p].clock <= now

(* A pick that is alone meets no other.                                    *)
Apart(p) ==
    /\ InFlight(p)
    /\ \A q \in Picks \ {p} : InFlight(q) => ~Meet(pick[p].key, pick[q].key)

(* A key nobody picked for has no binding.                                 *)
UnusedOK == \A k \in Keys \ used : entries[k] = NoBinding

(* A pick holds what its place says.                                       *)
Holds(p) ==
    InFlight(p) =>
        /\ pick[p].at \in {"inherit", "check", "drop"} => Fallback[pick[p].key] # NoKey
        /\ pick[p].at \in {"check", "drop"} => pick[p].found # NoBinding
        /\ pick[p].at = "bind" => pick[p].choice \in Auths

(* A standing promise is kept by the cache, unless a pick for its key is   *)
(* under way that will void it: one that has met another, or that is not   *)
(* offered the credential.                                                 *)
Covers(b, w) == b.auth = w.auth /\ b.expires >= w.expires

Voids(q, k) ==
    /\ InFlight(q) /\ pick[q].key = k
    /\ q \notin alone \/ promise[k].auth \notin pick[q].offered

Kept(k) ==
    Standing(promise[k])
    => Covers(entries[k], promise[k]) \/ \E q \in Picks : Voids(q, k)

(* What a pick has read of its fallback key is what that key was promised, *)
(* unless a pick for the fallback key is under way.                        *)
Peeked(p) ==
    LET f == Fallback[pick[p].key]
    IN /\ InFlight(p) /\ pick[p].at \in {"check", "drop"}
       /\ Standing(promise[f])
       => \/ pick[p].at = "check" /\ Covers(pick[p].found, promise[f])
          \/ \E r \in Picks : InFlight(r) /\ pick[r].key = f

(* A pick that is alone and is past its lookup cannot use the binding of   *)
(* its key, if there is one.                                               *)
LookedUp(p) ==
    pick[p].at # "lookup" /\ Standing(entries[pick[p].key])
    => entries[pick[p].key].auth \notin pick[p].offered

(* What a pick that is alone has read of its fallback key is still there,  *)
(* or gone.                                                                *)
Dropping(p) ==
    LET f == Fallback[pick[p].key]
    IN /\ pick[p].at = "check" => entries[f] \in {pick[p].found, NoBinding}
       /\ pick[p].at = "drop"  => ~Standing(entries[f])

(* The second turn is on its way to the credential of the first.           *)
Inheriting(p) ==
    LET k == pick[p].key
        f == Fallback[k]
    IN /\ k \notin used /\ f # NoKey
       /\ Standing(promise[f]) /\ promise[f].auth \in pick[p].offered
       => \/ pick[p].at \in {"lookup", "inherit", "check"}
          \/ pick[p].at = "bind" /\ pick[p].choice = promise[f].auth

IInv ==
    /\ TypeOK /\ ClocksOK /\ UnusedOK
    /\ \A p \in Picks : Holds(p) /\ Peeked(p)
    /\ \A k \in Keys : Kept(k)
    /\ \A p \in alone : Apart(p) /\ LookedUp(p) /\ Dropping(p) /\ Inheriting(p)

-----------------------------------------------------------------------------
LEMMA BindingType ==
    ASSUME NEW b \in Bindings
    PROVE  /\ b # NoBinding => b.auth \in Auths /\ b.expires \in Nat
           /\ b.expires \in Int
           /\ b.auth \in Auths \cup {NoAuth}
BY DEF Bindings, NoBinding, Never

LEMMA RunningNotIdle ==
    ASSUME NEW r \in Running
    PROVE  r # Idle /\ r.at # "idle"
BY DEF Running, Idle, Stages

LEMMA InFlightType ==
    ASSUME TypeOK, NEW p \in Picks
    PROVE  InFlight(p) <=> pick[p] \in Running
BY RunningNotIdle DEF TypeOK, InFlight

LEMMA InitIInv == Init => IInv
<1> SUFFICES ASSUME Init PROVE IInv
  OBVIOUS
<1>1. NoBinding \in Bindings
  BY DEF Bindings
<1>2. TypeOK
  BY <1>1 DEF Init, TypeOK, Never
<1>3. \A p \in Picks : ~InFlight(p)
  BY DEF Init, InFlight
<1>4. \A k \in Keys : promise[k] = NoBinding /\ entries[k] = NoBinding
  BY DEF Init
<1>5. ClocksOK /\ UnusedOK
  BY <1>3, <1>4 DEF ClocksOK, UnusedOK, Init, Never
<1>6. \A k \in Keys : Kept(k)
  BY <1>4 DEF Kept, Standing
<1>7. \A p \in Picks : Holds(p) /\ Peeked(p)
  BY <1>3 DEF Holds, Peeked
<1>8. alone = {}
  BY DEF Init
<1> QED BY <1>2, <1>5, <1>6, <1>7, <1>8 DEF IInv

-----------------------------------------------------------------------------
(* Types.                                                                  *)
LEMMA ReturnType ==
    ASSUME TypeOK, NEW p \in Picks, InFlight(p), NEW a \in Auths, Return(p, a)
    PROVE  /\ pick' \in [Picks -> Running \cup {Idle}]
           /\ promise' \in [Keys -> Bindings]
           /\ used' \in SUBSET Keys
           /\ alone' \in SUBSET Picks
<1>1. pick[p].key \in Keys /\ pick[p].clock \in Nat
  BY InFlightType DEF Running
<1>2. [auth |-> a, expires |-> pick[p].clock + TTL] \in Bindings
  BY <1>1, AffinityAssumption DEF Bindings
<1>3. NoBinding \in Bindings
  BY DEF Bindings
<1> QED BY <1>1, <1>2, <1>3 DEF Return, TypeOK

LEMMA MoveType ==
    ASSUME TypeOK, NEW p \in Picks, InFlight(p), NEW x \in Stages,
           NEW b \in Bindings, NEW a \in Auths \cup {NoAuth}
    PROVE  /\ [pick EXCEPT ![p].at = x] \in [Picks -> Running \cup {Idle}]
           /\ [pick EXCEPT ![p].at = x, ![p].found = b] \in [Picks -> Running \cup {Idle}]
           /\ [pick EXCEPT ![p].at = x, ![p].choice = a] \in [Picks -> Running \cup {Idle}]
<1>1. pick[p] \in Running
  BY InFlightType
<1>2. /\ [pick[p] EXCEPT !.at = x] \in Running
      /\ [pick[p] EXCEPT !.at = x, !.found = b] \in Running
      /\ [pick[p] EXCEPT !.at = x, !.choice = a] \in Running
  BY <1>1 DEF Running
<1> QED BY <1>2 DEF TypeOK

LEMMA NextType == IInv /\ [Next]_vars => TypeOK'
<1> SUFFICES ASSUME IInv, [Next]_vars PROVE TypeOK'
  OBVIOUS
<1> USE DEF history
<1>0. TypeOK /\ NoBinding \in Bindings
  BY DEF IInv, Bindings
<1>1. ASSUME NEW p \in Picks, NEW k \in Keys, NEW o \in SUBSET Auths, Begin(p, k, o)
      PROVE  TypeOK'
  <2>1. [ at |-> "lookup", key |-> k, offered |-> o, clock |-> now,
          found |-> NoBinding, choice |-> NoAuth ] \in Running
    BY <1>0 DEF Running, Stages, TypeOK
  <2>2. alone' \subseteq Picks
    BY <1>0, <1>1 DEF Begin, TypeOK
  <2> QED BY <1>0, <1>1, <2>1, <2>2 DEF Begin, TypeOK
<1>2. ASSUME NEW p \in Picks, Hit(p) PROVE TypeOK'
  <2>1. InFlight(p) /\ pick[p] \in Running /\ "choose" \in Stages
    BY <1>0, <1>2, InFlightType DEF Hit, InFlight, Idle, Stages
  <2> DEFINE k == pick[p].key
  <2>2. k \in Keys /\ entries[k] \in Bindings /\ entries[k] # NoBinding /\ pick[p].clock \in Nat
    BY <1>0, <1>2, <2>1 DEF Hit, TypeOK, Running
  <2>3. Renewed(entries[k], pick[p].clock) \in Bindings
    BY <2>2, AffinityAssumption DEF Renewed, Bindings
  <2>4. entries' \in [Keys -> Bindings] /\ now' = now /\ sweep' = sweep
    BY <1>0, <1>2, <2>2, <2>3 DEF Hit, TypeOK
  <2>5. entries[k].auth \in Auths
    BY <2>2, BindingType
  <2>6. [pick EXCEPT ![p].at = "choose"] \in [Picks -> Running \cup {Idle}]
    BY <1>0, <2>1, MoveType
  <2>7. CASE Return(p, entries[k].auth)
    BY <1>0, <2>1, <2>4, <2>5, <2>7, ReturnType DEF TypeOK
  <2>8. CASE pick' = [pick EXCEPT ![p].at = "choose"] /\ UNCHANGED history
    BY <1>0, <2>4, <2>6, <2>8 DEF TypeOK
  <2> QED BY <1>2, <2>7, <2>8 DEF Hit
<1>3. ASSUME NEW p \in Picks, Miss(p) PROVE TypeOK'
  <2>1. InFlight(p) /\ {"choose", "inherit"} \subseteq Stages
    BY <1>0, <1>3 DEF Miss, InFlight, Idle, Stages
  <2>2. entries' \in [Keys -> Bindings]
    BY <1>0, <1>3 DEF Miss, TypeOK
  <2> QED BY <1>0, <1>3, <2>1, <2>2, MoveType DEF Miss, TypeOK
<1>4. ASSUME NEW p \in Picks, Peek(p) PROVE TypeOK'
  <2>1. InFlight(p) /\ {"choose", "check"} \subseteq Stages
    BY <1>0, <1>4 DEF Peek, InFlight, Idle, Stages
  <2>2. pick[p].key \in Keys /\ Fallback[pick[p].key] \in Keys
    BY <1>0, <1>4, <2>1, InFlightType, AffinityAssumption DEF Peek, Running, IInv, Holds
  <2>3. entries[Fallback[pick[p].key]] \in Bindings
    BY <1>0, <2>2 DEF TypeOK
  <2>4. /\ [pick EXCEPT ![p].at = "choose"] \in [Picks -> Running \cup {Idle}]
        /\ [pick EXCEPT ![p].at = "check", ![p].found = entries[Fallback[pick[p].key]]]
              \in [Picks -> Running \cup {Idle}]
    BY <1>0, <2>1, <2>3, MoveType
  <2>5. pick' \in [Picks -> Running \cup {Idle}]
    BY <1>4, <2>4 DEF Peek
  <2> QED BY <1>0, <1>4, <2>5 DEF Peek, TypeOK
<1>5. ASSUME NEW p \in Picks, Check(p) PROVE TypeOK'
  <2>1. InFlight(p) /\ {"choose", "drop", "bind"} \subseteq Stages
    BY <1>0, <1>5 DEF Check, InFlight, Idle, Stages
  <2>2. pick[p].found \in Bindings
    BY <1>0, <2>1, InFlightType DEF Running
  <2>3. pick[p].found.auth \in Auths \cup {NoAuth}
    BY <2>2, BindingType
  <2>4. /\ [pick EXCEPT ![p].at = "choose"] \in [Picks -> Running \cup {Idle}]
        /\ [pick EXCEPT ![p].at = "drop"] \in [Picks -> Running \cup {Idle}]
        /\ [pick EXCEPT ![p].at = "bind", ![p].choice = pick[p].found.auth]
              \in [Picks -> Running \cup {Idle}]
    BY <1>0, <2>1, <2>3, MoveType
  <2>5. pick' \in [Picks -> Running \cup {Idle}]
    BY <1>5, <2>4 DEF Check
  <2> QED BY <1>0, <1>5, <2>5 DEF Check, TypeOK
<1>6. ASSUME NEW p \in Picks, Drop(p) PROVE TypeOK'
  <2>1. InFlight(p) /\ "choose" \in Stages
    BY <1>0, <1>6 DEF Drop, InFlight, Idle, Stages
  <2>2. entries' \in [Keys -> Bindings]
    BY <1>0, <1>6 DEF Drop, TypeOK
  <2> QED BY <1>0, <1>6, <2>1, <2>2, MoveType DEF Drop, TypeOK
<1>7. ASSUME NEW p \in Picks, NEW a \in Auths, Choose(p, a) PROVE TypeOK'
  <2>1. InFlight(p) /\ "bind" \in Stages
    BY <1>0, <1>7 DEF Choose, InFlight, Idle, Stages
  <2> QED BY <1>0, <1>7, <2>1, MoveType DEF Choose, TypeOK
<1>8. ASSUME NEW p \in Picks, Bind(p) PROVE TypeOK'
  <2>1. InFlight(p) /\ pick[p].choice \in Auths
    BY <1>0, <1>8 DEF Bind, InFlight, Idle, IInv, Holds
  <2>2. [auth |-> pick[p].choice, expires |-> now + TTL] \in Bindings
    BY <1>0, <2>1, AffinityAssumption DEF Bindings, TypeOK
  <2>3. entries' \in [Keys -> Bindings]
    BY <1>0, <1>8, <2>2 DEF Bind, TypeOK
  <2> QED BY <1>0, <1>8, <2>1, <2>3, ReturnType DEF Bind, TypeOK
<1>9. CASE ReadClock
  BY <1>0, <1>9 DEF ReadClock, TypeOK
<1>10. CASE Sweep
  BY <1>0, <1>10 DEF Sweep, Swept, TypeOK
<1>11. CASE SetSelector
  BY <1>0, <1>11 DEF SetSelector, TypeOK
<1>12. CASE Tick
  BY <1>0, <1>12 DEF Tick, TypeOK
<1>13. CASE UNCHANGED vars
  BY <1>0, <1>13 DEF vars, TypeOK
<1> QED BY <1>1, <1>2, <1>3, <1>4, <1>5, <1>6, <1>7, <1>8, <1>9, <1>10, <1>11, <1>12, <1>13
        DEF Next, Step
-----------------------------------------------------------------------------
(* The steps of one pick between its lookup and its end.                   *)
Moves(p) ==
    /\ InFlight(p) /\ InFlight(p)'
    /\ pick'[p].key = pick[p].key
    /\ pick'[p].offered = pick[p].offered
    /\ pick'[p].clock = pick[p].clock
    /\ \A q \in Picks \ {p} : pick'[q] = pick[q]
    /\ UNCHANGED <<now, sweep, promise, used, alone>>

(* What the cache may suffer at such a step: a binding may go, and the one *)
(* of the pick's own key may be renewed.                                   *)
LosesOrRenews(k) ==
    \A l \in Keys :
        \/ entries'[l] = entries[l]
        \/ entries'[l] = NoBinding
        \/ l = k /\ entries[l] # NoBinding

(* Such a step is about the pick that makes it: no other pick that is      *)
(* alone notices, and nothing else is left to show than what becomes of    *)
(* the pick itself and of the bindings it has changed.                     *)
LEMMA MovesPreserve ==
    ASSUME IInv, TypeOK', NEW p \in Picks, Moves(p),
           LosesOrRenews(pick[p].key),
           \A k \in Keys : entries'[k] # entries[k] => Kept(k)',
           Holds(p)', Peeked(p)',
           p \in alone => LookedUp(p)' /\ Dropping(p)' /\ Inheriting(p)'
    PROVE  IInv'
<1>0. /\ TypeOK /\ alone \subseteq Picks /\ alone' = alone
      /\ \A q \in Picks : /\ InFlight(q)' <=> InFlight(q)
                          /\ pick'[q].key = pick[q].key
                          /\ pick'[q].offered = pick[q].offered
                          /\ pick'[q].clock = pick[q].clock
      /\ promise' = promise /\ now' = now /\ sweep' = sweep /\ used' = used
  BY DEF IInv, TypeOK, Moves, InFlight
<1>1. \A q \in Picks : InFlight(q) => pick[q].key \in Keys
  BY <1>0, InFlightType DEF Running
<1>2. ClocksOK'
  BY <1>0 DEF IInv, ClocksOK
<1>3. UnusedOK'
  <2> SUFFICES ASSUME NEW k \in Keys \ used PROVE entries'[k] = NoBinding
    BY <1>0 DEF UnusedOK
  <2>1. entries[k] = NoBinding
    BY DEF IInv, UnusedOK
  <2> QED BY <2>1 DEF LosesOrRenews
<1>4. ASSUME NEW q \in Picks PROVE (Holds(q) /\ Peeked(q))'
  <2>1. CASE q = p
    BY <2>1
  <2>2. CASE q # p
    <3>1. pick'[q] = pick[q] /\ Holds(q) /\ Peeked(q)
      BY <2>2 DEF Moves, IInv
    <3>2. Holds(q)'
      BY <3>1, <1>0 DEF Holds
    <3>3. Peeked(q)'
      BY <3>1, <1>0 DEF Peeked, Standing
    <3> QED BY <3>2, <3>3
  <2> QED BY <2>1, <2>2
<1>5. ASSUME NEW k \in Keys PROVE Kept(k)'
  <2>1. CASE entries'[k] = entries[k]
    <3>1. \A q \in Picks : Voids(q, k) => Voids(q, k)'
      BY <1>0 DEF Voids
    <3>2. Kept(k)
      BY DEF IInv
    <3> QED BY <1>0, <2>1, <3>1, <3>2 DEF Kept, Standing
  <2> QED BY <2>1
<1>6. ASSUME NEW q \in alone PROVE (Apart(q) /\ LookedUp(q) /\ Dropping(q) /\ Inheriting(q))'
  <2>1. q \in Picks /\ Apart(q) /\ LookedUp(q) /\ Dropping(q) /\ Inheriting(q)
    BY <1>0 DEF IInv
  <2>2. Apart(q)'
    BY <1>0, <2>1 DEF Apart
  <2>3. CASE q = p
    BY <2>2, <2>3
  <2>4. CASE q # p
    <3> DEFINE k == pick[q].key
               f == Fallback[k]
    <3>1. pick'[q] = pick[q] /\ InFlight(p) /\ InFlight(q)
      BY <2>1, <2>4 DEF Moves, Apart
    <3>2. k # pick[p].key /\ f # pick[p].key
      BY <2>1, <2>4, <3>1 DEF Apart, Meet
    <3>3. k \in Keys /\ entries'[k] \in {entries[k], NoBinding}
      BY <1>1, <2>1, <3>1, <3>2 DEF LosesOrRenews
    <3>4. f \in Keys => entries'[f] \in {entries[f], NoBinding}
      BY <3>2 DEF LosesOrRenews
    <3>5. LookedUp(q)'
      BY <1>0, <2>1, <3>1, <3>3 DEF LookedUp, Standing
    <3>6. pick[q].at \in {"check", "drop"} => f \in Keys
      BY <2>1, <3>1, <3>3, AffinityAssumption DEF IInv, Holds
    <3>7. Dropping(q)'
      BY <1>0, <2>1, <3>1, <3>4, <3>6 DEF Dropping, Standing
    <3>8. Inheriting(q)'
      BY <1>0, <2>1, <3>1 DEF Inheriting, Standing
    <3> QED BY <2>2, <3>5, <3>7, <3>8
  <2> QED BY <2>3, <2>4
<1> QED BY <1>0, <1>2, <1>3, <1>4, <1>5, <1>6 DEF IInv

(* The end of a pick: the binding it leaves is the promise it makes.       *)
LEMMA ReturnPreserves ==
    ASSUME IInv, TypeOK', NEW p \in Picks, InFlight(p), NEW a \in Auths,
           Return(p, a), NEW b \in Bindings, b.auth = a,
           b.expires >= pick[p].clock + TTL,
           entries' = [entries EXCEPT ![pick[p].key] = b],
           now' = now, sweep' = sweep
    PROVE  IInv'
<1> DEFINE k == pick[p].key
<1>0. /\ TypeOK /\ alone \subseteq Picks /\ alone' = alone \ {p}
      /\ pick' = [pick EXCEPT ![p] = Idle] /\ ~InFlight(p)'
      /\ used' = used \cup {k}
      /\ \A q \in Picks \ {p} : pick'[q] = pick[q] /\ (InFlight(q)' <=> InFlight(q))
  BY DEF IInv, TypeOK, Return, InFlight
<1>1. \A q \in Picks : InFlight(q) => pick[q].key \in Keys
  BY <1>0, InFlightType DEF Running
<1>2. /\ promise'[k] = IF p \in alone THEN [auth |-> a, expires |-> pick[p].clock + TTL]
                                      ELSE NoBinding
      /\ \A l \in Keys \ {k} : promise'[l] = promise[l]
      /\ entries'[k] = b /\ \A l \in Keys \ {k} : entries'[l] = entries[l]
      /\ k \in Keys
  BY <1>0, <1>1 DEF Return, TypeOK
<1>3. ClocksOK'
  BY <1>0 DEF IInv, ClocksOK
<1>4. UnusedOK'
  BY <1>0, <1>2 DEF IInv, UnusedOK
<1>5. ASSUME NEW q \in Picks PROVE (Holds(q) /\ Peeked(q))'
  <2>1. CASE q = p
    BY <1>0, <2>1 DEF Holds, Peeked
  <2>2. CASE q # p
    <3>1. pick'[q] = pick[q] /\ (InFlight(q)' <=> InFlight(q)) /\ Holds(q) /\ Peeked(q)
      BY <1>0, <2>2 DEF IInv
    <3>2. Holds(q)'
      BY <3>1 DEF Holds
    <3> DEFINE f == Fallback[pick[q].key]
    <3>3. SUFFICES ASSUME InFlight(q), pick[q].at \in {"check", "drop"}, Standing(promise[f])'
                   PROVE  \/ pick[q].at = "check" /\ Covers(pick[q].found, promise'[f])
                          \/ \E r \in Picks : InFlight(r)' /\ pick'[r].key = f
      BY <3>1, <3>2 DEF Peeked
    <3>4. f \in Keys
      BY <1>1, <3>1, <3>3, AffinityAssumption DEF Holds
    <3>5. CASE f = k
      <4>1. p \notin alone
        BY <2>2, <3>3, <3>5 DEF IInv, Apart, Meet
      <4> QED BY <1>2, <3>1, <3>3, <3>5, <4>1 DEF Standing
    <3>6. CASE f # k
      <4>1. promise'[f] = promise[f] /\ Standing(promise[f])
        BY <1>2, <3>1, <3>3, <3>4, <3>6 DEF Standing
      <4>2. CASE pick[q].at = "check" /\ Covers(pick[q].found, promise[f])
        BY <4>1, <4>2
      <4>3. CASE \E r \in Picks : InFlight(r) /\ pick[r].key = f
        BY <1>0, <3>6, <4>3
      <4> QED BY <3>1, <3>3, <4>1, <4>2, <4>3 DEF Peeked
    <3> QED BY <3>5, <3>6
  <2> QED BY <2>1, <2>2
<1>6. ASSUME NEW l \in Keys PROVE Kept(l)'
  <2>1. CASE l = k
    <3>1. CASE p \in alone
      BY <1>2, <2>1, <3>1 DEF Kept, Covers
    <3>2. CASE p \notin alone
      BY <1>2, <2>1, <3>2 DEF Kept, Standing
    <3> QED BY <3>1, <3>2
  <2>2. CASE l # k
    <3>1. \A q \in Picks : Voids(q, l) => Voids(q, l)'
      <4> SUFFICES ASSUME NEW q \in Picks, Voids(q, l) PROVE Voids(q, l)'
        OBVIOUS
      <4>1. q # p
        BY <2>2 DEF Voids
      <4> QED BY <1>0, <1>2, <2>2, <4>1 DEF Voids
    <3>2. Kept(l)
      BY DEF IInv
    <3> QED BY <1>2, <2>2, <3>1, <3>2 DEF Kept, Standing
  <2> QED BY <2>1, <2>2
<1>7. ASSUME NEW q \in alone'
      PROVE  (Apart(q) /\ LookedUp(q) /\ Dropping(q) /\ Inheriting(q))'
  <2>1. /\ q \in Picks /\ q # p /\ q \in alone
        /\ Apart(q) /\ LookedUp(q) /\ Dropping(q) /\ Inheriting(q)
    BY <1>0, <1>7 DEF IInv
  <2> DEFINE m == pick[q].key
             f == Fallback[m]
  <2>2. pick'[q] = pick[q] /\ InFlight(q) /\ InFlight(q)'
    BY <1>0, <2>1 DEF Apart
  <2>3. m # k /\ f # k /\ m \in Keys
    BY <1>1, <2>1, <2>2 DEF Apart, Meet
  <2>4. entries'[m] = entries[m] /\ (f \in Keys => entries'[f] = entries[f] /\ promise'[f] = promise[f])
    BY <1>2, <2>3
  <2>5. f # NoKey => f \in Keys
    BY <2>3, AffinityAssumption
  <2>6. pick[q].at \in {"check", "drop"} => f \in Keys
    BY <2>1, <2>2, <2>5 DEF IInv, Holds
  <2>7. Apart(q)'
    BY <1>0, <2>1, <2>2 DEF Apart
  <2>8. LookedUp(q)'
    BY <2>1, <2>2, <2>4 DEF LookedUp, Standing
  <2>9. Dropping(q)'
    BY <2>1, <2>2, <2>4, <2>6 DEF Dropping, Standing
  <2>10. Inheriting(q)'
    BY <1>0, <2>1, <2>2, <2>4, <2>5 DEF Inheriting, Standing
  <2> QED BY <2>7, <2>8, <2>9, <2>10
<1> QED BY <1>3, <1>4, <1>5, <1>6, <1>7 DEF IInv
-----------------------------------------------------------------------------
LEMMA BeginPreserves ==
    ASSUME IInv, TypeOK', NEW p \in Picks, NEW k \in Keys, NEW o \in SUBSET Auths,
           Begin(p, k, o)
    PROVE  IInv'
<1> DEFINE met == {q \in Picks : InFlight(q) /\ Meet(k, pick[q].key)}
           new == [ at |-> "lookup", key |-> k, offered |-> o, clock |-> now,
                    found |-> NoBinding, choice |-> NoAuth ]
<1>0. /\ TypeOK /\ ~InFlight(p) /\ p \notin alone
      /\ pick' = [pick EXCEPT ![p] = new]
      /\ alone' = IF met = {} THEN alone \cup {p} ELSE alone \ (met \cup {p})
      /\ entries' = entries /\ now' = now /\ sweep' = sweep
      /\ promise' = promise /\ used' = used
  BY DEF IInv, Begin, Apart
<1>1. /\ pick'[p] = new /\ InFlight(p)'
      /\ \A q \in Picks \ {p} : pick'[q] = pick[q] /\ (InFlight(q)' <=> InFlight(q))
  BY <1>0 DEF TypeOK, InFlight, Idle
<1> HIDE DEF new
<1>2. new.at = "lookup" /\ new.key = k /\ new.offered = o /\ new.clock = now
  BY DEF new
<1>3. ClocksOK'
  BY <1>0, <1>1, <1>2 DEF IInv, ClocksOK, TypeOK
<1>4. UnusedOK'
  BY <1>0 DEF IInv, UnusedOK
<1>5. ASSUME NEW q \in Picks PROVE (Holds(q) /\ Peeked(q))'
  <2>1. CASE q = p
    BY <1>1, <1>2, <2>1 DEF Holds, Peeked
  <2>2. CASE q # p
    <3>1. pick'[q] = pick[q] /\ (InFlight(q)' <=> InFlight(q)) /\ Holds(q) /\ Peeked(q)
      BY <1>1, <2>2 DEF IInv
    <3>2. \A r \in Picks : InFlight(r) => InFlight(r)' /\ pick'[r].key = pick[r].key
      BY <1>0, <1>1
    <3>3. Holds(q)'
      BY <3>1 DEF Holds
    <3>4. Peeked(q)'
      BY <1>0, <3>1, <3>2 DEF Peeked, Standing
    <3> QED BY <3>3, <3>4
  <2> QED BY <2>1, <2>2
<1>6. ASSUME NEW l \in Keys PROVE Kept(l)'
  <2>1. \A q \in Picks : Voids(q, l) => Voids(q, l)'
    <3> SUFFICES ASSUME NEW q \in Picks, Voids(q, l) PROVE Voids(q, l)'
      OBVIOUS
    <3>1. q # p
      BY <1>0 DEF Voids
    <3> QED BY <1>0, <1>1, <3>1 DEF Voids
  <2>2. Kept(l)
    BY DEF IInv
  <2> QED BY <1>0, <2>1, <2>2 DEF Kept, Standing
<1>7. ASSUME NEW q \in alone'
      PROVE  (Apart(q) /\ LookedUp(q) /\ Dropping(q) /\ Inheriting(q))'
  <2>1. CASE q = p
    <3>1. met = {}
      BY <1>0, <1>7, <2>1
    <3>2. Apart(p)'
      BY <1>1, <1>2, <3>1 DEF Apart
    <3> QED BY <1>1, <1>2, <2>1, <3>2 DEF LookedUp, Dropping, Inheriting
  <2>2. CASE q # p
    <3>1. /\ q \in alone /\ q \notin met /\ q \in Picks /\ InFlight(q)
          /\ Apart(q) /\ LookedUp(q) /\ Dropping(q) /\ Inheriting(q)
      BY <1>0, <1>7, <2>2 DEF IInv, Apart, TypeOK
    <3>2. pick'[q] = pick[q]
      BY <1>1, <2>2, <3>1
    <3>3. ~Meet(pick[q].key, k)
      BY <3>1 DEF Meet
    <3>4. Apart(q)'
      <4> SUFFICES ASSUME NEW r \in Picks \ {q}, InFlight(r)'
                   PROVE  ~Meet(pick[q].key, pick'[r].key)
        BY <1>1, <2>2, <3>1, <3>2 DEF Apart
      <4>1. CASE r = p
        BY <1>1, <1>2, <3>3, <4>1
      <4>2. CASE r # p
        BY <1>1, <3>1, <4>2 DEF Apart
      <4> QED BY <4>1, <4>2
    <3>5. (LookedUp(q) /\ Dropping(q) /\ Inheriting(q))'
      BY <1>0, <3>1, <3>2 DEF LookedUp, Dropping, Inheriting, Standing
    <3> QED BY <3>4, <3>5
  <2> QED BY <2>1, <2>2
<1> QED BY <1>3, <1>4, <1>5, <1>6, <1>7 DEF IInv

(* A promise that stands is kept, or its credential is not offered to the  *)
(* pick that is alone with its key.                                        *)
LEMMA AloneKeeps ==
    ASSUME IInv, NEW p \in alone, Standing(promise[pick[p].key])
    PROVE  \/ Covers(entries[pick[p].key], promise[pick[p].key])
           \/ promise[pick[p].key].auth \notin pick[p].offered
<1> DEFINE k == pick[p].key
<1>1. p \in Picks /\ Apart(p) /\ InFlight(p)
  BY DEF IInv, TypeOK, Apart
<1>2. k \in Keys /\ Kept(k)
  BY <1>1, InFlightType DEF IInv, Running
<1>3. ASSUME NEW q \in Picks, Voids(q, k) PROVE q = p
  BY <1>1, <1>3 DEF Voids, Apart, Meet
<1> QED BY <1>2, <1>3 DEF Kept, Voids

(* So is the promise of its fallback key, which no other pick is for.      *)
LEMMA AloneKeepsFallback ==
    ASSUME IInv, NEW p \in alone, NEW f \in Keys, f = Fallback[pick[p].key]
    PROVE  /\ Standing(promise[f]) => Covers(entries[f], promise[f])
           /\ \A r \in Picks : InFlight(r) => pick[r].key # f
<1>1. p \in Picks /\ Apart(p) /\ InFlight(p)
  BY DEF IInv, TypeOK, Apart
<1>2. pick[p].key \in Keys /\ Kept(f)
  BY <1>1, InFlightType DEF IInv, Running
<1>3. \A r \in Picks : InFlight(r) => pick[r].key # f
  <2> SUFFICES ASSUME NEW r \in Picks, InFlight(r), pick[r].key = f PROVE FALSE
    OBVIOUS
  <2>1. CASE r = p
    BY <1>2, <2>1, AffinityAssumption
  <2>2. CASE r # p
    BY <1>1, <2>2 DEF Apart, Meet
  <2> QED BY <2>1, <2>2
<1> QED BY <1>2, <1>3 DEF Kept, Voids

(* A binding that covers a standing promise has not expired.               *)
LEMMA CoversStands ==
    ASSUME NEW b \in Bindings, NEW w \in Bindings, Covers(b, w), Standing(w), now \in Nat
    PROVE  b # NoBinding /\ ~Expired(b, now) /\ \A t \in Nat : t <= now => ~Expired(b, t)
<1>1. w.auth \in Auths /\ w.expires \in Nat /\ b.expires \in Int /\ now <= w.expires
  BY BindingType DEF Standing, Expired
<1>2. b.auth # NoAuth
  BY <1>1, AffinityAssumption DEF Covers
<1> QED BY <1>1, <1>2 DEF Covers, Expired, NoBinding
-----------------------------------------------------------------------------
(* One lemma per step.  What all of them know of the pick that moves:      *)
LEMMA PickFacts ==
    ASSUME IInv, NEW p \in Picks, pick[p].at \in Stages
    PROVE  /\ InFlight(p) /\ pick[p] \in Running
           /\ pick[p].key \in Keys /\ pick[p].clock \in Nat /\ pick[p].clock <= now
           /\ entries[pick[p].key] \in Bindings /\ promise[pick[p].key] \in Bindings
           /\ pick[p].found \in Bindings /\ now \in Nat
           /\ pick[p].at \in {"inherit", "check", "drop"}
              => /\ Fallback[pick[p].key] \in Keys
                 /\ Fallback[pick[p].key] # NoKey
                 /\ Fallback[pick[p].key] # pick[p].key
                 /\ entries[Fallback[pick[p].key]] \in Bindings
                 /\ promise[Fallback[pick[p].key]] \in Bindings
<1>1. InFlight(p)
  BY DEF InFlight, Idle, Stages
<1>2. pick[p] \in Running
  BY <1>1, InFlightType DEF IInv
<1>3. pick[p].key \in Keys /\ pick[p].clock \in Nat /\ pick[p].found \in Bindings
  BY <1>2 DEF Running
<1>4. pick[p].at \in {"inherit", "check", "drop"}
      => Fallback[pick[p].key] \in Keys /\ Fallback[pick[p].key] # NoKey
  BY <1>1, <1>3, AffinityAssumption DEF IInv, Holds
<1> QED BY <1>1, <1>2, <1>3, <1>4, AffinityAssumption DEF IInv, TypeOK, ClocksOK

LEMMA MovesIf ==
    ASSUME TypeOK, NEW p \in Picks, pick[p] \in Running, NEW x \in Stages,
           NEW b \in Bindings, NEW a \in Auths \cup {NoAuth},
           \/ pick' = [pick EXCEPT ![p].at = x]
           \/ pick' = [pick EXCEPT ![p].at = x, ![p].found = b]
           \/ pick' = [pick EXCEPT ![p].at = x, ![p].choice = a],
           now' = now, sweep' = sweep, UNCHANGED history
    PROVE  Moves(p) /\ pick'[p].at = x
<1>1. /\ pick'[p].at = x /\ pick'[p].key = pick[p].key
      /\ pick'[p].offered = pick[p].offered /\ pick'[p].clock = pick[p].clock
      /\ \A q \in Picks \ {p} : pick'[q] = pick[q]
  BY DEF TypeOK, Running
<1>2. InFlight(p) /\ InFlight(p)'
  BY <1>1, RunningNotIdle DEF InFlight, Idle, Stages
<1> QED BY <1>1, <1>2 DEF Moves, history

LEMMA HitPreserves ==
    ASSUME IInv, TypeOK', NEW p \in Picks, Hit(p)
    PROVE  IInv'
<1> DEFINE k == pick[p].key
<1>0. pick[p].at \in Stages /\ TypeOK
  BY DEF Hit, Stages, IInv
<1>1. /\ InFlight(p) /\ pick[p] \in Running /\ k \in Keys
      /\ entries[k] \in Bindings /\ entries[k] # NoBinding
      /\ promise[k] \in Bindings /\ pick[p].clock \in Nat
  BY <1>0, PickFacts DEF Hit
<1>2. entries[k].auth \in Auths
  BY <1>1, BindingType
<1> DEFINE b == Renewed(entries[k], pick[p].clock)
<1>3. b \in Bindings /\ b.auth = entries[k].auth /\ b.expires = pick[p].clock + TTL
  BY <1>1, AffinityAssumption DEF Renewed, Bindings
<1>4. entries' = [entries EXCEPT ![k] = b] /\ now' = now /\ sweep' = sweep
  BY DEF Hit
<1> HIDE DEF b
<1>5. CASE Return(p, entries[k].auth)
  <2>1. b.expires >= pick[p].clock + TTL
    BY <1>1, <1>3, AffinityAssumption
  <2> QED BY <1>1, <1>2, <1>3, <1>4, <1>5, <2>1, ReturnPreserves
<1>6. CASE /\ entries[k].auth \notin pick[p].offered
           /\ pick' = [pick EXCEPT ![p].at = "choose"] /\ UNCHANGED history
  <2>1. Moves(p) /\ pick'[p].at = "choose"
    <3>1. "choose" \in Stages /\ NoAuth \in Auths \cup {NoAuth}
      BY DEF Stages
    <3> QED BY <1>0, <1>1, <1>4, <1>6, <3>1, MovesIf
  <2>2. entries'[k] = b /\ \A l \in Keys \ {k} : entries'[l] = entries[l]
    BY <1>0, <1>1, <1>4 DEF TypeOK
  <2>3. LosesOrRenews(k)
    BY <1>1, <2>2 DEF LosesOrRenews
  <2>4. Kept(k)'
    <3>1. SUFFICES ASSUME Standing(promise[k]) PROVE Voids(p, k)'
      BY <1>4, <2>1 DEF Kept, Standing, Moves
    <3>2. p \notin alone \/ promise[k].auth \notin pick[p].offered
      BY <1>6, <3>1, AloneKeeps DEF Covers
    <3> QED BY <2>1, <3>2 DEF Voids, Moves
  <2>5. Holds(p)' /\ Peeked(p)'
    BY <2>1 DEF Holds, Peeked
  <2>6. p \in alone => LookedUp(p)' /\ Dropping(p)' /\ Inheriting(p)'
    <3>1. LookedUp(p)'
      BY <1>3, <1>6, <2>1, <2>2 DEF LookedUp, Moves
    <3>2. k \in used
      BY <1>1 DEF IInv, UnusedOK
    <3> QED BY <2>1, <3>1, <3>2 DEF Dropping, Inheriting, Moves
  <2>7. \A l \in Keys : entries'[l] # entries[l] => Kept(l)'
    BY <2>1, <2>2, <2>4 DEF Moves
  <2> QED BY <2>1, <2>3, <2>5, <2>6, <2>7, MovesPreserve
<1> QED BY <1>5, <1>6 DEF Hit

LEMMA MissPreserves ==
    ASSUME IInv, TypeOK', NEW p \in Picks, Miss(p)
    PROVE  IInv'
<1> DEFINE k == pick[p].key
           x == IF Fallback[k] = NoKey THEN "choose" ELSE "inherit"
<1>0. pick[p].at \in Stages /\ TypeOK
  BY DEF Miss, Stages, IInv
<1>1. /\ pick[p] \in Running /\ k \in Keys /\ now \in Nat
      /\ entries[k] \in Bindings /\ promise[k] \in Bindings
      /\ pick[p].clock \in Nat /\ pick[p].clock <= now
  BY <1>0, PickFacts
<1>2. Moves(p) /\ pick'[p].at = x
  <2>1. x \in Stages /\ NoAuth \in Auths \cup {NoAuth}
    BY DEF Stages
  <2> HIDE DEF x
  <2>2. pick' = [pick EXCEPT ![p].at = x] /\ now' = now /\ sweep' = sweep /\ UNCHANGED history
    BY DEF Miss, x
  <2> QED BY <1>0, <1>1, <2>1, <2>2, MovesIf
<1>3. entries'[k] = NoBinding /\ \A l \in Keys \ {k} : entries'[l] = entries[l]
  BY <1>0, <1>1 DEF Miss, TypeOK
<1>4. LosesOrRenews(k)
  BY <1>3 DEF LosesOrRenews
<1>5. Kept(k)'
  <2>1. SUFFICES ASSUME Standing(promise[k]) PROVE Voids(p, k)'
    BY <1>2 DEF Kept, Standing, Moves
  <2>2. ~Covers(entries[k], promise[k])
    BY <1>1, <2>1, CoversStands DEF Miss
  <2>3. p \notin alone \/ promise[k].auth \notin pick[p].offered
    BY <2>1, <2>2, AloneKeeps
  <2> QED BY <1>2, <2>3 DEF Voids, Moves
<1>6. Holds(p)' /\ Peeked(p)'
  BY <1>2 DEF Holds, Peeked, Moves
<1>7. LookedUp(p)' /\ Dropping(p)' /\ Inheriting(p)'
  BY <1>2, <1>3 DEF LookedUp, Dropping, Inheriting, Standing, Moves
<1>8. \A l \in Keys : entries'[l] # entries[l] => Kept(l)'
  BY <1>2, <1>3, <1>5 DEF Moves
<1> QED BY <1>2, <1>4, <1>6, <1>7, <1>8, MovesPreserve

LEMMA PeekPreserves ==
    ASSUME IInv, TypeOK', NEW p \in Picks, Peek(p)
    PROVE  IInv'
<1> DEFINE k == pick[p].key
           f == Fallback[k]
           b == entries[f]
<1>0. pick[p].at = "inherit" /\ pick[p].at \in Stages /\ TypeOK
  BY DEF Peek, Stages, IInv
<1>1. /\ InFlight(p) /\ pick[p] \in Running /\ k \in Keys /\ now \in Nat
      /\ f \in Keys /\ f # NoKey /\ b \in Bindings /\ promise[f] \in Bindings
  BY <1>0, PickFacts
<1>2. /\ Moves(p)
      /\ \/ b = NoBinding /\ pick'[p].at = "choose"
         \/ b # NoBinding /\ pick'[p].at = "check" /\ pick'[p].found = b
  <2>1. {"choose", "check"} \subseteq Stages /\ NoAuth \in Auths \cup {NoAuth}
    BY DEF Stages
  <2>2. CASE b = NoBinding /\ pick' = [pick EXCEPT ![p].at = "choose"]
    BY <1>0, <1>1, <2>1, <2>2, MovesIf DEF Peek
  <2>3. CASE b # NoBinding /\ pick' = [pick EXCEPT ![p].at = "check", ![p].found = b]
    <3>1. Moves(p) /\ pick'[p].at = "check"
      BY ZenonT(60), <1>0, <1>1, <2>1, <2>3, MovesIf DEF Peek
    <3>2. pick'[p].found = b
      BY <1>0, <1>1, <2>3 DEF TypeOK, Running
    <3> QED BY <2>3, <3>1, <3>2
  <2> QED BY <2>2, <2>3 DEF Peek
<1>3. entries' = entries
  BY DEF Peek
<1>4. LosesOrRenews(k)
  BY <1>3 DEF LosesOrRenews
<1>5. Holds(p)'
  BY <1>1, <1>2 DEF Holds, Moves
<1>6. Peeked(p)'
  <2>1. SUFFICES ASSUME Standing(promise[f]), pick'[p].at = "check"
                 PROVE  Covers(b, promise[f]) \/ \E r \in Picks : InFlight(r)' /\ pick'[r].key = f
    BY <1>2 DEF Peeked, Standing, Moves
  <2>2. Kept(f)
    BY <1>1 DEF IInv
  <2>3. ASSUME NEW r \in Picks, Voids(r, f) PROVE InFlight(r)' /\ pick'[r].key = f
    BY <1>2, <2>3 DEF Voids, Moves, InFlight
  <2> QED BY <2>1, <2>2, <2>3 DEF Kept
<1>7. ASSUME p \in alone PROVE LookedUp(p)' /\ Dropping(p)' /\ Inheriting(p)'
  <2>1. LookedUp(p)
    BY <1>7 DEF IInv
  <2>2. LookedUp(p)'
    BY <1>0, <1>2, <1>3, <2>1 DEF LookedUp, Standing, Moves
  <2>3. Dropping(p)'
    BY <1>2, <1>3 DEF Dropping, Moves
  <2>4. b = NoBinding => ~Standing(promise[f])
    BY <1>1, <1>7, AloneKeepsFallback, CoversStands
  <2>5. Inheriting(p)'
    BY <1>2, <2>4 DEF Inheriting, Standing, Moves
  <2> QED BY <2>2, <2>3, <2>5
<1> QED BY <1>2, <1>3, <1>4, <1>5, <1>6, <1>7, MovesPreserve

LEMMA CheckPreserves ==
    ASSUME IInv, TypeOK', NEW p \in Picks, Check(p)
    PROVE  IInv'
<1> DEFINE k == pick[p].key
           f == Fallback[k]
           b == pick[p].found
<1>0. pick[p].at = "check" /\ pick[p].at \in Stages /\ TypeOK
  BY DEF Check, Stages, IInv
<1>1. /\ InFlight(p) /\ pick[p] \in Running /\ k \in Keys /\ now \in Nat
      /\ f \in Keys /\ f # NoKey /\ b \in Bindings /\ promise[f] \in Bindings
  BY <1>0, PickFacts
<1>2. b # NoBinding /\ b.auth \in Auths
  BY <1>0, <1>1, BindingType DEF IInv, Holds
<1>3. /\ Moves(p)
      /\ \/ Expired(b, now) /\ pick'[p].at = "drop"
         \/ /\ ~Expired(b, now) /\ b.auth \in pick[p].offered
            /\ pick'[p].at = "bind" /\ pick'[p].choice = b.auth
         \/ /\ ~Expired(b, now) /\ b.auth \notin pick[p].offered
            /\ pick'[p].at = "choose"
      /\ pick'[p].found = b
  <2>1. {"choose", "drop", "bind"} \subseteq Stages
    BY DEF Stages
  <2>2. CASE Expired(b, now) /\ pick' = [pick EXCEPT ![p].at = "drop"]
    <3>1. Moves(p) /\ pick'[p].at = "drop"
      BY <1>0, <1>1, <1>2, <2>1, <2>2, MovesIf DEF Check
    <3>2. pick'[p].found = b
      BY <1>0, <1>1, <2>2 DEF TypeOK, Running
    <3> QED BY <2>2, <3>1, <3>2
  <2>3. CASE /\ ~Expired(b, now) /\ b.auth \in pick[p].offered
             /\ pick' = [pick EXCEPT ![p].at = "bind", ![p].choice = b.auth]
    <3>a. /\ "bind" \in Stages /\ b.auth \in Auths \cup {NoAuth}
          /\ now' = now /\ sweep' = sweep /\ UNCHANGED history
      BY <1>2 DEF Check, Stages
    <3>b. ASSUME NEW a \in Auths \cup {NoAuth},
                 pick' = [pick EXCEPT ![p].at = "bind", ![p].choice = a]
          PROVE  /\ Moves(p) /\ pick'[p].at = "bind"
                 /\ pick'[p].found = pick[p].found /\ pick'[p].choice = a
      <4>1. Moves(p) /\ pick'[p].at = "bind"
        BY <1>0, <1>1, <3>a, <3>b, MovesIf
      <4>2. pick'[p].found = pick[p].found /\ pick'[p].choice = a
        BY <1>0, <1>1, <3>b DEF TypeOK, Running
      <4> QED BY <4>1, <4>2
    <3>1. /\ Moves(p) /\ pick'[p].at = "bind"
          /\ pick'[p].found = b /\ pick'[p].choice = b.auth
      BY <2>3, <3>a, <3>b
    <3> QED BY <2>3, <3>1
  <2>4. CASE /\ ~Expired(b, now) /\ b.auth \notin pick[p].offered
             /\ pick' = [pick EXCEPT ![p].at = "choose"]
    <3>1. Moves(p) /\ pick'[p].at = "choose"
      BY <1>0, <1>1, <1>2, <2>1, <2>4, MovesIf DEF Check
    <3>2. pick'[p].found = b
      BY <1>0, <1>1, <2>4 DEF TypeOK, Running
    <3> QED BY <2>4, <3>1, <3>2
  <2> QED BY <2>2, <2>3, <2>4 DEF Check
<1>4. entries' = entries
  BY DEF Check
<1>5. LosesOrRenews(k)
  BY <1>4 DEF LosesOrRenews
<1>6. Holds(p)'
  BY <1>1, <1>2, <1>3 DEF Holds, Moves
<1>7. Standing(promise[f]) /\ Expired(b, now)
      => \E r \in Picks : InFlight(r) /\ pick[r].key = f
  BY <1>0, <1>1, CoversStands DEF IInv, Peeked
<1>8. Peeked(p)'
  <2>1. SUFFICES ASSUME Standing(promise[f]), pick'[p].at = "drop"
                 PROVE  \E r \in Picks : InFlight(r)' /\ pick'[r].key = f
    BY <1>3 DEF Peeked, Standing, Moves
  <2>2. PICK r \in Picks : InFlight(r) /\ pick[r].key = f
    BY <1>3, <1>7, <2>1
  <2>3. InFlight(r)' /\ pick'[r].key = f
    BY <1>3, <2>2 DEF Moves, InFlight
  <2> QED BY <2>3
<1>9. ASSUME p \in alone PROVE LookedUp(p)' /\ Dropping(p)' /\ Inheriting(p)'
  <2>1. LookedUp(p) /\ Dropping(p)
    BY <1>9 DEF IInv
  <2>2. LookedUp(p)'
    BY <1>0, <1>3, <1>4, <2>1 DEF LookedUp, Standing, Moves
  <2>3. Expired(b, now) => ~Standing(entries[f])
    BY <1>0, <2>1 DEF Dropping, Standing
  <2>4. Dropping(p)'
    BY <1>3, <1>4, <2>3 DEF Dropping, Standing, Moves
  <2>5. Standing(promise[f]) => Covers(b, promise[f]) /\ ~Expired(b, now)
    BY <1>0, <1>1, <1>9, AloneKeepsFallback, CoversStands DEF IInv, Peeked
  <2>6. Inheriting(p)'
    BY <1>3, <2>5 DEF Inheriting, Standing, Moves, Covers
  <2> QED BY <2>2, <2>4, <2>6
<1> QED BY <1>3, <1>4, <1>5, <1>6, <1>8, <1>9, MovesPreserve

LEMMA DropPreserves ==
    ASSUME IInv, TypeOK', NEW p \in Picks, Drop(p)
    PROVE  IInv'
<1> DEFINE k == pick[p].key
           f == Fallback[k]
<1>0. pick[p].at = "drop" /\ pick[p].at \in Stages /\ TypeOK
  BY DEF Drop, Stages, IInv
<1>1. /\ InFlight(p) /\ pick[p] \in Running /\ k \in Keys
      /\ f \in Keys /\ f # NoKey /\ f # k
  BY <1>0, PickFacts
<1>2. Moves(p) /\ pick'[p].at = "choose"
  <2>1. "choose" \in Stages /\ NoAuth \in Auths \cup {NoAuth} /\ NoBinding \in Bindings
    BY DEF Stages, Bindings
  <2> QED BY <1>0, <1>1, <2>1, MovesIf DEF Drop
<1>3. entries'[f] = NoBinding /\ \A l \in Keys \ {f} : entries'[l] = entries[l]
  BY <1>0, <1>1 DEF Drop, TypeOK
<1>4. LosesOrRenews(k)
  BY <1>3 DEF LosesOrRenews
<1>5. Kept(f)'
  <2>1. SUFFICES ASSUME Standing(promise[f]) PROVE \E r \in Picks : Voids(r, f)'
    BY <1>2 DEF Kept, Standing, Moves
  <2>2. PICK r \in Picks : InFlight(r) /\ pick[r].key = f
    BY <1>0, <1>1, <2>1 DEF IInv, Peeked
  <2>3. r \notin alone
    BY <1>1, <2>2 DEF IInv, Apart, Meet
  <2>4. InFlight(r)' /\ pick'[r].key = f
    BY <1>2, <2>2 DEF Moves, InFlight
  <2> QED BY <1>2, <2>3, <2>4 DEF Voids, Moves
<1>6. \A l \in Keys : entries'[l] # entries[l] => Kept(l)'
  BY <1>2, <1>3, <1>5 DEF Moves
<1>7. Holds(p)' /\ Peeked(p)'
  BY <1>2 DEF Holds, Peeked
<1>8. ASSUME p \in alone PROVE LookedUp(p)' /\ Dropping(p)' /\ Inheriting(p)'
  <2>1. LookedUp(p) /\ Inheriting(p)
    BY <1>8 DEF IInv
  <2>2. LookedUp(p)'
    BY <1>0, <1>1, <1>2, <1>3, <2>1 DEF LookedUp, Standing, Moves
  <2>3. Inheriting(p)'
    BY <1>0, <1>2, <2>1 DEF Inheriting, Standing, Moves
  <2> QED BY <1>2, <2>2, <2>3 DEF Dropping
<1> QED BY <1>2, <1>4, <1>6, <1>7, <1>8, MovesPreserve

LEMMA ChoosePreserves ==
    ASSUME IInv, TypeOK', NEW p \in Picks, NEW a \in Auths, Choose(p, a)
    PROVE  IInv'
<1>0. pick[p].at = "choose" /\ pick[p].at \in Stages /\ TypeOK
  BY DEF Choose, Stages, IInv
<1>1. pick[p] \in Running
  BY <1>0, PickFacts
<1>2. Moves(p) /\ pick'[p].at = "bind" /\ pick'[p].choice = a
  <2>1. "bind" \in Stages /\ NoBinding \in Bindings
    BY DEF Stages, Bindings
  <2>2. pick'[p].choice = a
    BY <1>0, <1>1 DEF Choose, TypeOK, Running
  <2> QED BY <1>0, <1>1, <2>1, <2>2, MovesIf DEF Choose
<1>3. entries' = entries
  BY DEF Choose
<1>4. LosesOrRenews(pick[p].key)
  BY <1>3 DEF LosesOrRenews
<1>5. Holds(p)' /\ Peeked(p)'
  BY <1>2 DEF Holds, Peeked
<1>6. ASSUME p \in alone PROVE LookedUp(p)' /\ Dropping(p)' /\ Inheriting(p)'
  <2>1. LookedUp(p) /\ Inheriting(p)
    BY <1>6 DEF IInv
  <2>2. LookedUp(p)' /\ Inheriting(p)'
    BY <1>0, <1>2, <1>3, <2>1 DEF LookedUp, Inheriting, Standing, Moves
  <2> QED BY <1>2, <2>2 DEF Dropping
<1> QED BY <1>2, <1>3, <1>4, <1>5, <1>6, MovesPreserve

LEMMA BindPreserves ==
    ASSUME IInv, TypeOK', NEW p \in Picks, Bind(p)
    PROVE  IInv'
<1> DEFINE b == [auth |-> pick[p].choice, expires |-> now + TTL]
<1>0. pick[p].at = "bind" /\ pick[p].at \in Stages
  BY DEF Bind, Stages
<1>1. InFlight(p) /\ pick[p].clock \in Nat /\ pick[p].clock <= now /\ now \in Nat
  BY <1>0, PickFacts
<1>2. pick[p].choice \in Auths
  BY <1>0, <1>1 DEF IInv, Holds
<1>3. /\ b \in Bindings /\ b.auth = pick[p].choice
      /\ b.expires >= pick[p].clock + TTL
  BY <1>1, <1>2, AffinityAssumption DEF Bindings
<1>4. /\ Return(p, pick[p].choice) /\ now' = now /\ sweep' = sweep
      /\ entries' = [entries EXCEPT ![pick[p].key] = b]
  BY DEF Bind
<1> HIDE DEF b
<1> QED BY <1>1, <1>2, <1>3, <1>4, ReturnPreserves

(* Cleanup and the clock: bindings go that have expired, and time passes.  *)
LEMMA TimePreserves ==
    ASSUME IInv, TypeOK', pick' = pick, UNCHANGED history,
           now' \in Nat, now' >= now, sweep' <= now',
           \A k \in Keys : \/ entries'[k] = entries[k]
                           \/ entries'[k] = NoBinding /\ Expired(entries[k], now)
    PROVE  IInv'
<1>0. /\ TypeOK /\ alone' = alone /\ promise' = promise /\ used' = used
      /\ now \in Nat /\ alone \subseteq Picks
  BY DEF IInv, TypeOK, history
<1>1. \A b \in Bindings : Standing(b)' => Standing(b)
  <2> SUFFICES ASSUME NEW b \in Bindings, b # NoBinding, ~(now' > b.expires)
               PROVE  ~(now > b.expires)
    BY DEF Standing, Expired
  <2> QED BY <1>0, BindingType
<1>2. \A k \in Keys : promise[k] \in Bindings /\ entries[k] \in Bindings
  BY <1>0 DEF TypeOK
<1>3. \A k \in Keys : /\ Standing(promise[k])' => Standing(promise[k])
                      /\ Standing(entries[k])' => Standing(entries[k]) /\ entries'[k] = entries[k]
  <2> SUFFICES ASSUME NEW k \in Keys
               PROVE  /\ Standing(promise[k])' => Standing(promise[k])
                      /\ Standing(entries[k])' => Standing(entries[k]) /\ entries'[k] = entries[k]
    OBVIOUS
  <2>1. Standing(promise[k])' => Standing(promise[k])
    BY <1>0, <1>1, <1>2 DEF Standing
  <2>2. Standing(entries[k])' => entries'[k] = entries[k]
    BY DEF Standing
  <2>3. entries'[k] = entries[k] /\ Standing(entries[k])' => Standing(entries[k])
    BY <1>1, <1>2 DEF Standing
  <2> QED BY <2>1, <2>2, <2>3
<1>4. ClocksOK'
  <2> SUFFICES ASSUME NEW p \in Picks, InFlight(p) PROVE pick[p].clock <= now'
    BY DEF ClocksOK, InFlight
  <2>1. pick[p].clock <= now /\ pick[p].clock \in Nat
    BY <1>0, InFlightType DEF IInv, ClocksOK, Running
  <2> QED BY <1>0, <2>1
<1>5. UnusedOK'
  BY <1>0 DEF IInv, UnusedOK
<1>6. ASSUME NEW p \in Picks PROVE (Holds(p) /\ Peeked(p))'
  <2>1. Holds(p) /\ Peeked(p)
    BY DEF IInv
  <2>2. Holds(p)'
    BY <2>1 DEF Holds, InFlight
  <2>3. InFlight(p) /\ pick[p].at \in {"check", "drop"} => Fallback[pick[p].key] \in Keys
    BY PickFacts DEF Stages
  <2>4. Peeked(p)'
    BY <1>0, <1>3, <2>1, <2>3 DEF Peeked, InFlight
  <2> QED BY <2>2, <2>4
<1>7. ASSUME NEW k \in Keys PROVE Kept(k)'
  <2>1. SUFFICES ASSUME Standing(promise[k])'
                 PROVE  (Covers(entries[k], promise[k]) \/ \E q \in Picks : Voids(q, k))'
    BY DEF Kept
  <2>2. Standing(promise[k]) /\ Kept(k)
    BY <1>3, <2>1 DEF IInv
  <2>3. CASE Covers(entries[k], promise[k])
    <3>1. ~Expired(entries[k], now)
      BY <1>0, <1>2, <2>2, <2>3, CoversStands
    <3> QED BY <1>0, <2>3, <3>1 DEF Covers
  <2>4. CASE \E q \in Picks : Voids(q, k)
    BY <1>0, <2>4 DEF Voids, InFlight
  <2> QED BY <2>2, <2>3, <2>4 DEF Kept
<1>8. ASSUME NEW p \in alone PROVE (Apart(p) /\ LookedUp(p) /\ Dropping(p) /\ Inheriting(p))'
  <2>1. p \in Picks /\ Apart(p) /\ LookedUp(p) /\ Dropping(p) /\ Inheriting(p) /\ InFlight(p)
    BY <1>0 DEF IInv, Apart
  <2>2. pick[p].key \in Keys
    BY <1>0, <2>1, InFlightType DEF Running
  <2>3. Fallback[pick[p].key] # NoKey => Fallback[pick[p].key] \in Keys
    BY <2>2, AffinityAssumption
  <2>4. pick[p].at \in {"check", "drop"} => Fallback[pick[p].key] \in Keys
    BY <2>1, <2>3 DEF IInv, Holds
  <2>5. Apart(p)'
    BY <2>1 DEF Apart, InFlight
  <2>6. LookedUp(p)'
    BY <1>3, <2>1, <2>2 DEF LookedUp
  <2>7. Dropping(p)'
    BY <1>3, <2>1, <2>4 DEF Dropping
  <2>8. Inheriting(p)'
    BY <1>0, <1>3, <2>1, <2>3 DEF Inheriting
  <2> QED BY <2>5, <2>6, <2>7, <2>8
<1> QED BY <1>0, <1>4, <1>5, <1>6, <1>7, <1>8 DEF IInv

(* A new selector starts over.                                             *)
LEMMA SetSelectorPreserves ==
    ASSUME IInv, TypeOK', SetSelector
    PROVE  IInv'
<1>0. /\ TypeOK /\ alone' = alone /\ pick' = pick /\ now' = now /\ used' = {}
      /\ \A p \in Picks : ~InFlight(p) /\ ~InFlight(p)'
      /\ \A k \in Keys : entries'[k] = NoBinding /\ promise'[k] = NoBinding
  BY DEF SetSelector, IInv, InFlight
<1>1. alone' = {}
  BY <1>0 DEF IInv, Apart, TypeOK
<1>2. ClocksOK' /\ UnusedOK'
  BY <1>0 DEF SetSelector, ClocksOK, UnusedOK, TypeOK, Never
<1>3. \A p \in Picks : (Holds(p) /\ Peeked(p))'
  BY <1>0 DEF Holds, Peeked
<1>4. \A k \in Keys : Kept(k)'
  BY <1>0 DEF Kept, Standing
<1> QED BY <1>1, <1>2, <1>3, <1>4 DEF IInv

LEMMA NextIInv == IInv /\ [Next]_vars => IInv'
<1> SUFFICES ASSUME IInv, [Next]_vars PROVE IInv'
  OBVIOUS
<1>0. TypeOK' /\ TypeOK /\ ClocksOK
  BY NextType DEF IInv
<1>1. now \in Nat /\ sweep \in Nat \cup {Never} /\ sweep <= now
  BY <1>0 DEF TypeOK, ClocksOK
<1>2. ASSUME NEW p \in Picks, Step(p) PROVE IInv'
  BY <1>0, <1>2, BeginPreserves, HitPreserves, MissPreserves, PeekPreserves,
     CheckPreserves, DropPreserves, ChoosePreserves, BindPreserves DEF Step
<1>3. CASE ReadClock
  <2>1. pick' = pick /\ UNCHANGED history /\ now' = now /\ sweep' = now /\ entries' = entries
    BY <1>3 DEF ReadClock
  <2> QED BY <1>0, <1>1, <2>1, TimePreserves
<1>4. CASE Sweep
  <2>1. pick' = pick /\ UNCHANGED history /\ now' = now /\ sweep' = Never /\ sweep \in Nat
    BY <1>1, <1>4 DEF Sweep
  <2>2. Never <= now
    BY <1>1 DEF Never
  <2>3. ASSUME NEW k \in Keys
        PROVE  \/ entries'[k] = entries[k]
               \/ entries'[k] = NoBinding /\ Expired(entries[k], now)
    <3>1. entries[k].expires \in Int
      BY <1>0, BindingType DEF TypeOK
    <3> QED BY <1>1, <1>4, <2>1, <3>1 DEF Sweep, Swept, Expired
  <2> QED BY <1>0, <1>1, <2>1, <2>2, <2>3, TimePreserves
<1>5. CASE SetSelector
  BY <1>0, <1>5, SetSelectorPreserves
<1>6. CASE Tick
  <2>1. /\ pick' = pick /\ UNCHANGED history /\ now' = now + 1 /\ sweep' = sweep
        /\ entries' = entries
    BY <1>6 DEF Tick
  <2>2. now' \in Nat /\ now' >= now /\ sweep' <= now'
    BY <1>1, <2>1 DEF Never
  <2> QED BY <1>0, <2>1, <2>2, TimePreserves
<1>7. CASE UNCHANGED vars
  <2>1. /\ pick' = pick /\ UNCHANGED history /\ now' = now /\ sweep' = sweep
        /\ entries' = entries
    BY <1>7 DEF vars, history
  <2> QED BY <1>0, <1>1, <2>1, TimePreserves
<1> QED BY <1>2, <1>3, <1>4, <1>5, <1>6, <1>7 DEF Next

LEMMA Invariance == Spec => []IInv
BY InitIInv, NextIInv, PTL DEF Spec

(* Bindings stay whole under every interleaving of lookups, refreshes,     *)
(* expiries and cleanups, and a pick that is to bind has a credential to   *)
(* bind (SessionCache, SessionAffinitySelector.Pick).                      *)
THEOREM AffinityTypes == Spec => []TypeOK
BY Invariance, PTL DEF IInv


-----------------------------------------------------------------------------
(* A pick that returns has hit the binding of its key or has bound it.     *)
LEMMA Returning ==
    ASSUME IInv, Next, NEW p \in Picks, InFlight(p), ~InFlight(p)'
    PROVE  (Hit(p) /\ entries[pick[p].key].auth \in pick[p].offered) \/ Bind(p)
<1>0. TypeOK /\ pick[p] \in Running
  BY InFlightType DEF IInv
<1>1. ASSUME NEW q \in Picks, Step(q), q # p PROVE FALSE
  <2>1. pick'[p] = pick[p]
    BY <1>0, <1>1 DEF Step, Begin, Hit, Miss, Peek, Check, Drop, Choose, Bind, Return, TypeOK
  <2> QED BY <2>1 DEF InFlight
<1>2. ASSUME pick' = pick PROVE FALSE
  BY <1>2 DEF InFlight
<1>3. ASSUME ~(Hit(p) /\ entries[pick[p].key].auth \in pick[p].offered), ~Bind(p), Step(p)
      PROVE  FALSE
  <2>1. \E x \in Stages : pick'[p].at = x
    BY <1>0, <1>3 DEF Step, Begin, Hit, Miss, Peek, Check, Drop, Choose, TypeOK, Running, Stages
  <2> QED BY <2>1 DEF InFlight, Idle, Stages
<1> QED BY <1>1, <1>2, <1>3 DEF Next, ReadClock, Sweep, SetSelector, Tick

(* A session stays with its credential: a request that meets no other of   *)
(* its session gets the credential its last one got, or, in its second     *)
(* turn, the one of the first, as long as that is offered and the binding  *)
(* has not expired (SessionAffinitySelector.Pick).                         *)
THEOREM SessionsStick == Spec => Sticky
<1>1. ASSUME IInv, [Next]_vars, NEW p \in alone, InFlight(p), ~InFlight(p)',
             NEW a \in pick[p].offered, Owed(pick[p].key, a)
      PROVE  Answer(p) = a
  <2> DEFINE k == pick[p].key
             f == Fallback[k]
  <2>0. p \in Picks /\ TypeOK /\ Next
    BY <1>1 DEF IInv, TypeOK, vars, InFlight
  <2>1. pick[p] \in Running /\ k \in Keys /\ now \in Nat
    BY <1>1, <2>0, InFlightType DEF Running, TypeOK
  <2>2. entries[k] \in Bindings /\ promise[k] \in Bindings
    BY <2>0, <2>1 DEF TypeOK
  <2>3. Standing(promise[k]) /\ a = promise[k].auth
        => Covers(entries[k], promise[k]) /\ Standing(entries[k]) /\ entries[k].auth = a
    BY <1>1, <2>1, <2>2, AloneKeeps, CoversStands DEF Standing, Covers
  <2>4. CASE Hit(p)
    <3>1. k \in used /\ pick[p].at = "lookup"
      BY <2>1, <2>4, <1>1 DEF Hit, IInv, UnusedOK
    <3>2. Standing(promise[k]) /\ a = promise[k].auth
      BY <1>1, <3>1 DEF Owed
    <3> QED BY <2>3, <3>1, <3>2 DEF Answer
  <2>5. CASE Bind(p)
    <3>1. pick[p].at = "bind" /\ LookedUp(p) /\ Inheriting(p)
      BY <1>1, <2>5 DEF Bind, IInv
    <3>2. ~(Standing(promise[k]) /\ a = promise[k].auth)
      BY <1>1, <2>3, <3>1 DEF LookedUp
    <3>3. pick[p].choice = a
      BY <1>1, <3>1, <3>2 DEF Owed, Inheriting
    <3> QED BY <3>1, <3>3 DEF Answer
  <2> QED BY <1>1, <2>0, <2>4, <2>5, Returning
<1>2. ASSUME IInv, [Next]_vars
      PROVE  [\A p \in Picks :
                InFlight(p) /\ ~InFlight(p)' /\ p \in alone
                => \A a \in pick[p].offered : Owed(pick[p].key, a) => Answer(p) = a]_vars
  BY <1>1, <1>2
<1> QED BY <1>2, Invariance, PTL DEF Spec, Sticky

(* Only expiry, a pick that cannot use it and picks of the session that    *)
(* overlap end a binding (SessionCache.Get, GetAndRefresh, Set, cleanup).  *)
THEOREM BindingsRetained == Spec => Retained
<1>1. ASSUME IInv, Next, NEW k \in Keys, Standing(entries[k]),
             entries'[k].auth # entries[k].auth
      PROVE  \/ \E p \in Picks : InFlight(p) /\ (Overwrites(p, k) \/ Deletes(p, k))
             \/ SetSelector
  <2>0. /\ TypeOK /\ entries[k] \in Bindings /\ now \in Nat
        /\ entries[k].expires \in Nat /\ now <= entries[k].expires
    BY <1>1, BindingType DEF IInv, TypeOK, Standing, Expired
  <2>1. ASSUME NEW p \in Picks, Step(p)
        PROVE  \E q \in Picks : InFlight(q) /\ (Overwrites(q, k) \/ Deletes(q, k))
    <3>0. entries' # entries
      BY <1>1
    <3>1. CASE Hit(p) \/ Miss(p)
      <4>1. pick[p].at = "lookup" /\ pick[p].at \in Stages
        BY <3>1 DEF Hit, Miss, Stages
      <4>2. pick[p].clock \in Nat /\ pick[p].clock <= now /\ pick[p].key \in Keys
        BY <1>1, <4>1, PickFacts
      <4>3. CASE Hit(p)
        BY <1>1, <2>0, <4>2, <4>3 DEF Hit, Renewed, TypeOK, Bindings, NoBinding
      <4>4. CASE Miss(p)
        <5>1. pick[p].key = k
          BY <1>1, <2>0, <4>2, <4>4 DEF Miss, TypeOK
        <5>2. Expired(entries[k], pick[p].clock)
          BY <1>1, <4>4, <5>1 DEF Miss, Standing
        <5> QED BY <2>0, <4>2, <5>2 DEF Expired
      <4> QED BY <3>1, <4>3, <4>4
    <3>2. CASE Drop(p)
      <4>1. pick[p].at = "drop" /\ pick[p].at \in Stages
        BY <3>2 DEF Drop, Stages
      <4>2. InFlight(p) /\ Fallback[pick[p].key] = k
        BY <1>1, <2>0, <3>2, <4>1, PickFacts DEF Drop, TypeOK
      <4>3. p \notin alone
        BY <1>1, <4>1, <4>2 DEF IInv, Dropping
      <4> QED BY <4>1, <4>2, <4>3 DEF Deletes
    <3>3. CASE Bind(p)
      <4>1. pick[p].at = "bind" /\ pick[p].at \in Stages
        BY <3>3 DEF Bind, Stages
      <4>2. InFlight(p) /\ pick[p].key = k
        BY <1>1, <2>0, <3>3, <4>1, PickFacts DEF Bind, TypeOK
      <4>3. p \in alone => entries[k].auth \notin pick[p].offered
        BY <1>1, <4>1, <4>2 DEF IInv, LookedUp
      <4> QED BY <4>1, <4>2, <4>3 DEF Overwrites
    <3> QED BY <2>1, <3>0, <3>1, <3>2, <3>3 DEF Step, Begin, Peek, Check, Choose
  <2>2. CASE Sweep
    <3>1. sweep \in Nat /\ sweep <= now /\ Swept(entries[k], sweep) # entries[k]
      BY <1>1, <2>0, <2>2 DEF Sweep, TypeOK, IInv, ClocksOK
    <3> QED BY <2>0, <3>1 DEF Swept, Expired
  <2>3. CASE ReadClock \/ Tick
    BY <1>1, <2>3 DEF ReadClock, Tick
  <2> QED BY <1>1, <2>1, <2>2, <2>3 DEF Next
<1>2. ASSUME IInv, [Next]_vars
      PROVE  [\A k \in Keys :
                Standing(entries[k]) /\ entries'[k].auth # entries[k].auth
                => \/ \E p \in Picks : InFlight(p) /\ (Overwrites(p, k) \/ Deletes(p, k))
                   \/ SetSelector]_vars
  BY <1>1, <1>2
<1> QED BY <1>2, Invariance, PTL DEF Spec, Retained
=============================================================================
