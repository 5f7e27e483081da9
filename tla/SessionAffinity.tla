-------------------------- MODULE SessionAffinity --------------------------
(***************************************************************************)
(* The session-affinity selector: which credential the requests of one     *)
(* session get.  Picks run next to each other (under the read lock of the  *)
(* manager), and each is a sequence of critical sections of the session    *)
(* cache, with a clock that goes on between them.                          *)
(*                                                                         *)
(* A key stands for provider, session and model.  A conversation without a *)
(* session of its own is known by the hash of its first messages: with the *)
(* first answer it gets another key, and Fallback leads from there to the  *)
(* key of the first turn, whose binding the second turn inherits.          *)
(***************************************************************************)
EXTENDS Integers

CONSTANTS
    Auths,      \* the credentials
    NoAuth,     \* not one of them
    Keys,       \* the keys of the cache
    NoKey,      \* not one of them: there is no fallback ID
    Fallback,   \* the key of the first turn, per key
    Picks,      \* the concurrent calls of Pick
    TTL,        \* how long a binding is good for
    MaxNow      \* bound of the clock, for model checking

ASSUME AffinityAssumption ==
    /\ NoAuth \notin Auths /\ NoKey \notin Keys
    /\ Fallback \in [Keys -> Keys \cup {NoKey}]
    /\ \A k \in Keys : Fallback[k] # k
    /\ TTL \in Nat \ {0} /\ MaxNow \in Nat

VARIABLES
    entries,    \* the cache: who serves a key, and when that expires
    pick,       \* the picks under way
    now,        \* the clock
    sweep,      \* the clock as cleanup has read it, Never outside cleanup
    promise,    \* history: what the last pick of a key gave, and until when
    used,       \* history: the keys that were picked for
    alone       \* history: the picks no other pick has met

vars == <<entries, pick, now, sweep, promise, used, alone>>
history == <<promise, used, alone>>

Never == -1
NoBinding == [auth |-> NoAuth, expires |-> Never]
Bindings == [auth : Auths, expires : Nat] \cup {NoBinding}

Stages == {"lookup", "inherit", "check", "drop", "choose", "bind"}
Idle == [at |-> "idle"]
Running == [ at : Stages, key : Keys, offered : SUBSET Auths, clock : Nat,
             found : Bindings, choice : Auths \cup {NoAuth} ]

InFlight(p) == pick[p] # Idle
Meet(k, l) == k = l \/ Fallback[k] = l \/ Fallback[l] = k

Init ==
    /\ entries = [k \in Keys |-> NoBinding]
    /\ pick = [p \in Picks |-> Idle]
    /\ now = 0
    /\ sweep = Never
    /\ promise = [k \in Keys |-> NoBinding]
    /\ used = {}
    /\ alone = {}

-----------------------------------------------------------------------------
(* A request comes for key k.  offered are the credentials of the best     *)
(* priority that are free for its model and were not tried before: with    *)
(* none, Pick fails before it looks at the cache.                          *)
Begin(p, k, offered) ==
    /\ ~InFlight(p)
    /\ pick' = [pick EXCEPT ![p] =
                  [ at |-> "lookup", key |-> k, offered |-> offered, clock |-> now,
                    found |-> NoBinding, choice |-> NoAuth ]]
    /\ LET met == {q \in Picks : InFlight(q) /\ Meet(k, pick[q].key)}
       IN alone' = IF met = {} THEN alone \cup {p} ELSE alone \ (met \cup {p})
    /\ UNCHANGED <<entries, now, sweep, promise, used>>

(* Pick returns a.  What follows for the session: as long as it is free,   *)
(* the same credential until the binding expires, counted from the start   *)
(* of this pick - unless another pick of the session was under way.        *)
Return(p, a) ==
    LET k == pick[p].key
    IN /\ pick' = [pick EXCEPT ![p] = Idle]
       /\ promise' = [promise EXCEPT ![k] =
                        IF p \in alone
                        THEN [auth |-> a, expires |-> pick[p].clock + TTL]
                        ELSE NoBinding]
       /\ used' = used \cup {k}
       /\ alone' = alone \ {p}

Expired(b, t) == t > b.expires

\* Mutant: a hit does not refresh the binding.
RenewedNot(b, t) == b

(* GetAndRefresh, whose clock was read before the lock was taken.          *)
Renewed(b, t) == [b EXCEPT !.expires = t + TTL]

Hit(p) ==
    LET k == pick[p].key
    IN /\ pick[p].at = "lookup"
       /\ entries[k] # NoBinding /\ ~Expired(entries[k], pick[p].clock)
       /\ entries' = [entries EXCEPT ![k] = Renewed(@, pick[p].clock)]
       /\ IF entries[k].auth \in pick[p].offered
          THEN Return(p, entries[k].auth)
          ELSE /\ pick' = [pick EXCEPT ![p].at = "choose"]
               /\ UNCHANGED history
       /\ UNCHANGED <<now, sweep>>

Miss(p) ==
    LET k == pick[p].key
    IN /\ pick[p].at = "lookup"
       /\ entries[k] = NoBinding \/ Expired(entries[k], pick[p].clock)
       /\ entries' = [entries EXCEPT ![k] = NoBinding]
       /\ pick' = [pick EXCEPT ![p].at = IF Fallback[k] = NoKey THEN "choose"
                                                                ELSE "inherit"]
       /\ UNCHANGED <<now, sweep, history>>

(* Get on the key of the first turn: the entry is read under the read      *)
(* lock, held against the clock outside of it, and deleted, if it has      *)
(* expired, under the write lock - whatever it is by then.                 *)
Peek(p) ==
    /\ pick[p].at = "inherit"
    /\ LET b == entries[Fallback[pick[p].key]]
       IN pick' = IF b = NoBinding
                  THEN [pick EXCEPT ![p].at = "choose"]
                  ELSE [pick EXCEPT ![p].at = "check", ![p].found = b]
    /\ UNCHANGED <<entries, now, sweep, history>>

Check(p) ==
    /\ pick[p].at = "check"
    /\ LET b == pick[p].found
       IN pick' = IF Expired(b, now)
                  THEN [pick EXCEPT ![p].at = "drop"]
                  ELSE IF b.auth \in pick[p].offered
                       THEN [pick EXCEPT ![p].at = "bind", ![p].choice = b.auth]
                       ELSE [pick EXCEPT ![p].at = "choose"]
    /\ UNCHANGED <<entries, now, sweep, history>>

Drop(p) ==
    /\ pick[p].at = "drop"
    /\ entries' = [entries EXCEPT ![Fallback[pick[p].key]] = NoBinding]
    /\ pick' = [pick EXCEPT ![p].at = "choose"]
    /\ UNCHANGED <<now, sweep, history>>

(* The wrapped selector picks.  It looks at the clock itself, so that what *)
(* it picks may have become free only since Pick has looked.               *)
Choose(p, a) ==
    /\ pick[p].at = "choose"
    /\ pick' = [pick EXCEPT ![p].at = "bind", ![p].choice = a]
    /\ UNCHANGED <<entries, now, sweep, history>>

Bind(p) ==
    /\ pick[p].at = "bind"
    /\ entries' = [entries EXCEPT ![pick[p].key] =
                     [auth |-> pick[p].choice, expires |-> now + TTL]]
    /\ Return(p, pick[p].choice)
    /\ UNCHANGED <<now, sweep>>

-----------------------------------------------------------------------------
(* cleanup reads the clock, then takes the lock.                           *)
ReadClock ==
    /\ sweep = Never
    /\ sweep' = now
    /\ UNCHANGED <<entries, pick, now, history>>

\* Mutant: a binding goes at the instant it expires, not after it.
SweptEarly(b, t) == IF t >= b.expires THEN NoBinding ELSE b

Swept(b, t) == IF Expired(b, t) THEN NoBinding ELSE b

Sweep ==
    /\ sweep # Never
    /\ entries' = [k \in Keys |-> Swept(entries[k], sweep)]
    /\ sweep' = Never
    /\ UNCHANGED <<pick, now, history>>

(* A change of the routing settings makes a new selector with a new cache. *)
(* SetSelector takes the write lock, so no pick is under way.              *)
SetSelector ==
    /\ \A p \in Picks : ~InFlight(p)
    /\ entries' = [k \in Keys |-> NoBinding]
    /\ sweep' = Never
    /\ promise' = [k \in Keys |-> NoBinding]
    /\ used' = {}
    /\ UNCHANGED <<pick, now, alone>>

Tick ==
    /\ now < MaxNow
    /\ now' = now + 1
    /\ UNCHANGED <<entries, pick, sweep, history>>

Step(p) ==
    \/ \E k \in Keys, offered \in SUBSET Auths \ {{}} : Begin(p, k, offered)
    \/ Hit(p) \/ Miss(p)
    \/ Peek(p) \/ Check(p) \/ Drop(p)
    \/ \E a \in Auths : Choose(p, a)
    \/ Bind(p)

Next ==
    \/ \E p \in Picks : Step(p)
    \/ ReadClock \/ Sweep
    \/ SetSelector
    \/ Tick

Spec == Init /\ [][Next]_vars

-----------------------------------------------------------------------------
(* No lookup, expiry or cleanup leaves anything but whole bindings, and a  *)
(* pick that has found or chosen a credential holds one.                   *)
TypeOK ==
    /\ entries \in [Keys -> Bindings]
    /\ pick \in [Picks -> Running \cup {Idle}]
    /\ now \in Nat
    /\ sweep \in Nat \cup {Never}
    /\ promise \in [Keys -> Bindings]
    /\ used \in SUBSET Keys
    /\ alone \in SUBSET Picks

(* What a session may expect: the credential its last request got, as long *)
(* as its binding lasts, or, in its second turn, the one of the first.     *)
Standing(b) == b # NoBinding /\ ~Expired(b, now)

Owed(k, a) ==
    \/ Standing(promise[k]) /\ a = promise[k].auth
    \/ /\ k \notin used /\ Fallback[k] # NoKey
       /\ Standing(promise[Fallback[k]]) /\ a = promise[Fallback[k]].auth

Answer(p) ==
    IF pick[p].at = "bind" THEN pick[p].choice ELSE entries[pick[p].key].auth

(* A session stays with its credential: a request that meets no other of   *)
(* its session gets the credential the last one got, if it is offered and  *)
(* the binding has not expired - through refreshes, expiries of other      *)
(* bindings, cleanups and the second turn's change of key                  *)
(* (SessionAffinitySelector.Pick).                                         *)
Sticky ==
    [][\A p \in Picks :
          InFlight(p) /\ ~InFlight(p)' /\ p \in alone
          => \A a \in pick[p].offered : Owed(pick[p].key, a) => Answer(p) = a]_vars

(* A binding that has not expired is given up only to a pick that cannot   *)
(* use it, or to picks of the session that overlap: two that find none     *)
(* both bind, and Get deletes what another pick has renewed since Get      *)
(* looked (session_cache.go checks and deletes under different locks).     *)
Overwrites(p, k) ==
    /\ pick[p].at = "bind" /\ pick[p].key = k
    /\ p \in alone => entries[k].auth \notin pick[p].offered

Deletes(p, k) ==
    /\ pick[p].at = "drop" /\ Fallback[pick[p].key] = k
    /\ p \notin alone

Retained ==
    [][\A k \in Keys :
          Standing(entries[k]) /\ entries'[k].auth # entries[k].auth
          => \/ \E p \in Picks : InFlight(p) /\ (Overwrites(p, k) \/ Deletes(p, k))
             \/ SetSelector]_vars
=============================================================================
