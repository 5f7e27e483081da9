--------------------------- MODULE AuthScheduler ---------------------------
(***************************************************************************)
(* scheduler.go: the choice of a credential for a request, from records    *)
(* kept up to date as credentials change instead of a look at every one.   *)
(* A provider has a shard for each model that was asked for; a shard has   *)
(* an entry for each credential that supports the model, an index of the   *)
(* ready entries by priority, rebuilt when an entry changes, and cursors   *)
(* that the rotation advances and a rebuild of the index keeps.  Every     *)
(* method holds the scheduler's mutex, and is one action here.             *)
(*                                                                         *)
(* Lists sorted by ID are sets: a cursor counts positions in the order of  *)
(* the IDs.  The keys of credentials, parents and providers are given      *)
(* normalised.  A snapshot does not change once the scheduler has it (for  *)
(* objects it shares with the manager, see AuthSync).                      *)
(***************************************************************************)
EXTENDS CredentialRequest

CONSTANTS
    Shapes,     \* the contents each credential can have, cooldowns apart
    Holds,      \* the cooldowns it can have, relative to the clock
    None,       \* no provider, no entry, no record in the index
    MaxNow,     \* bound: the last instant of a run
    MaxChanges  \* bound: changes of credentials, rebuilds, changes of strategy

Groups == Parents \cup {NoParent}

EntryType == [state : {"ready", "cooldown", "blocked", "disabled"}, until : Nat]
MetaType == [priority : Priorities, parent : Groups, ws : BOOLEAN]

ASSUME SchedulerAssumption ==
    /\ Shapes \in [Creds -> SUBSET ShapeType]
    /\ Holds \subseteq HoldType
    /\ None \notin Providers \cup EntryType \cup MetaType
    /\ MaxNow \in Nat /\ MaxChanges \in Nat

VARIABLES
    strategy,   \* of the selector the manager was given
    authProviders,      \* the provider each credential is with, or None
    known,      \* the providers that have a record
    meta,       \* the snapshots each provider has, or NoCred
    shard,      \* the shard of each provider and model
    now,
    answer,     \* the last choice made
    mixed,      \* the cursor of each route and model with several providers
    turn,       \* history: the last picks made for the same request
    changes

vars == <<strategy, authProviders, known, meta, shard, now, answer, mixed, turn, changes>>

(* The snapshot the scheduler has of each credential: what the abstract    *)
(* specification knows of it.                                              *)
Held == [c \in Creds |->
           IF authProviders[c] = None THEN NoCred ELSE meta[authProviders[c]][c]]

Choice == INSTANCE CredentialChoice WITH auths <- Held

Strategies == {"roundRobin", "fillFirst"}
Views == {"all", "ws"}

CursorType == [flat : Nat, parent : Nat, child : [Parents -> Nat]]

(* What the last rebuild of the indexes saw: index[c] of an entry that it  *)
(* put in the ready views, and the entries it put in the blocked list.     *)
ShardType == [ built  : BOOLEAN,
               entry  : [Creds -> EntryType \cup {None}],
               index  : [Creds -> MetaType \cup {None}],
               blocked: SUBSET Creds,
               cursor : [Priorities -> [Views -> CursorType]] ]

FirstPlace == [flat |-> 0, parent |-> 0, child |-> [g \in Parents |-> 0]]
NoShard == [ built  |-> FALSE,
             entry  |-> [c \in Creds |-> None],
             index  |-> [c \in Creds |-> None],
             blocked |-> {},
             cursor |-> [p \in Priorities |-> [v \in Views |-> FirstPlace]] ]
NoShards == [p \in Providers |-> [m \in Models |-> NoShard]]

NoAnswer == [kind |-> "none"]
NoTurn == [req |-> NoAnswer, picks |-> <<>>]

Init ==
    /\ strategy = "roundRobin"
    /\ authProviders = [c \in Creds |-> None]
    /\ known = {}
    /\ meta = [p \in Providers |-> [c \in Creds |-> NoCred]]
    /\ now = 0
    /\ answer = NoAnswer
    /\ shard = NoShards
    /\ mixed = [key \in {q.route : q \in Requests} \X Models |-> 0]
    /\ turn = NoTurn
    /\ changes = 0

-----------------------------------------------------------------------------
(* The ready views of an index.                                            *)

Ready(index, view) ==
    {c \in Creds : index[c] # None /\ (view = "ws" => index[c].ws)}

Tier(index, view, priority) ==
    {c \in Ready(index, view) : index[c].priority = priority}

ParentsIn(index, S) == {index[c].parent : c \in S}
ChildrenOf(index, S, g) == {c \in S : index[c].parent = g}

(* Only credentials of several parents, all with one, rotate in two levels.*)
Grouped(index, S) ==
    /\ NoParent \notin ParentsIn(index, S)
    /\ Cardinality(ParentsIn(index, S)) > 1

NormalizeCursor(k, size) == IF size = 0 THEN 0 ELSE k % size

(* snapshotReadyViewCursors and restoreReadyViewCursors: S is the view of  *)
(* the old index, T that of the new one.                                   *)
Restored(cur, oldIndex, S, newIndex, T) ==
    LET groups == ParentsIn(newIndex, T)
    IN [ flat   |-> NormalizeCursor(cur.flat, Cardinality(T)),
         parent |-> IF Grouped(newIndex, T)
                    THEN NormalizeCursor(cur.parent, Cardinality(groups)) ELSE 0,
         child  |-> [g \in Parents |->
                       IF Grouped(newIndex, T) /\ Grouped(oldIndex, S)
                       THEN NormalizeCursor(cur.child[g],
                                            Cardinality(ChildrenOf(newIndex, T, g)))
                       ELSE 0] ]

Meta(a) == [priority |-> a.shape.priority, parent |-> a.shape.parent, ws |-> a.shape.ws]

InState(entry, states) == {c \in Creds : entry[c] # None /\ entry[c].state \in states}

ReadyIndex(ms, entry) ==
    [c \in Creds |-> IF c \in InState(entry, {"ready"}) THEN Meta(ms[c]) ELSE None]

BlockedList(entry) == InState(entry, {"cooldown", "blocked"})

(* rebuildIndexesLocked, ms being the snapshots of the provider.           *)
Rebuilt(s, ms, entry) ==
    LET index == ReadyIndex(ms, entry)
    IN [ built   |-> TRUE,
         entry   |-> entry,
         index   |-> index,
         blocked |-> BlockedList(entry),
         cursor  |-> [p \in Priorities |-> [v \in Views |->
                        Restored(s.cursor[p][v], s.index, Tier(s.index, v, p),
                                 index, Tier(index, v, p))]] ]

-----------------------------------------------------------------------------
(* The entries of a shard.                                                 *)

Recorded(state, until) == [state |-> state, until |-> until]

(* isAuthBlockedForModel, and what an entry keeps of its answer.           *)
Classified(a, m) ==
    LET hold == a.hold[m]
    IN CASE a.shape.off        -> Recorded("disabled", 0)
         [] ~a.shape.off /\ hold.retry <= now -> Recorded("ready", 0)
         [] OTHER -> Recorded(IF hold.exceeded THEN "cooldown" ELSE "blocked",
                              IF hold.recover > now THEN hold.recover ELSE hold.retry)

Supports(a, m) == a # NoCred /\ m \in a.shape.models

\* Mutant: a change of priority, parent or websocket support leaves the index.
UpsertedByStateOnly(s, old, new, c, m) ==
    IF s.entry[c] = Classified(new[c], m)
    THEN s
    ELSE Rebuilt(s, new, [s.entry EXCEPT ![c] = Classified(new[c], m)])

(* upsertEntryLocked, as the snapshots of the provider go from old to new: *)
(* the index is left alone if nothing that it depends on changed.          *)
Upserted(s, old, new, c, m) ==
    IF s.entry[c] = Classified(new[c], m) /\ Meta(old[c]) = Meta(new[c])
    THEN s
    ELSE Rebuilt(s, new, [s.entry EXCEPT ![c] = Classified(new[c], m)])

Removed(s, new, c) ==
    IF s.entry[c] = None THEN s ELSE Rebuilt(s, new, [s.entry EXCEPT ![c] = None])

Refreshed(s, old, new, c, m) ==
    IF ~s.built THEN s
    ELSE IF Supports(new[c], m) THEN Upserted(s, old, new, c, m) ELSE Removed(s, new, c)

(* promoteExpiredLocked.                                                   *)
Promoted(s, ms, m) ==
    LET expired == {c \in s.blocked : s.entry[c].until <= now}
    IN IF expired = {} THEN s
       ELSE Rebuilt(s, ms, [c \in Creds |-> IF c \in expired THEN Classified(ms[c], m)
                                                             ELSE s.entry[c]])

Built(ms, m) ==
    Rebuilt(NoShard, ms, [c \in Creds |-> IF Supports(ms[c], m) THEN Classified(ms[c], m)
                                                               ELSE None])

(* ensureModelLocked, for a provider that has a record.                    *)
\* Mutant: an expired cooldown is not noticed before the pick.
EnsuredStale(p, m) ==
    IF p \notin known \/ shard[p][m].built THEN shard[p][m] ELSE Built(meta[p], m)

Ensured(p, m) ==
    IF p \notin known THEN shard[p][m]
    ELSE IF shard[p][m].built THEN Promoted(shard[p][m], meta[p], m) ELSE Built(meta[p], m)

-----------------------------------------------------------------------------
(* Rotation.  S is a view, ok the credentials the request accepts.         *)

Place(S, x) == Cardinality({y \in S : y < x})

(* How far the rotation goes from the cursor until it comes to x.          *)
Distance(S, cur, x) ==
    (Place(S, x) + Cardinality(S) - (cur % Cardinality(S))) % Cardinality(S)

IsFirst(S, ok, x) == x \in S \cap ok /\ \A y \in S \cap ok : x <= y

IsNext(S, cur, ok, x) ==
    /\ x \in S \cap ok
    /\ \A y \in S \cap ok : Distance(S, cur, x) <= Distance(S, cur, y)

(* pickRoundRobin and pickGroupedRoundRobin: parents first, then the       *)
(* credentials of the parent.                                              *)
IsNextIn(index, S, cur, ok, x) ==
    IF Grouped(index, S)
    THEN LET g == index[x].parent
         IN /\ IsNext(ParentsIn(index, S), cur.parent, ParentsIn(index, S \cap ok), g)
            /\ IsNext(ChildrenOf(index, S, g), cur.child[g], ok, x)
    ELSE IsNext(S, cur.flat, ok, x)

\* Mutant: the cursor is left on the credential that was given out.
AdvancedShort(index, S, cur, x) ==
    IF Grouped(index, S)
    THEN LET g == index[x].parent
         IN [cur EXCEPT !.parent = Place(ParentsIn(index, S), g)]
    ELSE [cur EXCEPT !.flat = Place(S, x)]

\* Mutant: the cursor goes the wrong way.
AdvancedBack(index, S, cur, x) == [cur EXCEPT !.flat = Place(S, x) - 1]

Advanced(index, S, cur, x) ==
    IF Grouped(index, S)
    THEN LET g == index[x].parent
         IN [cur EXCEPT !.parent   = Place(ParentsIn(index, S), g) + 1,
                        !.child[g] = Place(ChildrenOf(index, S, g), x) + 1]
    ELSE [cur EXCEPT !.flat = Place(S, x) + 1]

(* pickReadyAtPriorityLocked: x is what a shard gives, and the shard then. *)
Gives(s, view, priority, strat, ok, x) ==
    LET S == Tier(s.index, view, priority)
    IN /\ x \in S \cap ok
       /\ IF strat = "fillFirst"
          THEN IsFirst(S, ok, x)
          ELSE IsNextIn(s.index, S, s.cursor[priority][view], ok, x)

Having(s, view, priority, strat, x) ==
    IF strat = "fillFirst" THEN s
    ELSE [s EXCEPT !.cursor[priority][view] =
             Advanced(s.index, Tier(s.index, view, priority), @, x)]

-----------------------------------------------------------------------------
(* The scheduler is told of a change.                                      *)

Counted ==
    /\ changes < MaxChanges
    /\ changes' = changes + 1
    /\ answer' = NoAnswer
    /\ turn' = NoTurn

Replace(news) ==
    /\ Counted
    /\ meta' = [p \in Providers |-> IF p \in DOMAIN news THEN news[p] ELSE meta[p]]
    /\ UNCHANGED <<strategy, now, mixed>>

ShardsRefreshed(c, ps) ==
    [p \in Providers |-> [m \in Models |->
        IF p \in ps THEN Refreshed(shard[p][m], meta[p], meta'[p], c, m) ELSE shard[p][m]]]

\* Mutant: a credential that moves stays with its old provider too.
LeavingNone(c, p) == {p}

(* The providers whose records an upsert changes.                          *)
Leaving(c, p) == {p} \cup ({authProviders[c]} \ {None})

(* upsertAuth.                                                             *)
Upsert(c, shape, hold) ==
    LET p   == shape.provider
        new == [shape |-> shape,
                hold  |-> [m \in Models |->
                             [exceeded |-> hold[m].exceeded,
                              retry    |-> IF hold[m].retry = 0 THEN 0 ELSE now + hold[m].retry,
                              recover  |-> IF hold[m].recover = 0 THEN 0
                                           ELSE now + hold[m].recover]]]
    IN /\ Replace([q \in Leaving(c, p) |->
                     [meta[q] EXCEPT ![c] = IF q = p THEN new ELSE NoCred]])
       /\ authProviders' = [authProviders EXCEPT ![c] = p]
       /\ known' = known \cup {p}
       /\ shard' = ShardsRefreshed(c, Leaving(c, p))

(* removeAuth, and upsertAuth of a snapshot that is disabled.              *)
Remove(c) ==
    LET p == authProviders[c]
    IN /\ p # None
       /\ Replace([q \in {p} |-> [meta[q] EXCEPT ![c] = NoCred]])
       /\ authProviders' = [authProviders EXCEPT ![c] = None]
       /\ shard' = ShardsRefreshed(c, {p})
       /\ UNCHANGED known

(* Manager.syncScheduler, when a pick has failed: everything is built      *)
(* again from the snapshots, and every cursor starts afresh.               *)
Rebuild ==
    /\ known' = {authProviders[c] : c \in Creds} \ {None}
    /\ meta' = [p \in Providers |-> [c \in Creds |->
                  IF authProviders[c] = p THEN Held[c] ELSE NoCred]]
    /\ shard' = NoShards
    /\ mixed' = [k \in DOMAIN mixed |-> 0]
    /\ Counted
    /\ UNCHANGED <<strategy, authProviders, now>>

SetSelector ==
    /\ strategy' \in Strategies
    /\ mixed' = [k \in DOMAIN mixed |-> 0]
    /\ Counted
    /\ UNCHANGED <<authProviders, known, meta, shard, now>>

Pass ==
    /\ now < MaxNow
    /\ now' = now + 1
    /\ answer' = NoAnswer
    /\ UNCHANGED <<strategy, authProviders, known, meta, shard, mixed, turn, changes>>

-----------------------------------------------------------------------------
(* The scheduler is asked for a credential.  sh holds the shards of the    *)
(* model, for the providers the request is about, brought up to date.      *)

Eligible(sh, p, view, priority, r) == Tier(sh[p].index, view, priority) \cap Wanted(r)

WithShards(sh, m) ==
    [p \in Providers |-> IF p \in DOMAIN sh THEN [shard[p] EXCEPT ![m] = sh[p]]
                                            ELSE shard[p]]

Indexes(shards) == [p \in Providers |-> [m \in Models |-> shards[p][m].index]]

(* The picks that rotate over all the S credentials of the best priority.  *)
Turned(r, x, S, sh) ==
    IF r.tried # {} \/ r.pin # NoCred \/ strategy = "fillFirst"
    THEN NoTurn
    ELSE [req   |-> r,
          picks |-> IF turn.req = r /\ Indexes(WithShards(sh, r.model)) = Indexes(shard)
                    THEN Append(IF Len(turn.picks) = Cardinality(S) THEN Tail(turn.picks)
                                                                    ELSE turn.picks, x)
                    ELSE <<x>>]

Picked(r, x, S, sh, p, got) ==
    /\ answer' = [kind |-> "chosen", req |-> r, cred |-> x]
    /\ shard' = WithShards([sh EXCEPT ![p] = got], r.model)
    /\ turn' = Turned(r, x, S, sh)
    /\ UNCHANGED <<strategy, authProviders, known, meta, now, changes>>

(* unavailableErrorLocked and mixedUnavailableErrorLocked.                *)
Reason(sh, r) ==
    LET total == {c \in Wanted(r) : \E p \in DOMAIN sh : sh[p].entry[c] # None}
        cooling == {c \in total : \E p \in DOMAIN sh : c \in InState(sh[p].entry, {"cooldown"})}
    IN IF total = {} THEN "not_found"
       ELSE IF cooling = total THEN "cooldown" ELSE "unavailable"

Refused(r, sh) ==
    /\ answer' = [kind |-> "refused", req |-> r, why |-> Reason(sh, r)]
    /\ shard' = WithShards(sh, r.model)
    /\ turn' = IF Indexes(WithShards(sh, r.model)) = Indexes(shard) THEN turn ELSE NoTurn
    /\ UNCHANGED <<strategy, authProviders, known, meta, now, mixed, changes>>

IsBest(sh, view, priority, r) ==
    /\ \E p \in DOMAIN sh : Eligible(sh, p, view, priority, r) # {}
    /\ \A q \in Priorities, p \in DOMAIN sh :
          q > priority => Eligible(sh, p, view, q, r) = {}

NoneReady(sh, r) ==
    \A p \in DOMAIN sh : Ready(sh[p].index, "all") \cap Wanted(r) = {}

(* pickReadyLocked of one shard.                                           *)
ViewFor(s, r) ==
    IF PrefersWebsocket(r) /\ Ready(s.index, "ws") \cap Wanted(r) # {} THEN "ws" ELSE "all"

PickIn(r, p) ==
    LET s    == Ensured(p, r.model)
        sh   == [q \in {p} |-> s]
        view == ViewFor(s, r)
    IN \/ /\ NoneReady(sh, r)
          /\ Refused(r, sh)
       \/ \E priority \in Priorities, x \in Creds :
            /\ IsBest(sh, view, priority, r)
            /\ Gives(s, view, priority, strategy, Wanted(r), x)
            /\ Picked(r, x, Tier(s.index, view, priority), sh, p,
                      Having(s, view, priority, strategy, x))
            /\ UNCHANGED mixed

PickSingle(r) == Len(r.route) = 1 /\ PickIn(r, r.route[1])

(* pickMixed of a request that must have one credential.                   *)
PickPinned(r) ==
    /\ Len(r.route) > 1 /\ r.pin # NoCred
    /\ IF authProviders[r.pin] \in RouteProviders(r)
       THEN PickIn(r, authProviders[r.pin])
       ELSE Refused(r, <<>>)

(* The ready credentials of the best priority, over the providers of the   *)
(* route up to the i-th: their number is where the segment of the next     *)
(* provider starts.                                                        *)
Upto(sh, r, priority, i) ==
    UNION {Tier(sh[r.route[j]].index, "all", priority) : j \in 1 .. i}

Segment(sh, r, priority, i) ==
    Cardinality(Upto(sh, r, priority, i - 1))
        .. Cardinality(Upto(sh, r, priority, i)) - 1

(* The provider in whose segment the slot lies, or the next one on the     *)
(* route that has a credential the request accepts.                        *)
IsServing(sh, r, priority, slot, i) ==
    LET n     == Len(r.route)
        start == CHOOSE k \in 1 .. n : slot \in Segment(sh, r, priority, k)
        able  == {k \in 1 .. n : Eligible(sh, r.route[k], "all", priority, r) # {}}
    IN i \in able /\ \A k \in able : (i - start + n) % n <= (k - start + n) % n

PickMixedFirst(r, sh, priority) ==
    \E i \in 1 .. Len(r.route), x \in Creds :
        /\ \A k \in 1 .. i - 1 : Eligible(sh, r.route[k], "all", priority, r) = {}
        /\ Gives(sh[r.route[i]], "all", priority, strategy, Wanted(r), x)
        /\ Picked(r, x, {}, sh, r.route[i], sh[r.route[i]])
        /\ UNCHANGED mixed

NextSlot(sh, r, priority, slot, i) ==
    IF slot \in Segment(sh, r, priority, i)
    THEN slot + 1
    ELSE Cardinality(Upto(sh, r, priority, i - 1)) + 1

PickMixedInTurn(r, sh, priority) ==
    LET all  == Upto(sh, r, priority, Len(r.route))
        key  == <<r.route, r.model>>
        slot == mixed[key] % Cardinality(all)
    IN \E i \in 1 .. Len(r.route), x \in Creds :
         LET p == r.route[i]
         IN /\ IsServing(sh, r, priority, slot, i)
            /\ Gives(sh[p], "all", priority, "roundRobin", Wanted(r), x)
            /\ Picked(r, x, all, sh, p, Having(sh[p], "all", priority, "roundRobin", x))
            /\ mixed' = [mixed EXCEPT ![key] = NextSlot(sh, r, priority, slot, i)]

PickMixed(r) ==
    LET ps == RouteProviders(r)
        sh == [p \in ps |-> Ensured(p, r.model)]
    IN /\ Len(r.route) > 1 /\ r.pin = NoCred
       /\ \/ NoneReady(sh, r) /\ Refused(r, sh)
          \/ \E priority \in Priorities :
                /\ IsBest(sh, "all", priority, r)
                /\ IF strategy = "fillFirst" THEN PickMixedFirst(r, sh, priority)
                                             ELSE PickMixedInTurn(r, sh, priority)

-----------------------------------------------------------------------------
Next ==
    \/ \E c \in Creds : \/ \E shape \in Shapes[c], hold \in [Models -> Holds] : Upsert(c, shape, hold)
                       \/ Remove(c)
    \/ Rebuild
    \/ SetSelector
    \/ Pass
    \/ \E r \in Requests : PickSingle(r) \/ PickPinned(r) \/ PickMixed(r)

Spec == Init /\ [][Next]_vars

-----------------------------------------------------------------------------
(* Properties.                                                             *)

TypeOK ==
    /\ strategy \in Strategies
    /\ authProviders \in [Creds -> Providers \cup {None}]
    /\ known \subseteq Providers
    /\ meta \in [Providers -> [Creds -> Snapshots \cup {NoCred}]]
    /\ shard \in [Providers -> [Models -> ShardType]]
    /\ now \in Nat
    /\ changes \in Nat
    /\ mixed \in [{q.route : q \in Requests} \X Models -> Nat]

(* The choices the scheduler makes from its shards are choices that a look *)
(* at every credential could make: nothing blocked is given out, nothing   *)
(* better that is surely free is passed over, refusals are true.           *)
ImplementsChoice == Choice!Spec

(* Each credential is with one provider at most, the one that              *)
(* authProviders names, whatever providers its snapshots name in turn.     *)
OneProvider ==
    \A p \in Providers, c \in Creds : meta[p][c] # NoCred <=> authProviders[c] = p

(* A shard has an entry for the credentials of its provider that support   *)
(* the model, and its index is what a rebuild would make of the entries,   *)
(* though most changes do not rebuild it.                                  *)
IndexCurrent ==
    \A p \in Providers, m \in Models :
        LET s == shard[p][m]
        IN s.built =>
             /\ \A c \in Creds : s.entry[c] # None <=> Supports(meta[p][c], m)
             /\ s.index = ReadyIndex(meta[p], s.entry)
             /\ s.blocked = BlockedList(s.entry)

(* Rotation: as long as nothing else happens, requests for the same route  *)
(* get every ready credential of the best priority once before they get    *)
(* one again, across the providers of the route; virtual credentials, a    *)
(* credential of every parent.                                             *)
Rotates ==
    LET r    == turn.req
        sh   == [p \in Providers |-> shard[p][r.model]]
        view == IF Len(r.route) = 1 THEN ViewFor(sh[r.route[1]], r) ELSE "all"
        S(p) == Tier(sh[p].index, view, meta[authProviders[turn.picks[1]]][turn.picks[1]].shape.priority)
        n    == Len(turn.picks)
    IN n > 0 =>
         IF \E p \in RouteProviders(r) : Grouped(sh[p].index, S(p))
         THEN Len(r.route) = 1 =>
                LET p == r.route[1]
                    k == Cardinality(ParentsIn(sh[p].index, S(p)))
                IN \A i, j \in 1 .. n :
                     (i < j /\ j - i < k) => sh[p].index[turn.picks[i]].parent
                                               # sh[p].index[turn.picks[j]].parent
         ELSE \A i, j \in 1 .. n : i # j => turn.picks[i] # turn.picks[j]
=============================================================================
