------------------------ MODULE AuthSchedulerProofs ------------------------
(***************************************************************************)
(* Proofs about AuthScheduler: its types, that every credential is with    *)
(* one provider and every index is what a rebuild would make of it, that   *)
(* the scheduler implements CredentialChoice, and that its picks rotate,   *)
(* for any credentials, providers, models, cooldowns and requests.         *)
(***************************************************************************)
EXTENDS AuthScheduler, FiniteSetTheorems, TLAPS

Metas == [Creds -> Snapshots \cup {NoCred}]

(* What an entry remembers of the snapshot it was made from, by time t.    *)
EntryOK(e, a, m, t) ==
    /\ e.state = "disabled" <=> a.shape.off
    /\ e.state = "ready" => a.hold[m].retry <= t
    /\ e.state = "cooldown" => a.hold[m].exceeded
    /\ e.state \in {"cooldown", "blocked"} =>
          e.until = a.hold[m].retry \/ e.until = a.hold[m].recover

(* A shard that is built follows the snapshots of its provider; one that   *)
(* is not is empty.                                                        *)
EntriesOK(s, ms, m, t) ==
    \A c \in Creds : /\ s.entry[c] # None <=> Supports(ms[c], m)
                     /\ s.entry[c] # None => EntryOK(s.entry[c], ms[c], m, t)

ShardOK(s, ms, m, t) ==
    /\ s \in ShardType
    /\ s.built => /\ EntriesOK(s, ms, m, t)
                  /\ s.index = ReadyIndex(ms, s.entry)
                  /\ s.blocked = BlockedList(s.entry)
    /\ ~s.built => s = NoShard

(* A shard that was just brought up to date: what it holds back is still   *)
(* to be held back by one of its two instants.                             *)
Fresh(s) ==
    \A c \in Creds : c \in s.blocked => s.entry[c].until > now

Basics ==
    /\ strategy \in Strategies /\ known \subseteq Providers
    /\ authProviders \in [Creds -> Providers \cup {None}]
    /\ meta \in [Providers -> Metas]
    /\ now \in Nat /\ changes \in Nat
    /\ mixed \in [{q.route : q \in Requests} \X Models -> Nat]

Shards ==
    /\ shard \in [Providers -> [Models -> ShardType]]
    /\ \A p \in Providers, m \in Models : ShardOK(shard[p][m], meta[p], m, now)

Places ==
    /\ OneProvider
    /\ \A p \in Providers, c \in Creds :
          meta[p][c] # NoCred => meta[p][c].shape.provider = p /\ p \in known
    /\ \A p \in Providers, m \in Models : shard[p][m].built => p \in known

IInv == Basics /\ Shards /\ Places

-----------------------------------------------------------------------------
(* The operators of a shard.                                               *)

LEMMA FiniteParts ==
    /\ \A S \in SUBSET Creds : IsFiniteSet(S) /\ Cardinality(S) \in Nat
    /\ \A S \in SUBSET Groups : IsFiniteSet(S) /\ Cardinality(S) \in Nat
<1>1. IsFiniteSet(Creds) /\ IsFiniteSet(Parents)
  BY RequestAssumption
<1>2. IsFiniteSet(Groups)
  BY <1>1, FS_AddElement DEF Groups
<1>. QED BY <1>1, <1>2, FS_Subset, FS_CardinalityType

LEMMA NormalizedType ==
  ASSUME NEW k \in Nat, NEW size \in Nat
  PROVE  NormalizeCursor(k, size) \in Nat
  BY DEF NormalizeCursor

LEMMA RestoredType ==
  ASSUME NEW cur \in CursorType, NEW oldIndex, NEW S,
         NEW newIndex \in [Creds -> MetaType \cup {None}], NEW T \in SUBSET Creds,
         \A c \in T : newIndex[c] # None
  PROVE  Restored(cur, oldIndex, S, newIndex, T) \in CursorType
<1>1. ParentsIn(newIndex, T) \in SUBSET Groups
  BY DEF ParentsIn, MetaType
<1>2. Cardinality(T) \in Nat /\ Cardinality(ParentsIn(newIndex, T)) \in Nat
  BY <1>1, FiniteParts
<1>3. \A g \in Parents : Cardinality(ChildrenOf(newIndex, T, g)) \in Nat
  <2>1. \A g \in Parents : ChildrenOf(newIndex, T, g) \in SUBSET Creds
    BY DEF ChildrenOf
  <2>. QED BY <2>1, FiniteParts
<1>4. cur.flat \in Nat /\ cur.parent \in Nat /\ \A g \in Parents : cur.child[g] \in Nat
  BY DEF CursorType
<1>5. NormalizeCursor(cur.flat, Cardinality(T)) \in Nat
  BY <1>2, <1>4, NormalizedType
<1>6. NormalizeCursor(cur.parent, Cardinality(ParentsIn(newIndex, T))) \in Nat
  BY <1>2, <1>4, NormalizedType
<1>7. \A g \in Parents :
        NormalizeCursor(cur.child[g], Cardinality(ChildrenOf(newIndex, T, g))) \in Nat
  BY <1>3, <1>4, NormalizedType
<1>. QED BY <1>5, <1>6, <1>7 DEF Restored, CursorType

LEMMA MetaTyped ==
  ASSUME NEW a \in Snapshots
  PROVE  Meta(a) \in MetaType /\ Meta(a) # None
  BY SchedulerAssumption DEF Snapshots, ShapeType, Meta, MetaType, Groups

(* A rebuild of the indexes from entries that follow the snapshots.        *)
LEMMA RebuiltOK ==
  ASSUME NEW s \in ShardType, NEW ms \in Metas, NEW m \in Models, NEW t,
         NEW entry \in [Creds -> EntryType \cup {None}],
         EntriesOK([entry |-> entry], ms, m, t)
  PROVE  ShardOK(Rebuilt(s, ms, entry), ms, m, t) /\ Rebuilt(s, ms, entry).built
         /\ Rebuilt(s, ms, entry).entry = entry
         /\ Rebuilt(s, ms, entry).blocked = BlockedList(entry)
<1> DEFINE index == ReadyIndex(ms, entry)
<1>1. index \in [Creds -> MetaType \cup {None}]
  <2>1. \A c \in InState(entry, {"ready"}) : ms[c] \in Snapshots
    BY DEF EntriesOK, InState, Supports, Metas
  <2>. QED BY <2>1, MetaTyped DEF ReadyIndex
<1>2. BlockedList(entry) \in SUBSET Creds
  BY DEF BlockedList, InState
<1>3. \A p \in Priorities, v \in Views :
        /\ Tier(index, v, p) \in SUBSET Creds
        /\ \A c \in Tier(index, v, p) : index[c] # None
  BY DEF Tier, Ready
<1>4. \A p \in Priorities, v \in Views :
        Restored(s.cursor[p][v], s.index, Tier(s.index, v, p), index, Tier(index, v, p))
          \in CursorType
  <2>1. \A p \in Priorities, v \in Views : s.cursor[p][v] \in CursorType
    BY DEF ShardType
  <2>. HIDE DEF index
  <2>. QED BY <1>1, <1>3, <2>1, RestoredType
<1>5. Rebuilt(s, ms, entry) \in ShardType
  BY <1>1, <1>2, <1>4 DEF Rebuilt, ShardType
<1>6. /\ Rebuilt(s, ms, entry).built /\ Rebuilt(s, ms, entry).entry = entry
      /\ Rebuilt(s, ms, entry).index = ReadyIndex(ms, entry)
      /\ Rebuilt(s, ms, entry).blocked = BlockedList(entry)
  BY DEF Rebuilt
<1>. QED BY <1>5, <1>6 DEF ShardOK, EntriesOK

LEMMA ClassifiedOK ==
  ASSUME NEW a \in Snapshots, NEW m \in Models, now \in Nat
  PROVE  /\ Classified(a, m) \in EntryType /\ Classified(a, m) # None
         /\ EntryOK(Classified(a, m), a, m, now)
         /\ Classified(a, m).state \in {"cooldown", "blocked"} => Classified(a, m).until > now
<1>1. a.shape.off \in BOOLEAN /\ a.hold[m].exceeded \in BOOLEAN
      /\ a.hold[m].retry \in Nat /\ a.hold[m].recover \in Nat
  BY DEF Snapshots, ShapeType, HoldType
<1>2. CASE a.shape.off
  <2>1. Classified(a, m) = [state |-> "disabled", until |-> 0]
    BY <1>2 DEF Classified, Recorded
  <2>. QED BY <1>2, <2>1, SchedulerAssumption DEF EntryType, EntryOK
<1>3. CASE ~a.shape.off /\ a.hold[m].retry <= now
  <2>1. Classified(a, m) = [state |-> "ready", until |-> 0]
    BY <1>3 DEF Classified, Recorded
  <2>. QED BY <1>3, <2>1, SchedulerAssumption DEF EntryType, EntryOK
<1>4. CASE ~a.shape.off /\ ~(a.hold[m].retry <= now)
  <2>1. Classified(a, m) =
          [state |-> IF a.hold[m].exceeded THEN "cooldown" ELSE "blocked",
           until |-> IF a.hold[m].recover > now THEN a.hold[m].recover ELSE a.hold[m].retry]
    BY <1>4 DEF Classified, Recorded
  <2>. QED BY <1>1, <1>4, <2>1, SchedulerAssumption DEF EntryType, EntryOK
<1>. QED BY <1>1, <1>2, <1>3, <1>4

(* A change of one credential's snapshot from old to new, seen by a shard. *)
LEMMA RefreshedOK ==
  ASSUME NEW s, NEW old \in Metas, NEW new \in Metas, NEW m \in Models, NEW c \in Creds,
         now \in Nat, ShardOK(s, old, m, now),
         \A d \in Creds : d # c => new[d] = old[d]
  PROVE  /\ ShardOK(Refreshed(s, old, new, c, m), new, m, now)
         /\ Refreshed(s, old, new, c, m).built <=> s.built
<1>0. s \in ShardType /\ s.built \in BOOLEAN /\ s.entry \in [Creds -> EntryType \cup {None}]
  BY DEF ShardOK, ShardType
<1>1. CASE ~s.built
  BY <1>1 DEF Refreshed, ShardOK
<1>2. CASE s.built /\ Supports(new[c], m)
  <2>1. Refreshed(s, old, new, c, m) = Upserted(s, old, new, c, m)
    BY <1>2 DEF Refreshed
  <2>2. new[c] \in Snapshots
    BY <1>2 DEF Supports, Metas
  <2>3. CASE s.entry[c] = Classified(new[c], m) /\ Meta(old[c]) = Meta(new[c])
    <3>1. Upserted(s, old, new, c, m) = s
      BY <2>3 DEF Upserted
    <3>2. EntriesOK(s, new, m, now)
      <4>1. ASSUME NEW d \in Creds
            PROVE  /\ s.entry[d] # None <=> Supports(new[d], m)
                   /\ s.entry[d] # None => EntryOK(s.entry[d], new[d], m, now)
        <5>1. CASE d = c
          BY <1>2, <2>2, <2>3, <5>1, ClassifiedOK
        <5>2. CASE d # c
          BY <1>2, <5>2 DEF ShardOK, EntriesOK
        <5>. QED BY <5>1, <5>2
      <4>. QED BY <4>1 DEF EntriesOK
    <3>3. ReadyIndex(new, s.entry) = ReadyIndex(old, s.entry)
      <4>1. \A d \in Creds : d \in InState(s.entry, {"ready"}) => Meta(new[d]) = Meta(old[d])
        BY <2>3
      <4>. QED BY <4>1 DEF ReadyIndex
    <3>. QED BY <1>2, <2>1, <3>1, <3>2, <3>3 DEF ShardOK
  <2>4. CASE ~(s.entry[c] = Classified(new[c], m) /\ Meta(old[c]) = Meta(new[c]))
    <3> DEFINE entry == [s.entry EXCEPT ![c] = Classified(new[c], m)]
    <3>1. Upserted(s, old, new, c, m) = Rebuilt(s, new, entry)
      BY <2>4 DEF Upserted
    <3>2. entry \in [Creds -> EntryType \cup {None}]
      BY <1>0, <2>2, ClassifiedOK
    <3>3. EntriesOK([entry |-> entry], new, m, now)
      <4>1. ASSUME NEW d \in Creds
            PROVE  /\ entry[d] # None <=> Supports(new[d], m)
                   /\ entry[d] # None => EntryOK(entry[d], new[d], m, now)
        <5>1. CASE d = c
          BY <1>0, <1>2, <2>2, <5>1, ClassifiedOK
        <5>2. CASE d # c
          BY <1>0, <1>2, <5>2 DEF ShardOK, EntriesOK
        <5>. QED BY <5>1, <5>2
      <4>. QED BY <4>1 DEF EntriesOK
    <3>. HIDE DEF entry
    <3>. QED BY <1>0, <1>2, <2>1, <3>1, <3>2, <3>3, RebuiltOK
  <2>. QED BY <2>3, <2>4
<1>3. CASE s.built /\ ~Supports(new[c], m)
  <2>1. Refreshed(s, old, new, c, m) = Removed(s, new, c)
    BY <1>3 DEF Refreshed
  <2>2. CASE s.entry[c] = None
    <3>1. Removed(s, new, c) = s
      BY <2>2 DEF Removed
    <3>2. EntriesOK(s, new, m, now)
      BY <1>3, <2>2 DEF ShardOK, EntriesOK
    <3>3. ReadyIndex(new, s.entry) = ReadyIndex(old, s.entry)
      <4>1. \A d \in Creds : d \in InState(s.entry, {"ready"}) => Meta(new[d]) = Meta(old[d])
        BY <2>2 DEF InState
      <4>. QED BY <4>1 DEF ReadyIndex
    <3>. QED BY <1>3, <2>1, <3>1, <3>2, <3>3 DEF ShardOK
  <2>3. CASE s.entry[c] # None
    <3> DEFINE entry == [s.entry EXCEPT ![c] = None]
    <3>1. Removed(s, new, c) = Rebuilt(s, new, entry)
      BY <2>3 DEF Removed
    <3>2. entry \in [Creds -> EntryType \cup {None}]
      BY <1>0
    <3>3. EntriesOK([entry |-> entry], new, m, now)
      BY <1>0, <1>3 DEF ShardOK, EntriesOK
    <3>. HIDE DEF entry
    <3>. QED BY <1>0, <1>3, <2>1, <3>1, <3>2, <3>3, RebuiltOK
  <2>. QED BY <2>2, <2>3
<1>. QED BY <1>0, <1>1, <1>2, <1>3

LEMMA PromotedOK ==
  ASSUME NEW s, NEW ms \in Metas, NEW m \in Models, now \in Nat, ShardOK(s, ms, m, now), s.built
  PROVE  /\ ShardOK(Promoted(s, ms, m), ms, m, now)
         /\ Promoted(s, ms, m).built /\ Fresh(Promoted(s, ms, m))
<1> DEFINE expired == {c \in s.blocked : s.entry[c].until <= now}
<1>0. /\ s \in ShardType /\ s.entry \in [Creds -> EntryType \cup {None}]
      /\ s.blocked \in SUBSET Creds
      /\ \A c \in s.blocked : s.entry[c] # None /\ s.entry[c].until \in Nat
  BY DEF ShardOK, ShardType, BlockedList, InState, EntryType
<1>1. CASE expired = {}
  <2>1. Promoted(s, ms, m) = s
    BY <1>1 DEF Promoted
  <2>2. Fresh(s)
    BY <1>0, <1>1 DEF Fresh
  <2>. QED BY <2>1, <2>2
<1>2. CASE expired # {}
  <2> DEFINE entry == [c \in Creds |-> IF c \in expired THEN Classified(ms[c], m)
                                                        ELSE s.entry[c]]
  <2>1. Promoted(s, ms, m) = Rebuilt(s, ms, entry)
    BY <1>2 DEF Promoted
  <2>2. \A c \in expired : ms[c] \in Snapshots /\ Supports(ms[c], m)
    BY <1>0 DEF ShardOK, EntriesOK, Supports, Metas
  <2>3. entry \in [Creds -> EntryType \cup {None}]
    BY <1>0, <2>2, ClassifiedOK
  <2>4. EntriesOK([entry |-> entry], ms, m, now)
    <3>1. ASSUME NEW d \in Creds
          PROVE  /\ entry[d] # None <=> Supports(ms[d], m)
                 /\ entry[d] # None => EntryOK(entry[d], ms[d], m, now)
      <4>1. CASE d \in expired
        BY <2>2, <4>1, ClassifiedOK
      <4>2. CASE d \notin expired
        BY <4>2 DEF ShardOK, EntriesOK
      <4>. QED BY <4>1, <4>2
    <3>. QED BY <3>1 DEF EntriesOK
  <2>5. \A c \in BlockedList(entry) : entry[c].until > now
    <3>1. ASSUME NEW c \in BlockedList(entry) PROVE entry[c].until > now
      <4>1. c \in Creds /\ entry[c].state \in {"cooldown", "blocked"}
        BY <3>1 DEF BlockedList, InState
      <4>2. CASE c \in expired
        BY <2>2, <4>1, <4>2, ClassifiedOK
      <4>3. CASE c \notin expired
        <5>1. c \in s.blocked
          BY <3>1, <4>1, <4>3 DEF ShardOK, BlockedList, InState
        <5>. QED BY <1>0, <4>1, <4>3, <5>1
      <4>. QED BY <4>2, <4>3
    <3>. QED BY <3>1
  <2>. HIDE DEF entry
  <2>. QED BY <1>0, <2>1, <2>3, <2>4, <2>5, RebuiltOK DEF Fresh
<1>. QED BY <1>1, <1>2

LEMMA NoShardOK ==
  ASSUME NEW ms, NEW m, NEW t
  PROVE  ShardOK(NoShard, ms, m, t) /\ NoShard \in ShardType /\ ~NoShard.built
  BY DEF ShardOK, NoShard, ShardType, CursorType, FirstPlace

LEMMA BuiltOK ==
  ASSUME NEW ms \in Metas, NEW m \in Models, now \in Nat
  PROVE  /\ ShardOK(Built(ms, m), ms, m, now)
         /\ Built(ms, m).built /\ Fresh(Built(ms, m))
<1> DEFINE entry == [c \in Creds |-> IF Supports(ms[c], m) THEN Classified(ms[c], m) ELSE None]
<1>1. \A c \in Creds : Supports(ms[c], m) => ms[c] \in Snapshots
  BY DEF Supports, Metas
<1>2. entry \in [Creds -> EntryType \cup {None}]
  BY <1>1, ClassifiedOK
<1>3. EntriesOK([entry |-> entry], ms, m, now)
  BY <1>1, ClassifiedOK DEF EntriesOK
<1>4. \A c \in BlockedList(entry) : entry[c].until > now
  BY <1>1, ClassifiedOK DEF BlockedList, InState
<1>5. Built(ms, m) = Rebuilt(NoShard, ms, entry)
  BY DEF Built
<1>6. NoShard \in ShardType
  BY NoShardOK
<1>. HIDE DEF entry
<1>. QED BY <1>2, <1>3, <1>4, <1>5, <1>6, RebuiltOK DEF Fresh

(* What a pick works with: shards brought up to date, or empty ones of     *)
(* providers without a record.                                             *)
LEMMA EnsuredOK ==
  ASSUME IInv, NEW p \in Providers, NEW m \in Models
  PROVE  /\ ShardOK(Ensured(p, m), meta[p], m, now)
         /\ Fresh(Ensured(p, m))
         /\ Ensured(p, m).built <=> p \in known
<1>1. /\ now \in Nat /\ meta[p] \in Metas /\ ShardOK(shard[p][m], meta[p], m, now)
      /\ shard[p][m].built \in BOOLEAN /\ (shard[p][m].built => p \in known)
  BY DEF IInv, Basics, Shards, Places, ShardType
<1>2. CASE p \notin known
  BY <1>1, <1>2 DEF Ensured, ShardOK, Fresh, NoShard
<1>3. CASE p \in known /\ shard[p][m].built
  BY <1>1, <1>3, PromotedOK DEF Ensured
<1>4. CASE p \in known /\ ~shard[p][m].built
  BY <1>1, <1>4, BuiltOK DEF Ensured
<1>. QED BY <1>1, <1>2, <1>3, <1>4

-----------------------------------------------------------------------------
(* Changes of credentials.                                                 *)

LEMMA InitIInv == Init => IInv
<1>. SUFFICES ASSUME Init PROVE IInv
  OBVIOUS
<1>1. Basics
  BY DEF Init, Basics, Strategies, Metas
<1>2. Shards
  BY NoShardOK DEF Init, Shards, NoShards
<1>3. Places
  BY SchedulerAssumption, NoShardOK DEF Init, Places, OneProvider, NoShards
<1>. QED BY <1>1, <1>2, <1>3 DEF IInv

LEMMA ShardsFollow ==
  ASSUME IInv, NEW c \in Creds, NEW ps \in SUBSET Providers, now' = now,
         meta' \in [Providers -> Metas], shard' = ShardsRefreshed(c, ps),
         \A q \in Providers \ ps : meta'[q] = meta[q],
         \A q \in Providers, d \in Creds : d # c => meta'[q][d] = meta[q][d]
  PROVE  /\ Shards'
         /\ \A q \in Providers, m \in Models : shard'[q][m].built <=> shard[q][m].built
<1>1. ASSUME NEW q \in Providers, NEW m \in Models
      PROVE  /\ ShardOK(shard'[q][m], meta'[q], m, now)
             /\ shard'[q][m].built <=> shard[q][m].built
  <2>1. /\ now \in Nat /\ meta[q] \in Metas /\ meta'[q] \in Metas
        /\ ShardOK(shard[q][m], meta[q], m, now)
    BY DEF IInv, Basics, Shards
  <2>2. CASE q \in ps
    <3>1. shard'[q][m] = Refreshed(shard[q][m], meta[q], meta'[q], c, m)
      BY <2>2 DEF ShardsRefreshed
    <3>2. \A d \in Creds : d # c => meta'[q][d] = meta[q][d]
      OBVIOUS
    <3>3. /\ ShardOK(Refreshed(shard[q][m], meta[q], meta'[q], c, m), meta'[q], m, now)
          /\ Refreshed(shard[q][m], meta[q], meta'[q], c, m).built <=> shard[q][m].built
      BY <2>1, <3>2, RefreshedOK
    <3>. QED BY <3>1, <3>3
  <2>3. CASE q \notin ps
    <3>1. shard'[q][m] = shard[q][m] /\ meta'[q] = meta[q]
      BY <2>3 DEF ShardsRefreshed
    <3>. QED BY <2>1, <3>1
  <2>. QED BY <2>2, <2>3
<1>2. shard' \in [Providers -> [Models -> ShardType]]
  <2>1. \A q \in Providers, m \in Models : shard'[q][m] \in ShardType
    BY <1>1 DEF ShardOK
  <2>2. \A q \in Providers : shard'[q] = [m \in Models |-> shard'[q][m]]
    BY DEF ShardsRefreshed
  <2>3. shard' = [q \in Providers |-> shard'[q]]
    BY DEF ShardsRefreshed
  <2>4. \A q \in Providers : shard'[q] \in [Models -> ShardType]
    BY <2>1, <2>2
  <2>. QED BY <2>3, <2>4
<1>. QED BY <1>1, <1>2 DEF Shards

LEMMA UpsertStep ==
  ASSUME IInv, NEW c \in Creds, NEW shape \in Shapes[c], NEW hold \in [Models -> Holds],
         Upsert(c, shape, hold)
  PROVE  IInv'
<1> DEFINE p == shape.provider
           new == [shape |-> shape,
                   hold  |-> [m \in Models |->
                                [exceeded |-> hold[m].exceeded,
                                 retry    |-> IF hold[m].retry = 0 THEN 0 ELSE now + hold[m].retry,
                                 recover  |-> IF hold[m].recover = 0 THEN 0
                                              ELSE now + hold[m].recover]]]
           news == [q \in Leaving(c, p) |->
                      [meta[q] EXCEPT ![c] = IF q = p THEN new ELSE NoCred]]
<1>1. p \in Providers /\ shape \in ShapeType /\ now \in Nat
  BY SchedulerAssumption DEF ShapeType, IInv, Basics
<1>2. new \in Snapshots
  <2>1. \A m \in Models : hold[m] \in HoldType
    BY SchedulerAssumption
  <2>2. \A m \in Models : /\ hold[m].exceeded \in BOOLEAN
                          /\ hold[m].retry \in Nat /\ hold[m].recover \in Nat
    BY <2>1 DEF HoldType
  <2>3. \A m \in Models : new.hold[m] \in HoldType
    BY <1>1, <2>2 DEF HoldType
  <2>4. new.hold = [m \in Models |-> new.hold[m]]
    OBVIOUS
  <2>5. new.hold \in [Models -> HoldType]
    BY <2>3, <2>4
  <2>6. new = [shape |-> shape, hold |-> new.hold]
    OBVIOUS
  <2>. HIDE DEF new
  <2>. QED BY <1>1, <2>5, <2>6 DEF Snapshots
<1>3. /\ Replace(news) /\ shard' = ShardsRefreshed(c, Leaving(c, p))
      /\ authProviders' = [authProviders EXCEPT ![c] = p] /\ known' = known \cup {p}
  BY DEF Upsert
<1>. HIDE DEF new, p
<1>4. /\ authProviders \in [Creds -> Providers \cup {None}] /\ meta \in [Providers -> Metas]
      /\ OneProvider /\ Leaving(c, p) \in SUBSET Providers
  BY <1>1 DEF IInv, Basics, Places, Leaving
<1>5. meta' = [q \in Providers |-> IF q \in Leaving(c, p) THEN news[q] ELSE meta[q]]
  BY <1>3 DEF Replace
<1>6. \A q \in Providers :
        /\ meta'[q] \in Metas
        /\ \A d \in Creds : d # c => meta'[q][d] = meta[q][d]
        /\ meta'[q][c] = IF q = p THEN new ELSE NoCred
        /\ q \notin Leaving(c, p) => meta'[q] = meta[q]
  <2>1. ASSUME NEW q \in Providers
        PROVE  /\ meta'[q] \in Metas
               /\ \A d \in Creds : d # c => meta'[q][d] = meta[q][d]
               /\ meta'[q][c] = IF q = p THEN new ELSE NoCred
               /\ q \notin Leaving(c, p) => meta'[q] = meta[q]
    <3>1. meta[q] \in Metas
      BY <1>4
    <3>2. CASE q \in Leaving(c, p)
      <4>1. meta'[q] = [meta[q] EXCEPT ![c] = IF q = p THEN new ELSE NoCred]
        BY <1>5, <3>2
      <4>2. (IF q = p THEN new ELSE NoCred) \in Snapshots \cup {NoCred}
        BY <1>2
      <4>. QED BY <3>1, <3>2, <4>1, <4>2 DEF Metas
    <3>3. CASE q \notin Leaving(c, p)
      <4>1. meta'[q] = meta[q]
        BY <1>5, <3>3
      <4>2. q # p /\ authProviders[c] # q
        BY <1>4, <3>3, SchedulerAssumption DEF Leaving
      <4>3. meta[q][c] = NoCred
        BY <1>4, <4>2 DEF OneProvider
      <4>. QED BY <3>1, <4>1, <4>2, <4>3
    <3>. QED BY <3>2, <3>3
  <2>. QED BY <2>1
<1>7. meta' \in [Providers -> Metas]
  BY <1>5, <1>6
<1>8. now' = now /\ strategy' = strategy /\ mixed' = mixed /\ changes' \in Nat
  BY <1>3 DEF Replace, Counted, IInv, Basics
<1>9. Shards' /\ \A q \in Providers, m \in Models : shard'[q][m].built <=> shard[q][m].built
  BY <1>3, <1>4, <1>6, <1>7, <1>8, ShardsFollow
<1>10. Basics'
  BY <1>1, <1>3, <1>7, <1>8 DEF IInv, Basics
<1>11. Places'
  <2>1. new # NoCred /\ new.shape.provider = p
    BY <1>2, RequestAssumption DEF new, p
  <2>2. ASSUME NEW q \in Providers, NEW d \in Creds
        PROVE  /\ meta'[q][d] # NoCred <=> authProviders'[d] = q
               /\ meta'[q][d] # NoCred => meta'[q][d].shape.provider = q /\ q \in known'
    <3>1. CASE d = c
      BY <1>3, <1>4, <1>6, <2>1, <3>1
    <3>2. CASE d # c
      BY <1>3, <1>4, <1>6, <3>2 DEF IInv, Places, OneProvider
    <3>. QED BY <3>1, <3>2
  <2>3. \A q \in Providers, m \in Models : shard'[q][m].built => q \in known'
    BY <1>3, <1>9 DEF IInv, Places
  <2>. QED BY <2>2, <2>3 DEF Places, OneProvider
<1>. QED BY <1>9, <1>10, <1>11 DEF IInv

LEMMA RemoveStep == ASSUME IInv, NEW c \in Creds, Remove(c) PROVE IInv'
<1> DEFINE p == authProviders[c]
           news == [q \in {p} |-> [meta[q] EXCEPT ![c] = NoCred]]
<1>1. /\ p # None /\ Replace(news) /\ shard' = ShardsRefreshed(c, {p})
      /\ authProviders' = [authProviders EXCEPT ![c] = None] /\ known' = known
  BY DEF Remove
<1>2. /\ authProviders \in [Creds -> Providers \cup {None}] /\ meta \in [Providers -> Metas]
      /\ OneProvider /\ {p} \in SUBSET Providers
  BY <1>1 DEF IInv, Basics, Places
<1>3. meta' = [q \in Providers |-> IF q \in {p} THEN news[q] ELSE meta[q]]
  BY <1>1 DEF Replace
<1>4. \A q \in Providers :
        /\ meta'[q] \in Metas
        /\ \A d \in Creds : d # c => meta'[q][d] = meta[q][d]
        /\ meta'[q][c] = NoCred
        /\ q \notin {p} => meta'[q] = meta[q]
  BY <1>2, <1>3 DEF Metas, OneProvider
<1>5. meta' \in [Providers -> Metas]
  BY <1>3, <1>4
<1>6. now' = now /\ strategy' = strategy /\ mixed' = mixed /\ changes' \in Nat
  BY <1>1 DEF Replace, Counted, IInv, Basics
<1>7. Shards' /\ \A q \in Providers, m \in Models : shard'[q][m].built <=> shard[q][m].built
  BY ZenonT(60), <1>1, <1>2, <1>4, <1>5, <1>6, ShardsFollow
<1>8. Basics'
  BY <1>1, <1>2, <1>5, <1>6 DEF IInv, Basics
<1>9. Places'
  <2>1. ASSUME NEW q \in Providers, NEW d \in Creds
        PROVE  /\ meta'[q][d] # NoCred <=> authProviders'[d] = q
               /\ meta'[q][d] # NoCred => meta'[q][d].shape.provider = q /\ q \in known'
    <3>1. CASE d = c
      BY <1>1, <1>2, <1>4, <3>1, SchedulerAssumption
    <3>2. CASE d # c
      BY <1>1, <1>2, <1>4, <3>2 DEF IInv, Places, OneProvider
    <3>. QED BY <3>1, <3>2
  <2>2. \A q \in Providers, m \in Models : shard'[q][m].built => q \in known'
    BY <1>1, <1>7 DEF IInv, Places
  <2>. QED BY <2>1, <2>2 DEF Places, OneProvider
<1>. QED BY <1>7, <1>8, <1>9 DEF IInv

LEMMA RebuildStep == ASSUME IInv, Rebuild PROVE IInv'
<1>1. /\ known' = {authProviders[c] : c \in Creds} \ {None}
      /\ meta' = [p \in Providers |-> [c \in Creds |->
                    IF authProviders[c] = p THEN Held[c] ELSE NoCred]]
      /\ shard' = NoShards /\ mixed' = [k \in DOMAIN mixed |-> 0]
      /\ changes' = changes + 1
      /\ strategy' = strategy /\ authProviders' = authProviders /\ now' = now
  BY DEF Rebuild, Counted
<1>2. /\ authProviders \in [Creds -> Providers \cup {None}] /\ meta \in [Providers -> Metas]
      /\ OneProvider
  BY DEF IInv, Basics, Places
<1>3. \A p \in Providers, c \in Creds :
        meta'[p][c] = IF authProviders[c] = p THEN meta[p][c] ELSE NoCred
  BY <1>1, SchedulerAssumption DEF Held
<1>4. meta' \in [Providers -> Metas]
  <2>1. \A p \in Providers, c \in Creds : meta'[p][c] \in Snapshots \cup {NoCred}
    BY <1>2, <1>3 DEF Metas
  <2>2. \A p \in Providers : meta'[p] = [c \in Creds |-> meta'[p][c]]
    BY <1>1
  <2>3. \A p \in Providers : meta'[p] \in Metas
    BY <2>1, <2>2 DEF Metas
  <2>. QED BY <1>1, <2>3
<1>5. Basics'
  BY <1>1, <1>2, <1>4 DEF IInv, Basics
<1>6. Shards'
  BY <1>1, NoShardOK DEF Shards, NoShards
<1>7. Places'
  <2>1. ASSUME NEW q \in Providers, NEW d \in Creds
        PROVE  /\ meta'[q][d] # NoCred <=> authProviders'[d] = q
               /\ meta'[q][d] # NoCred => meta'[q][d].shape.provider = q /\ q \in known'
    <3>1. meta'[q][d] = IF authProviders[d] = q THEN meta[q][d] ELSE NoCred
      BY <1>3
    <3>2. q # None
      BY SchedulerAssumption
    <3>3. authProviders[d] = q => q \in known'
      BY <1>1, <3>2
    <3>. QED BY <1>1, <1>2, <3>1, <3>3 DEF IInv, Places, OneProvider
  <2>2. \A q \in Providers, m \in Models : ~shard'[q][m].built
    BY <1>1, NoShardOK DEF NoShards
  <2>. QED BY <2>1, <2>2 DEF Places, OneProvider
<1>. QED BY <1>5, <1>6, <1>7 DEF IInv

LEMMA SetSelectorStep == ASSUME IInv, SetSelector PROVE IInv'
  BY DEF IInv, SetSelector, Counted, Basics, Shards, Places, OneProvider

LEMMA PassStep == ASSUME IInv, Pass PROVE IInv'
<1>1. now' = now + 1 /\ now \in Nat
  BY DEF IInv, Basics, Pass
<1>2. Basics' /\ Places'
  BY DEF IInv, Basics, Places, OneProvider, Pass
<1>3. Shards'
  <2>1. ASSUME NEW p \in Providers, NEW m \in Models
        PROVE  ShardOK(shard[p][m], meta[p], m, now + 1)
    <3>1. ShardOK(shard[p][m], meta[p], m, now) /\ meta[p] \in Metas
      BY DEF IInv, Shards, Basics
    <3>2. \A c \in Creds : Supports(meta[p][c], m) => meta[p][c].hold[m].retry \in Nat
      BY <3>1 DEF Supports, Metas, Snapshots, HoldType
    <3>3. EntriesOK(shard[p][m], meta[p], m, now) => EntriesOK(shard[p][m], meta[p], m, now + 1)
      BY <1>1, <3>2 DEF EntriesOK, EntryOK
    <3>. QED BY <3>1, <3>3 DEF ShardOK
  <2>. QED BY <1>1, <2>1 DEF Shards, IInv, Pass
<1>. QED BY <1>2, <1>3 DEF IInv

-----------------------------------------------------------------------------
(* Choices.  What a pick works with, for the providers it is about.        *)

GoodShards(sh, m) ==
    /\ DOMAIN sh \in SUBSET Providers /\ sh = [p \in DOMAIN sh |-> sh[p]]
    /\ \A p \in DOMAIN sh : /\ ShardOK(sh[p], meta[p], m, now)
                            /\ Fresh(sh[p])
                            /\ sh[p].built <=> p \in known

LEMMA EnsuredGood ==
  ASSUME IInv, NEW ps \in SUBSET Providers, NEW m \in Models
  PROVE  GoodShards([p \in ps |-> Ensured(p, m)], m)
  BY EnsuredOK DEF GoodShards

LEMMA GoodExcept ==
  ASSUME NEW m \in Models, NEW sh, GoodShards(sh, m), NEW p \in DOMAIN sh, NEW s,
         ShardOK(s, meta[p], m, now), Fresh(s), s.built <=> p \in known
  PROVE  GoodShards([sh EXCEPT ![p] = s], m)
  BY DEF GoodShards

LEMMA WithGoodShards ==
  ASSUME IInv, NEW m \in Models, NEW sh, GoodShards(sh, m),
         shard' = WithShards(sh, m), UNCHANGED <<authProviders, known, meta, now>>
  PROVE  Shards' /\ Places'
<1>0. shard \in [Providers -> [Models -> ShardType]]
  BY DEF IInv, Shards
<1>1. ASSUME NEW p \in Providers, NEW n \in Models
      PROVE  /\ ShardOK(shard'[p][n], meta[p], n, now)
             /\ shard'[p][n].built => p \in known
  <2>1. CASE p \in DOMAIN sh /\ n = m
    <3>1. shard'[p][n] = sh[p]
      BY <1>0, <2>1 DEF WithShards
    <3>. QED BY <2>1, <3>1 DEF GoodShards
  <2>2. CASE ~(p \in DOMAIN sh /\ n = m)
    <3>1. shard'[p][n] = shard[p][n]
      BY <1>0, <2>2 DEF WithShards
    <3>. QED BY <3>1 DEF IInv, Shards, Places
  <2>. QED BY <2>1, <2>2
<1>2. shard' \in [Providers -> [Models -> ShardType]]
  <2>1. \A p \in DOMAIN sh : sh[p] \in ShardType
    BY DEF GoodShards, ShardOK
  <2>. QED BY <1>0, <2>1 DEF WithShards
<1>3. Shards'
  BY <1>1, <1>2 DEF Shards
<1>4. Places'
  BY <1>1 DEF IInv, Places, OneProvider
<1>. QED BY <1>3, <1>4

LEMMA PlaceType == ASSUME NEW S \in SUBSET Creds, NEW x PROVE Place(S, x) \in Nat
<1>1. {y \in S : y < x} \in SUBSET Creds
  OBVIOUS
<1>. QED BY <1>1, FiniteParts DEF Place

LEMMA PlaceOfGroup == ASSUME NEW S \in SUBSET Groups, NEW x PROVE Place(S, x) \in Nat
<1>1. {y \in S : y < x} \in SUBSET Groups
  OBVIOUS
<1>. QED BY <1>1, FiniteParts DEF Place

LEMMA AdvancedType ==
  ASSUME NEW index \in [Creds -> MetaType \cup {None}], NEW S \in SUBSET Creds,
         NEW cur \in CursorType, NEW x, \A c \in S : index[c] # None
  PROVE  Advanced(index, S, cur, x) \in CursorType
<1>1. ParentsIn(index, S) \in SUBSET Groups
  BY DEF ParentsIn, MetaType
<1>2. Place(S, x) + 1 \in Nat
  BY PlaceType
<1>3. Place(ParentsIn(index, S), index[x].parent) + 1 \in Nat
  BY <1>1, PlaceOfGroup
<1>4. Place(ChildrenOf(index, S, index[x].parent), x) + 1 \in Nat
  <2>1. ChildrenOf(index, S, index[x].parent) \in SUBSET Creds
    BY DEF ChildrenOf
  <2>. QED BY <2>1, PlaceType
<1>. QED BY <1>2, <1>3, <1>4 DEF Advanced, CursorType

(* Giving out a credential moves nothing but a cursor.                     *)
LEMMA HavingOK ==
  ASSUME NEW s, NEW ms, NEW m \in Models, NEW view \in Views, NEW priority \in Priorities,
         NEW strat, NEW x, s.built, Fresh(s), ShardOK(s, ms, m, now)
  PROVE  /\ ShardOK(Having(s, view, priority, strat, x), ms, m, now)
         /\ Having(s, view, priority, strat, x).built
         /\ Fresh(Having(s, view, priority, strat, x))
<1>1. CASE strat = "fillFirst"
  BY <1>1 DEF Having
<1>2. CASE strat # "fillFirst"
  <2> DEFINE S == Tier(s.index, view, priority)
             cur == Advanced(s.index, S, s.cursor[priority][view], x)
  <2>1. Having(s, view, priority, strat, x) = [s EXCEPT !.cursor[priority][view] = cur]
    BY <1>2 DEF Having
  <2>2. s \in ShardType
    BY DEF ShardOK
  <2>3. cur \in CursorType
    <3>1. S \in SUBSET Creds /\ \A c \in S : s.index[c] # None
      BY DEF Tier, Ready
    <3>2. s.index \in [Creds -> MetaType \cup {None}] /\ s.cursor[priority][view] \in CursorType
      BY <2>2 DEF ShardType
    <3>. HIDE DEF S
    <3>. QED BY <3>1, <3>2, AdvancedType
  <2>. HIDE DEF cur
  <2> DEFINE t == [s EXCEPT !.cursor[priority][view] = cur]
  <2>4. t \in ShardType
    BY <2>2, <2>3 DEF ShardType
  <2>5. t.built = s.built /\ t.entry = s.entry /\ t.index = s.index /\ t.blocked = s.blocked
    BY <2>2 DEF ShardType
  <2>6. ShardOK(t, ms, m, now)
    BY <2>4, <2>5 DEF ShardOK, EntriesOK
  <2>7. Fresh(t) /\ t.built
    BY <2>5 DEF Fresh
  <2>. QED BY <2>1, <2>6, <2>7
<1>. QED BY <1>1, <1>2

LEMMA PickedStep ==
  ASSUME IInv, NEW r \in Requests, NEW x, NEW S, NEW sh, NEW p \in DOMAIN sh, NEW got,
         GoodShards(sh, r.model), r.model \in Models,
         ShardOK(got, meta[p], r.model, now), Fresh(got), got.built <=> p \in known,
         Picked(r, x, S, sh, p, got),
         mixed' \in [{q.route : q \in Requests} \X Models -> Nat]
  PROVE  IInv'
<1>1. GoodShards([sh EXCEPT ![p] = got], r.model)
  BY GoodExcept
<1>2. Shards' /\ Places'
  BY <1>1, WithGoodShards DEF Picked
<1>3. Basics'
  BY DEF IInv, Basics, Picked
<1>. QED BY <1>2, <1>3 DEF IInv

LEMMA RefusedStep ==
  ASSUME IInv, NEW r \in Requests, NEW sh, GoodShards(sh, r.model), r.model \in Models,
         Refused(r, sh)
  PROVE  IInv'
<1>1. Shards' /\ Places'
  BY WithGoodShards DEF Refused
<1>2. Basics'
  BY DEF IInv, Basics, Refused
<1>. QED BY <1>1, <1>2 DEF IInv

LEMMA RequestTyped ==
  ASSUME NEW r \in Requests
  PROVE  /\ r.model \in Models /\ r.route \in Seq(Providers)
         /\ RouteProviders(r) \in SUBSET Providers /\ r.pin \in Creds \cup {NoCred}
  BY RequestAssumption DEF RequestType, RouteProviders

(* A shard that gives a credential is one of a provider with a record.     *)
LEMMA GivesBuilt ==
  ASSUME IInv, NEW p \in Providers, NEW m \in Models, NEW s, ShardOK(s, meta[p], m, now),
         NEW c \in Creds, s.index[c] # None
  PROVE  s.built
  BY DEF ShardOK, NoShard

LEMMA PickInStep ==
  ASSUME IInv, NEW r \in Requests, NEW p \in Providers, PickIn(r, p)
  PROVE  IInv'
<1> DEFINE s == Ensured(p, r.model)
           sh == [q \in {p} |-> s]
           view == ViewFor(s, r)
<1>1. r.model \in Models
  BY RequestTyped
<1>2. ShardOK(s, meta[p], r.model, now) /\ Fresh(s) /\ (s.built <=> p \in known)
  BY <1>1, EnsuredOK
<1>3. GoodShards(sh, r.model) /\ p \in DOMAIN sh
  BY <1>2 DEF GoodShards
<1>4. CASE Refused(r, sh)
  BY <1>1, <1>3, <1>4, RefusedStep
<1>5. ASSUME NEW priority \in Priorities, NEW x \in Creds,
             Gives(s, view, priority, strategy, Wanted(r), x),
             Picked(r, x, Tier(s.index, view, priority), sh, p,
                    Having(s, view, priority, strategy, x)),
             UNCHANGED mixed
      PROVE  IInv'
  <2>1. s.index[x] # None /\ view \in Views
    BY <1>5 DEF Gives, Tier, Ready, ViewFor, Views
  <2>2. s.built
    BY <1>1, <1>2, <2>1, GivesBuilt
  <2>3. /\ ShardOK(Having(s, view, priority, strategy, x), meta[p], r.model, now)
        /\ Having(s, view, priority, strategy, x).built
        /\ Fresh(Having(s, view, priority, strategy, x))
    <3>. HIDE DEF s, view
    <3>. QED BY <1>1, <1>2, <2>1, <2>2, HavingOK
  <2>4. mixed' \in [{q.route : q \in Requests} \X Models -> Nat]
    BY <1>5 DEF IInv, Basics
  <2>. HIDE DEF s, view, sh
  <2>. QED BY <1>1, <1>2, <1>3, <1>5, <2>2, <2>3, <2>4, PickedStep
<1>6. PickIn(r, p) => \/ Refused(r, sh)
                     \/ \E priority \in Priorities, x \in Creds :
                          /\ Gives(s, view, priority, strategy, Wanted(r), x)
                          /\ Picked(r, x, Tier(s.index, view, priority), sh, p,
                                    Having(s, view, priority, strategy, x))
                          /\ UNCHANGED mixed
  BY DEF PickIn
<1>. HIDE DEF s, view, sh
<1>. QED BY <1>4, <1>5, <1>6

LEMMA UptoFinite ==
  ASSUME NEW sh, NEW r, NEW priority, NEW i
  PROVE  /\ Upto(sh, r, priority, i) \in SUBSET Creds
         /\ Cardinality(Upto(sh, r, priority, i)) \in Nat
         /\ Upto(sh, r, priority, i) # {} => Cardinality(Upto(sh, r, priority, i)) # 0
<1>1. Upto(sh, r, priority, i) \in SUBSET Creds
  BY DEF Upto, Tier, Ready
<1>. QED BY <1>1, FiniteParts, FS_EmptySet

LEMMA PickMixedStep == ASSUME IInv, NEW r \in Requests, PickMixed(r) PROVE IInv'
<1> DEFINE sh == [p \in RouteProviders(r) |-> Ensured(p, r.model)]
<1>1. /\ r.model \in Models /\ r.route \in Seq(Providers)
      /\ RouteProviders(r) \in SUBSET Providers
  BY RequestTyped
<1>2. GoodShards(sh, r.model) /\ DOMAIN sh = RouteProviders(r)
  BY <1>1, EnsuredGood
<1>3. \A i \in 1 .. Len(r.route) : r.route[i] \in RouteProviders(r)
  BY DEF RouteProviders
<1>4. \/ Refused(r, sh)
      \/ \E priority \in Priorities :
            PickMixedFirst(r, sh, priority) \/ PickMixedInTurn(r, sh, priority)
  BY DEF PickMixed
<1>. HIDE DEF sh
<1>5. CASE Refused(r, sh)
  BY <1>1, <1>2, <1>5, RefusedStep
<1>6. ASSUME NEW priority \in Priorities, PickMixedFirst(r, sh, priority) PROVE IInv'
  <2>1. PICK i \in 1 .. Len(r.route), x \in Creds :
           /\ Gives(sh[r.route[i]], "all", priority, strategy, Wanted(r), x)
           /\ Picked(r, x, {}, sh, r.route[i], sh[r.route[i]])
           /\ UNCHANGED mixed
    BY <1>6 DEF PickMixedFirst
  <2>2. r.route[i] \in DOMAIN sh
    BY <1>2, <1>3
  <2>3. /\ ShardOK(sh[r.route[i]], meta[r.route[i]], r.model, now) /\ Fresh(sh[r.route[i]])
        /\ sh[r.route[i]].built <=> r.route[i] \in known
    BY <1>2, <2>2 DEF GoodShards
  <2>4. mixed' \in [{q.route : q \in Requests} \X Models -> Nat]
    BY <2>1 DEF IInv, Basics
  <2>. QED BY <1>1, <1>2, <2>1, <2>2, <2>3, <2>4, PickedStep
<1>7. ASSUME NEW priority \in Priorities, PickMixedInTurn(r, sh, priority) PROVE IInv'
  <2> DEFINE all == Upto(sh, r, priority, Len(r.route))
             slot == mixed[<<r.route, r.model>>] % Cardinality(all)
  <2>1. PICK i \in 1 .. Len(r.route), x \in Creds :
           /\ Gives(sh[r.route[i]], "all", priority, "roundRobin", Wanted(r), x)
           /\ Picked(r, x, all, sh, r.route[i],
                     Having(sh[r.route[i]], "all", priority, "roundRobin", x))
           /\ mixed' = [mixed EXCEPT ![<<r.route, r.model>>] =
                           NextSlot(sh, r, priority, slot, i)]
    BY <1>7 DEF PickMixedInTurn
  <2>2. r.route[i] \in DOMAIN sh /\ r.route[i] \in Providers
    BY <1>1, <1>2, <1>3
  <2> DEFINE s == sh[r.route[i]]
             got == Having(s, "all", priority, "roundRobin", x)
  <2>3. ShardOK(s, meta[r.route[i]], r.model, now) /\ Fresh(s) /\ (s.built <=> r.route[i] \in known)
    BY <1>2, <2>2 DEF GoodShards
  <2>4. x \in Tier(s.index, "all", priority) /\ s.index[x] # None
    BY <2>1 DEF Gives, Tier, Ready
  <2>5. s.built
    BY <1>1, <2>2, <2>3, <2>4, GivesBuilt
  <2>6. ShardOK(got, meta[r.route[i]], r.model, now) /\ got.built /\ Fresh(got)
    <3>. HIDE DEF s
    <3>. QED BY <1>1, <2>3, <2>5, HavingOK DEF Views
  <2>7. x \in all
    BY <1>1, <2>4 DEF Upto
  <2>8. mixed' \in [{q.route : q \in Requests} \X Models -> Nat]
    <3>1. <<r.route, r.model>> \in {q.route : q \in Requests} \X Models
      BY <1>1
    <3>2. Cardinality(all) \in Nat /\ Cardinality(all) # 0
      BY <2>7, UptoFinite
    <3>3. mixed \in [{q.route : q \in Requests} \X Models -> Nat]
      BY DEF IInv, Basics
    <3>4. mixed[<<r.route, r.model>>] \in Nat
      BY <3>1, <3>3
    <3>5. slot \in Nat
      <4>. HIDE DEF all
      <4>. QED BY <3>2, <3>4
    <3>6. Cardinality(Upto(sh, r, priority, i - 1)) \in Nat
      BY UptoFinite
    <3>7. NextSlot(sh, r, priority, slot, i) \in Nat
      <4>. HIDE DEF slot
      <4>. QED BY <3>5, <3>6 DEF NextSlot
    <3>. HIDE DEF slot
    <3>. QED BY <2>1, <3>1, <3>3, <3>7
  <2>. HIDE DEF all, slot, s, got
  <2>9. Picked(r, x, all, sh, r.route[i], got)
    BY <2>1 DEF got, s
  <2>. QED BY <1>1, <1>2, <2>2, <2>3, <2>5, <2>6, <2>8, <2>9, PickedStep
<1>. QED BY <1>4, <1>5, <1>6, <1>7

LEMMA PickPinnedStep == ASSUME IInv, NEW r \in Requests, PickPinned(r) PROVE IInv'
<1>1. CASE authProviders[r.pin] \in RouteProviders(r)
  <2>1. authProviders[r.pin] \in Providers
    BY <1>1, RequestTyped
  <2>. QED BY <1>1, <2>1, PickInStep DEF PickPinned
<1>2. CASE authProviders[r.pin] \notin RouteProviders(r)
  <2>1. GoodShards(<<>>, r.model)
    BY DEF GoodShards
  <2>. QED BY <1>2, <2>1, RequestTyped, RefusedStep DEF PickPinned
<1>. QED BY <1>1, <1>2

LEMMA PickSingleStep == ASSUME IInv, NEW r \in Requests, PickSingle(r) PROVE IInv'
<1>1. r.route[1] \in Providers
  BY RequestTyped DEF PickSingle
<1>. QED BY <1>1, PickInStep DEF PickSingle

LEMMA NextIInv == ASSUME IInv, [Next]_vars PROVE IInv'
<1>1. CASE UNCHANGED vars
  BY <1>1 DEF IInv, Basics, Shards, Places, OneProvider, vars
<1>. QED BY <1>1, UpsertStep, RemoveStep, RebuildStep, SetSelectorStep, PassStep,
            PickSingleStep, PickPinnedStep, PickMixedStep DEF Next

(* The invariant that the properties below follow from.                    *)
THEOREM SchedulerInvariant == Spec => []IInv
<1>1. Init => IInv
  BY InitIInv
<1>2. IInv /\ [Next]_vars => IInv'
  BY NextIInv
<1>. QED BY <1>1, <1>2, PTL DEF Spec

(* Every variable keeps its type: cursors and segments stay numbers        *)
(* whatever is rebuilt under them.                                         *)
THEOREM SchedulerTypes == Spec => []TypeOK
<1>1. IInv => TypeOK
  BY DEF IInv, Basics, Shards, TypeOK, Metas
<1>. QED BY <1>1, SchedulerInvariant, PTL

(* A credential is with one provider, the one the scheduler remembers.     *)
THEOREM AlwaysOneProvider == Spec => []OneProvider
<1>1. IInv => OneProvider
  BY DEF IInv, Places
<1>. QED BY <1>1, SchedulerInvariant, PTL

(* The indexes are what a rebuild would make of them, though most changes  *)
(* leave them as they are.                                                 *)
THEOREM IndexAlwaysCurrent == Spec => []IndexCurrent
<1>1. IInv => IndexCurrent
  BY DEF IInv, Shards, ShardOK, EntriesOK, IndexCurrent
<1>. QED BY <1>1, SchedulerInvariant, PTL

-----------------------------------------------------------------------------
(* The scheduler implements CredentialChoice.                              *)

LEMMA HeldType ==
  ASSUME IInv
  PROVE  /\ Held \in [Creds -> Snapshots \cup {NoCred}]
         /\ \A c \in Creds, p \in Providers :
              meta[p][c] # NoCred => Held[c] = meta[p][c] /\ Held[c].shape.provider = p
         /\ \A c \in Creds : Held[c] # NoCred =>
              /\ Held[c] \in Snapshots /\ Held[c].shape.provider \in Providers
              /\ meta[Held[c].shape.provider][c] = Held[c]
<1>1. /\ authProviders \in [Creds -> Providers \cup {None}] /\ meta \in [Providers -> Metas]
      /\ OneProvider
      /\ \A p \in Providers, c \in Creds : meta[p][c] # NoCred => meta[p][c].shape.provider = p
  BY DEF IInv, Basics, Places
<1>2. Held \in [Creds -> Snapshots \cup {NoCred}]
  BY <1>1 DEF Held, Metas
<1>3. ASSUME NEW c \in Creds, NEW p \in Providers, meta[p][c] # NoCred
      PROVE  Held[c] = meta[p][c] /\ Held[c].shape.provider = p
  <2>1. authProviders[c] = p /\ p # None
    BY <1>1, <1>3, SchedulerAssumption DEF OneProvider
  <2>. QED BY <1>1, <1>3, <2>1 DEF Held
<1>4. ASSUME NEW c \in Creds, Held[c] # NoCred
      PROVE  /\ Held[c] \in Snapshots /\ Held[c].shape.provider \in Providers
             /\ meta[Held[c].shape.provider][c] = Held[c]
  <2>1. authProviders[c] \in Providers /\ Held[c] = meta[authProviders[c]][c]
    BY <1>1, <1>4 DEF Held
  <2>. QED BY <1>1, <1>2, <1>4, <2>1
<1>. QED BY <1>2, <1>3, <1>4

(* What is in a ready view is free.                                        *)
LEMMA ReadyIsFree ==
  ASSUME IInv, NEW p \in Providers, NEW m \in Models, NEW s, ShardOK(s, meta[p], m, now),
         NEW c \in Creds, s.index[c] # None
  PROVE  /\ Held[c] # NoCred /\ Held[c].shape.provider = p
         /\ s.index[c] = Meta(Held[c])
         /\ Choice!Supports(c, m) /\ Choice!Free(c, m)
<1>1. s.built
  BY GivesBuilt
<1>2. s.index = ReadyIndex(meta[p], s.entry) /\ EntriesOK(s, meta[p], m, now)
  BY <1>1 DEF ShardOK
<1>3. s.entry[c] # None /\ s.entry[c].state = "ready" /\ s.index[c] = Meta(meta[p][c])
  BY <1>2 DEF ReadyIndex, InState
<1>4. Supports(meta[p][c], m) /\ EntryOK(s.entry[c], meta[p][c], m, now)
  BY <1>2, <1>3 DEF EntriesOK
<1>5. Held[c] = meta[p][c] /\ Held[c].shape.provider = p
  BY <1>4, HeldType DEF Supports
<1>6. ~meta[p][c].shape.off /\ meta[p][c].hold[m].retry <= now
  BY <1>3, <1>4 DEF EntryOK
<1>. QED BY <1>3, <1>4, <1>5, <1>6 DEF Supports, Choice!Supports, Choice!Free

(* What is surely free is in the ready view of a shard brought up to date. *)
LEMMA FreeIsReady ==
  ASSUME IInv, NEW p \in Providers, NEW m \in Models, NEW s, ShardOK(s, meta[p], m, now),
         Fresh(s), s.built <=> p \in known,
         NEW c \in Creds, Held[c] # NoCred, Held[c].shape.provider = p,
         Choice!Supports(c, m), Choice!SurelyFree(c, m)
  PROVE  s.index[c] = Meta(Held[c]) /\ s.index[c] # None
<1>1. Held[c] \in Snapshots /\ meta[p][c] = Held[c] /\ meta[p][c] # NoCred
  BY HeldType
<1>2. s.built
  BY <1>1 DEF IInv, Places
<1>3. /\ s.index = ReadyIndex(meta[p], s.entry) /\ s.blocked = BlockedList(s.entry)
      /\ EntriesOK(s, meta[p], m, now) /\ s.entry \in [Creds -> EntryType \cup {None}]
  BY <1>2 DEF ShardOK, ShardType
<1>4. s.entry[c] # None /\ EntryOK(s.entry[c], meta[p][c], m, now)
  BY <1>1, <1>3 DEF EntriesOK, Supports, Choice!Supports
<1>5. /\ ~meta[p][c].shape.off /\ meta[p][c].hold[m].retry <= now
      /\ meta[p][c].hold[m].recover <= now
  BY <1>1 DEF Choice!SurelyFree, Choice!Free
<1>6. s.entry[c].state \in {"ready", "cooldown", "blocked", "disabled"}
      /\ s.entry[c].until \in Nat
  BY <1>3, <1>4 DEF EntryType
<1>7. s.entry[c].state = "ready"
  <2>1. s.entry[c].state # "disabled"
    BY <1>4, <1>5 DEF EntryOK
  <2>2. ASSUME s.entry[c].state \in {"cooldown", "blocked"} PROVE FALSE
    <3>1. s.entry[c].until > now
      BY <1>3, <1>4, <2>2 DEF Fresh, BlockedList, InState
    <3>2. s.entry[c].until <= now
      BY <1>4, <1>5, <2>2 DEF EntryOK
    <3>. QED BY <1>6, <3>1, <3>2 DEF IInv, Basics
  <2>. QED BY <1>6, <2>1, <2>2
<1>8. s.index[c] = Meta(meta[p][c])
  BY <1>3, <1>4, <1>7 DEF ReadyIndex, InState
<1>. QED BY <1>1, <1>8, MetaTyped

LEMMA SameRequest ==
  ASSUME NEW r
  PROVE  /\ Choice!Wanted(r) = Wanted(r)
         /\ Choice!RouteProviders(r) = RouteProviders(r)
         /\ Choice!PrefersWebsocket(r) <=> PrefersWebsocket(r)
  BY DEF Choice!Wanted, Wanted, Choice!RouteProviders, RouteProviders,
         Choice!PrefersWebsocket, PrefersWebsocket

(* The shards a pick works with are all that matter to the request.        *)
Covered(sh, r) ==
    /\ DOMAIN sh \in SUBSET RouteProviders(r)
    /\ \A c \in Wanted(r) :
          Held[c] # NoCred /\ Held[c].shape.provider \in RouteProviders(r)
            => Held[c].shape.provider \in DOMAIN sh

(* A credential of the best priority of the right view is a choice.        *)
LEMMA ChosenIsChoice ==
  ASSUME IInv, NEW r \in Requests, NEW sh, GoodShards(sh, r.model), Covered(sh, r),
         NEW view \in Views, NEW priority \in Priorities, IsBest(sh, view, priority, r),
         view = "ws" => PrefersWebsocket(r),
         view = "all" /\ PrefersWebsocket(r) =>
            \A q \in DOMAIN sh : Ready(sh[q].index, "ws") \cap Wanted(r) = {},
         NEW p \in DOMAIN sh, NEW x \in Creds, x \in Eligible(sh, p, view, priority, r),
         answer' = [kind |-> "chosen", req |-> r, cred |-> x],
         UNCHANGED <<authProviders, meta, now>>
  PROVE  Choice!Choose(r, x)
<1>0. r.model \in Models /\ DOMAIN sh \in SUBSET Providers
  BY RequestTyped DEF GoodShards
<1>1. /\ x \in Wanted(r) /\ sh[p].index[x] # None /\ sh[p].index[x].priority = priority
      /\ view = "ws" => sh[p].index[x].ws
  BY DEF Eligible, Tier, Ready
<1>2. /\ Held[x] # NoCred /\ Held[x].shape.provider = p /\ sh[p].index[x] = Meta(Held[x])
      /\ Choice!Supports(x, r.model) /\ Choice!Free(x, r.model)
  <2>1. ShardOK(sh[p], meta[p], r.model, now) /\ p \in Providers
    BY <1>0 DEF GoodShards
  <2>. QED BY <1>0, <1>1, <2>1, ReadyIsFree
<1>3. x \in Choice!Candidates(r)
  BY <1>1, <1>2, SameRequest DEF Covered, Choice!Candidates
<1>4. /\ Held[x].shape.priority = priority
      /\ view = "ws" => Held[x].shape.ws
  BY <1>1, <1>2 DEF Meta
<1>5. ASSUME NEW d \in Choice!Candidates(r), Choice!Better(r, d, x),
             Choice!SurelyFree(d, r.model)
      PROVE  FALSE
  <2>1. /\ d \in Wanted(r) /\ d \in Creds /\ Held[d] # NoCred
        /\ Held[d].shape.provider \in RouteProviders(r) /\ Choice!Supports(d, r.model)
    BY SameRequest DEF Choice!Candidates, Wanted
  <2> DEFINE q == Held[d].shape.provider
  <2>2. q \in DOMAIN sh /\ q \in Providers
    BY <1>0, <2>1 DEF Covered
  <2>3. sh[q].index[d] = Meta(Held[d]) /\ sh[q].index[d] # None
    <3>1. ShardOK(sh[q], meta[q], r.model, now) /\ Fresh(sh[q]) /\ (sh[q].built <=> q \in known)
      BY <2>2 DEF GoodShards
    <3>. QED BY <1>0, <1>5, <2>1, <2>2, <3>1, FreeIsReady
  <2>4. Held[d] \in Snapshots /\ Held[x] \in Snapshots
    BY <1>2, <2>1, HeldType
  <2>5. /\ Held[d].shape.priority \in Priorities /\ Held[d].shape.ws \in BOOLEAN
        /\ Held[x].shape.ws \in BOOLEAN
    BY <2>4 DEF Snapshots, ShapeType
  <2>6. Held[d].shape.ws => d \in Ready(sh[q].index, "ws") \cap Wanted(r)
    BY <2>1, <2>3 DEF Ready, Meta
  <2>7. CASE PrefersWebsocket(r) /\ Held[x].shape.ws # Held[d].shape.ws
    <3>1. Held[d].shape.ws /\ ~Held[x].shape.ws
      BY <1>5, <2>5, <2>7, SameRequest DEF Choice!Better
    <3>2. view = "all"
      BY <1>4, <3>1 DEF Views
    <3>. QED BY <2>2, <2>6, <2>7, <3>1, <3>2
  <2>8. CASE ~(PrefersWebsocket(r) /\ Held[x].shape.ws # Held[d].shape.ws)
    <3>1. Held[d].shape.priority > priority
      BY <1>4, <1>5, <2>8, SameRequest DEF Choice!Better
    <3>2. view = "ws" => Held[d].shape.ws
      BY <1>4, <2>5, <2>8
    <3>3. d \in Eligible(sh, q, view, Held[d].shape.priority, r)
      <4>1. /\ sh[q].index[d].priority = Held[d].shape.priority
            /\ sh[q].index[d].ws = Held[d].shape.ws
        BY <2>3 DEF Meta
      <4>2. d \in Ready(sh[q].index, view)
        BY <2>1, <2>3, <3>2, <4>1 DEF Ready
      <4>. QED BY <2>1, <4>1, <4>2 DEF Eligible, Tier
    <3>. QED BY <2>2, <2>5, <3>1, <3>3 DEF IsBest
  <2>. QED BY <2>7, <2>8
<1>6. Held' = Held
  BY DEF Held
<1>. QED BY <1>2, <1>3, <1>5, <1>6 DEF Choice!Choose

(* Who the requests' total and its cooling ones are.                       *)
LEMMA RefusedIsChoice ==
  ASSUME IInv, NEW r \in Requests, NEW sh, GoodShards(sh, r.model), Covered(sh, r),
         NoneReady(sh, r), Refused(r, sh)
  PROVE  \E why \in Choice!Refusals : Choice!Refuse(r, why)
<1> DEFINE total == {c \in Wanted(r) : \E p \in DOMAIN sh : sh[p].entry[c] # None}
           cooling == {c \in total : \E p \in DOMAIN sh : c \in InState(sh[p].entry, {"cooldown"})}
<1>0. r.model \in Models /\ DOMAIN sh \in SUBSET Providers
  BY RequestTyped DEF GoodShards
<1>1. ASSUME NEW p \in DOMAIN sh, NEW c \in Wanted(r), sh[p].entry[c] # None
      PROVE  /\ c \in Choice!Candidates(r)
             /\ sh[p].entry[c].state = "cooldown" =>
                  ~Held[c].shape.off /\ Held[c].hold[r.model].exceeded
  <2>1. ShardOK(sh[p], meta[p], r.model, now) /\ p \in Providers /\ c \in Creds
    BY <1>0 DEF GoodShards, Wanted
  <2>2. sh[p].built
    BY <1>1, <2>1 DEF ShardOK, NoShard
  <2>3. Supports(meta[p][c], r.model) /\ EntryOK(sh[p].entry[c], meta[p][c], r.model, now)
    BY <1>1, <2>1, <2>2 DEF ShardOK, EntriesOK
  <2>4. Held[c] = meta[p][c] /\ Held[c].shape.provider = p
    BY <2>1, <2>3, HeldType DEF Supports
  <2>5. c \in Choice!Candidates(r)
    BY <2>3, <2>4, SameRequest DEF Covered, Supports, Choice!Candidates, Choice!Supports
  <2>. QED BY <2>3, <2>4, <2>5 DEF EntryOK
<1>2. ASSUME NEW c \in Choice!Candidates(r)
      PROVE  /\ c \in total
             /\ ~Choice!SurelyFree(c, r.model)
  <2>1. /\ c \in Wanted(r) /\ c \in Creds /\ Held[c] # NoCred
        /\ Held[c].shape.provider \in RouteProviders(r) /\ Choice!Supports(c, r.model)
    BY SameRequest DEF Choice!Candidates, Wanted
  <2> DEFINE p == Held[c].shape.provider
  <2>2. p \in DOMAIN sh /\ p \in Providers
    BY <1>0, <2>1 DEF Covered
  <2>3. ShardOK(sh[p], meta[p], r.model, now) /\ Fresh(sh[p]) /\ (sh[p].built <=> p \in known)
    BY <2>2 DEF GoodShards
  <2>4. meta[p][c] = Held[c] /\ p \in known
    BY <2>1, <2>2, HeldType DEF IInv, Places
  <2>5. sh[p].entry[c] # None
    BY <2>1, <2>3, <2>4 DEF ShardOK, EntriesOK, Supports, Choice!Supports
  <2>6. ASSUME Choice!SurelyFree(c, r.model) PROVE FALSE
    <3>1. sh[p].index[c] # None
      BY <1>0, <2>1, <2>2, <2>3, <2>6, FreeIsReady
    <3>2. c \in Ready(sh[p].index, "all") \cap Wanted(r)
      BY <2>1, <3>1 DEF Ready
    <3>. QED BY <2>2, <3>2 DEF NoneReady
  <2>. QED BY <2>1, <2>2, <2>5, <2>6
<1>3. total = Choice!Candidates(r)
  BY <1>1, <1>2
<1>4. ASSUME NEW c \in cooling
      PROVE  ~Held[c].shape.off /\ Held[c].hold[r.model].exceeded
  BY <1>1 DEF InState
<1>5. Reason(sh, r) = IF total = {} THEN "not_found"
                      ELSE IF cooling = total THEN "cooldown" ELSE "unavailable"
  BY DEF Reason
<1>6. /\ answer' = [kind |-> "refused", req |-> r, why |-> Reason(sh, r)]
      /\ Held' = Held /\ now' = now
  BY DEF Refused, Held
<1>7. Reason(sh, r) \in Choice!Refusals
  BY <1>5 DEF Choice!Refusals
<1>. HIDE DEF total, cooling
<1>8. (Reason(sh, r) = "not_found") <=> (Choice!Candidates(r) = {})
  BY <1>3, <1>5
<1>9. Reason(sh, r) = "cooldown" =>
        \A c \in Choice!Candidates(r) : ~Held[c].shape.off /\ Held[c].hold[r.model].exceeded
  BY <1>3, <1>4, <1>5
<1>10. Choice!Refuse(r, Reason(sh, r))
  BY <1>2, <1>6, <1>8, <1>9 DEF Choice!Refuse
<1>. QED BY <1>7, <1>10

ChoiceStep(r) ==
    \/ \E c \in Creds : Choice!Choose(r, c)
    \/ \E why \in Choice!Refusals : Choice!Refuse(r, why)

LEMMA PickInIsChoice ==
  ASSUME IInv, NEW r \in Requests, NEW p \in RouteProviders(r), PickIn(r, p),
         \A c \in Wanted(r) :
            Held[c] # NoCred /\ Held[c].shape.provider \in RouteProviders(r)
              => Held[c].shape.provider = p
  PROVE  ChoiceStep(r)
<1> DEFINE s == Ensured(p, r.model)
           sh == [q \in {p} |-> s]
           view == ViewFor(s, r)
<1>1. r.model \in Models /\ p \in Providers
  BY RequestTyped
<1>2. /\ DOMAIN sh = {p} /\ sh[p] = s /\ GoodShards(sh, r.model)
  BY <1>1, EnsuredGood
<1>3. Covered(sh, r)
  BY <1>2 DEF Covered
<1>4. \/ NoneReady(sh, r) /\ Refused(r, sh)
      \/ \E priority \in Priorities, x \in Creds :
           /\ IsBest(sh, view, priority, r)
           /\ Gives(s, view, priority, strategy, Wanted(r), x)
           /\ Picked(r, x, Tier(s.index, view, priority), sh, p,
                     Having(s, view, priority, strategy, x))
  BY DEF PickIn
<1>5. /\ view \in Views /\ (view = "ws" => PrefersWebsocket(r))
      /\ view = "all" /\ PrefersWebsocket(r) => Ready(s.index, "ws") \cap Wanted(r) = {}
  BY DEF ViewFor, Views
<1>. HIDE DEF s, sh, view
<1>6. CASE NoneReady(sh, r) /\ Refused(r, sh)
  BY <1>2, <1>3, <1>6, RefusedIsChoice DEF ChoiceStep
<1>7. ASSUME NEW priority \in Priorities, NEW x \in Creds, IsBest(sh, view, priority, r),
             Gives(s, view, priority, strategy, Wanted(r), x),
             Picked(r, x, Tier(s.index, view, priority), sh, p,
                    Having(s, view, priority, strategy, x))
      PROVE  ChoiceStep(r)
  <2>1. x \in Eligible(sh, p, view, priority, r)
    BY <1>2, <1>7 DEF Gives, Eligible
  <2>2. /\ answer' = [kind |-> "chosen", req |-> r, cred |-> x]
        /\ UNCHANGED <<authProviders, meta, now>>
    BY <1>7 DEF Picked
  <2>3. Choice!Choose(r, x)
    BY <1>2, <1>3, <1>5, <1>7, <2>1, <2>2, ChosenIsChoice
  <2>. QED BY <2>3 DEF ChoiceStep
<1>. QED BY <1>4, <1>6, <1>7

LEMMA PickSingleIsChoice ==
  ASSUME IInv, NEW r \in Requests, PickSingle(r) PROVE ChoiceStep(r)
<1>1. Len(r.route) = 1 /\ PickIn(r, r.route[1])
  BY DEF PickSingle
<1>2. RouteProviders(r) = {r.route[1]}
  BY <1>1 DEF RouteProviders
<1>. QED BY <1>1, <1>2, PickInIsChoice

LEMMA PickPinnedIsChoice ==
  ASSUME IInv, NEW r \in Requests, PickPinned(r) PROVE ChoiceStep(r)
<1>1. r.pin # NoCred
  BY DEF PickPinned
<1>2. ASSUME NEW c \in Wanted(r), Held[c] # NoCred
      PROVE  c = r.pin /\ Held[c].shape.provider = authProviders[r.pin]
  <2>1. c = r.pin /\ c \in Creds
    BY <1>1 DEF Wanted
  <2>2. meta[Held[c].shape.provider][c] # NoCred /\ Held[c].shape.provider \in Providers
    BY <1>2, <2>1, HeldType
  <2>. QED BY <2>1, <2>2 DEF IInv, Places, OneProvider
<1>3. CASE authProviders[r.pin] \in RouteProviders(r)
  BY <1>2, <1>3, PickInIsChoice DEF PickPinned
<1>4. CASE authProviders[r.pin] \notin RouteProviders(r)
  <2>1. GoodShards(<<>>, r.model)
    BY DEF GoodShards
  <2>2. Covered(<<>>, r) /\ NoneReady(<<>>, r)
    BY <1>2, <1>4 DEF Covered, NoneReady
  <2>3. Refused(r, <<>>)
    BY <1>4 DEF PickPinned
  <2>. QED BY <2>1, <2>2, <2>3, RefusedIsChoice DEF ChoiceStep
<1>. QED BY <1>3, <1>4

LEMMA PickMixedIsChoice ==
  ASSUME IInv, NEW r \in Requests, PickMixed(r) PROVE ChoiceStep(r)
<1> DEFINE sh == [p \in RouteProviders(r) |-> Ensured(p, r.model)]
<1>1. RouteProviders(r) \in SUBSET Providers /\ r.model \in Models /\ r.route \in Seq(Providers)
  BY RequestTyped
<1>2. GoodShards(sh, r.model) /\ DOMAIN sh = RouteProviders(r) /\ Covered(sh, r)
  BY <1>1, EnsuredGood DEF Covered
<1>3. ~PrefersWebsocket(r)
  <2>1. Len(r.route) > 1 /\ Len(r.route) \in Nat
    BY <1>1 DEF PickMixed
  <2>2. \A n \in Nat : n > 1 => n # 1
    OBVIOUS
  <2>3. Len(r.route) # 1
    BY <2>1, <2>2, Zenon
  <2>. QED BY <2>3 DEF PrefersWebsocket
<1>4. \/ NoneReady(sh, r) /\ Refused(r, sh)
      \/ \E priority \in Priorities :
            /\ IsBest(sh, "all", priority, r)
            /\ PickMixedFirst(r, sh, priority) \/ PickMixedInTurn(r, sh, priority)
  BY DEF PickMixed
<1>. HIDE DEF sh
<1>5. CASE NoneReady(sh, r) /\ Refused(r, sh)
  BY <1>2, <1>5, RefusedIsChoice DEF ChoiceStep
<1>6. ASSUME NEW priority \in Priorities, IsBest(sh, "all", priority, r),
             PickMixedFirst(r, sh, priority) \/ PickMixedInTurn(r, sh, priority)
      PROVE  ChoiceStep(r)
  <2>1. PICK i \in 1 .. Len(r.route), x \in Creds :
           /\ x \in Tier(sh[r.route[i]].index, "all", priority) \cap Wanted(r)
           /\ answer' = [kind |-> "chosen", req |-> r, cred |-> x]
           /\ UNCHANGED <<authProviders, meta, now>>
    BY <1>6 DEF PickMixedFirst, PickMixedInTurn, Gives, Picked
  <2>2. r.route[i] \in DOMAIN sh
    BY <1>2 DEF RouteProviders
  <2>3. x \in Eligible(sh, r.route[i], "all", priority, r)
    BY <2>1 DEF Eligible
  <2>4. Choice!Choose(r, x)
    BY <1>2, <1>3, <1>6, <2>1, <2>2, <2>3, ChosenIsChoice DEF Views
  <2>. QED BY <2>4 DEF ChoiceStep
<1>. QED BY <1>4, <1>5, <1>6

LEMMA StepIsChoice ==
  ASSUME IInv, IInv', [Next]_vars
  PROVE  [Choice!Next]_(Choice!choiceVars)
<1>1. Held' \in [Creds -> Snapshots \cup {NoCred}]
  <2>1. ASSUME NEW c \in Creds PROVE Held'[c] \in Snapshots \cup {NoCred}
    BY DEF IInv, Basics, Metas, Held
  <2>2. Held' = [c \in Creds |-> Held'[c]]
    BY DEF Held
  <2>. QED BY <2>1, <2>2
<1>2. ASSUME Counted, now' = now PROVE Choice!Next
  BY <1>1, <1>2 DEF Counted, Choice!Next, Choice!Change, Choice!Snapshots, Choice!ShapeType,
     Choice!HoldType, Choice!NoAnswer, NoAnswer, Snapshots, ShapeType, HoldType, NoParent,
     Choice!NoParent
<1>3. CASE \/ \E c \in Creds : \/ \E shape \in Shapes[c], hold \in [Models -> Holds] :
                                     Upsert(c, shape, hold)
                              \/ Remove(c)
           \/ Rebuild \/ SetSelector
  BY <1>2, <1>3 DEF Upsert, Remove, Replace, Rebuild, SetSelector
<1>4. CASE Pass
  BY <1>4 DEF Pass, Held, Choice!Next, Choice!Tick, Choice!NoAnswer, NoAnswer
<1>5. ASSUME NEW r \in Requests, PickSingle(r) \/ PickPinned(r) \/ PickMixed(r)
      PROVE  Choice!Next
  <2>1. ChoiceStep(r)
    BY <1>5, PickSingleIsChoice, PickPinnedIsChoice, PickMixedIsChoice
  <2>. QED BY <2>1 DEF ChoiceStep, Choice!Next
<1>6. CASE UNCHANGED vars
  BY <1>6 DEF vars, Held, Choice!choiceVars
<1>. QED BY <1>3, <1>4, <1>5, <1>6 DEF Next

(* What the scheduler gives out of its shards, indexes and cursors, a look *)
(* at every credential could give: it never hands out what is held back,   *)
(* never passes over a better credential that is surely free, and refuses  *)
(* with the right reason.                                                  *)
THEOREM SchedulerChooses == Spec => ImplementsChoice
<1>1. Init => Choice!Init
  BY DEF Init, Choice!Init, Held, NoAnswer, Choice!NoAnswer
<1>2. IInv /\ IInv' /\ [Next]_vars => [Choice!Next]_(Choice!choiceVars)
  BY StepIsChoice
<1>. QED BY <1>1, <1>2, SchedulerInvariant, PTL DEF Spec, Choice!Spec, ImplementsChoice

----------------------------------------------------------------------------
(***************************************************************************)
(* The rotation.  A cursor stands at a place of a ring, and a pick takes   *)
(* what is there and moves it on: the distance of everything else from the *)
(* cursor drops by one, the distance of what was picked becomes the        *)
(* largest.  So the last picks have the last distances (Turning), which    *)
(* makes them different.  A shard's ring is its tier or the groups of it;  *)
(* the ring of a route with several providers is cut into a segment for    *)
(* each, in which the provider's own ring turns (Served, TurnsAcross).     *)
(***************************************************************************)

(* The place of the keys of a set: from 0, each once.                    *)
LEMMA Placed ==
  ASSUME NEW R \in SUBSET Nat, IsFiniteSet(R)
  PROVE  /\ Cardinality(R) \in Nat
         /\ \A x \in R : Place(R, x) \in 0 .. Cardinality(R) - 1
         /\ \A x, y \in R : Place(R, x) = Place(R, y) => x = y
         /\ \A n \in 0 .. Cardinality(R) - 1 : \E x \in R : Place(R, x) = n
<1> DEFINE size == Cardinality(R)
           before(x) == {y \in R : y < x}
           f == [x \in R |-> Place(R, x)]
<1>1. size \in Nat
  BY FS_CardinalityType
<1>2. ASSUME NEW x \in R
      PROVE  IsFiniteSet(before(x)) /\ Place(R, x) \in 0 .. size - 1
  <2>1. before(x) \in SUBSET R /\ before(x) # R
    OBVIOUS
  <2>2. IsFiniteSet(before(x)) /\ Cardinality(before(x)) <= size /\ Cardinality(before(x)) # size
    BY <2>1, FS_Subset
  <2>3. Cardinality(before(x)) \in Nat
    BY <2>2, FS_CardinalityType
  <2>. QED BY <1>1, <2>2, <2>3 DEF Place
<1>3. ASSUME NEW x \in R, NEW y \in R, x < y
      PROVE  Place(R, x) < Place(R, y)
  <2>0. x \in Nat /\ y \in Nat /\ ~(x < x)
    OBVIOUS
  <2>1. before(x) \in SUBSET before(y) /\ x \in before(y) /\ x \notin before(x)
    <3>1. ASSUME NEW z \in R, z < x PROVE z < y
      <4>1. z \in Nat
        OBVIOUS
      <4>. QED BY <1>3, <2>0, <3>1, <4>1
    <3>. QED BY <1>3, <2>0, <3>1
  <2>2. IsFiniteSet(before(y)) /\ IsFiniteSet(before(x))
    BY <1>2
  <2>. HIDE DEF before
  <2>3. Cardinality(before(x)) <= Cardinality(before(y)) /\ Cardinality(before(x)) # Cardinality(before(y))
    BY <2>1, <2>2, FS_Subset
  <2>4. Cardinality(before(x)) \in Nat /\ Cardinality(before(y)) \in Nat
    BY <2>2, FS_CardinalityType
  <2>. QED BY <2>3, <2>4 DEF Place, before
<1>4. \A x, y \in R : Place(R, x) = Place(R, y) => x = y
  <2>1. ASSUME NEW x \in R, NEW y \in R, Place(R, x) = Place(R, y), x # y PROVE FALSE
    <3>1. x \in Nat /\ y \in Nat
      OBVIOUS
    <3>2. x < y \/ y < x
      BY <2>1, <3>1
    <3>3. ~(Place(R, x) < Place(R, y)) /\ ~(Place(R, y) < Place(R, x))
      <4>1. Place(R, x) \in Int
        <5>1. Place(R, x) \in 0 .. size - 1
          BY <1>2
        <5>. QED BY <5>1
      <4>. QED BY <2>1, <4>1
    <3>. QED BY <1>3, <3>2, <3>3
  <2>. QED BY <2>1
<1>5. f \in Injection(R, 0 .. size - 1)
  BY <1>2, <1>4 DEF Injection, IsInjective
<1>6. f \in Surjection(R, 0 .. size - 1)
  <2>1. IsFiniteSet(0 .. size - 1) /\ Cardinality(0 .. size - 1) = size
    <3>1. 0 \in Int /\ size - 1 \in Int
      BY <1>1
    <3>. HIDE DEF size
    <3>2. Cardinality(0 .. size - 1) = IF 0 > size - 1 THEN 0 ELSE size - 1 - 0 + 1
      BY <3>1, FS_Interval
    <3>. QED BY <1>1, <3>1, <3>2, FS_Interval
  <2>. QED BY <1>5, <2>1, FS_Injection
<1>7. \A n \in 0 .. size - 1 : \E x \in R : Place(R, x) = n
  BY <1>6 DEF Surjection
<1>. QED BY <1>1, <1>2, <1>4, <1>7

(* A finite set of numbers has a least one.                              *)
LEMMA LeastOf ==
  ASSUME NEW R \in SUBSET Nat, IsFiniteSet(R), R # {}
  PROVE  \E x \in R : \A y \in R : x <= y
<1>1. Cardinality(R) \in Nat \ {0}
  BY FS_CardinalityType, FS_EmptySet
<1>2. PICK x \in R : Place(R, x) = 0
  BY <1>1, Placed
<1>3. IsFiniteSet({y \in R : y < x}) /\ {y \in R : y < x} = {}
  BY <1>2, FS_Subset, FS_EmptySet DEF Place
<1>. QED BY <1>3

(* How far the keys are from a cursor, and from the next one.            *)
LEMMA Distances ==
  ASSUME NEW R \in SUBSET Nat, IsFiniteSet(R), NEW cur \in Nat, NEW x \in R
  PROVE  /\ Distance(R, cur, x) \in 0 .. Cardinality(R) - 1
         /\ Distance(R, cur, x) = 0 <=> Place(R, x) = cur % Cardinality(R)
         /\ Distance(R, NormalizeCursor(cur, Cardinality(R)), x) = Distance(R, cur, x)
         /\ \A y \in R : Place(R, y) = cur % Cardinality(R) =>
               Distance(R, Place(R, y) + 1, x) =
                  IF x = y THEN Cardinality(R) - 1 ELSE Distance(R, cur, x) - 1
<1> DEFINE k == Cardinality(R)
           q == cur % k
           P == Place(R, x)
<1>1. k \in Nat \ {0} /\ P \in 0 .. k - 1 /\ Place(R, x) = P
  BY Placed, FS_EmptySet
<1>2. q \in 0 .. k - 1 /\ q % k = q
  <2>1. q \in 0 .. k - 1
    <3>. HIDE DEF k
    <3>. QED BY <1>1
  <2>. HIDE DEF q, k
  <2>. QED BY <1>1, <2>1
<1>3. Distance(R, cur, x) = (P + k - q) % k
  BY DEF Distance
<1>4. Distance(R, NormalizeCursor(cur, k), x) = (P + k - q) % k
  BY <1>1, <1>2 DEF Distance, NormalizeCursor
<1>5. ASSUME NEW y \in R, Place(R, y) = q
      PROVE  Distance(R, Place(R, y) + 1, x) = (P + k - ((q + 1) % k)) % k /\ (x = y <=> P = q)
  BY <1>1, <1>5, Placed DEF Distance
<1>. HIDE DEF k, q, P
<1>6. (P + k - q) % k = IF P >= q THEN P - q ELSE P + k - q
  <2> DEFINE a == P + k - q
  <2>1. a \in Nat /\ a < k + k /\ (a >= k <=> P >= q) /\ a - k = P - q
    BY <1>1, <1>2
  <2>2. a % k = IF P >= q THEN P - q ELSE a
    <3>. HIDE DEF a
    <3>. QED BY <1>1, <1>2, <2>1
  <2>. QED BY <2>2
<1>7. (q + 1) % k = IF q = k - 1 THEN 0 ELSE q + 1
  <2> DEFINE a == q + 1
  <2>1. a \in Nat /\ a <= k /\ (a = k <=> q = k - 1)
    BY <1>1, <1>2
  <2>2. a % k = IF q = k - 1 THEN 0 ELSE a
    <3>. HIDE DEF a
    <3>. QED BY <1>1, <2>1
  <2>. QED BY <2>2
<1>8. (P + k - ((q + 1) % k)) % k = IF P = q THEN k - 1 ELSE ((P + k - q) % k) - 1
  <2>1. CASE q = k - 1
    <3> DEFINE a == P + k - 0
    <3>1. a \in Nat /\ a >= k /\ a < k + k /\ a - k = P
      BY <1>1
    <3>2. a % k = P
      <4>. HIDE DEF a
      <4>. QED BY <1>1, <3>1
    <3>3. (P + k - ((q + 1) % k)) % k = P
      BY <1>7, <2>1, <3>2
    <3>4. P <= q /\ (P # q => P + k - q - 1 = P)
      BY <1>1, <1>2, <2>1
    <3>. QED BY <1>1, <1>2, <1>6, <2>1, <3>3, <3>4
  <2>2. CASE q # k - 1
    <3> DEFINE a == P + k - (q + 1)
    <3>1. a \in Nat /\ a < k + k /\ (a >= k <=> P > q) /\ a - k = P - q - 1
      BY <1>1, <1>2, <2>2
    <3>2. a % k = IF P > q THEN P - q - 1 ELSE P + k - (q + 1)
      <4>1. a % k = IF P > q THEN a - k ELSE a
        <5>. HIDE DEF a
        <5>. QED BY <1>1, <3>1
      <4>. QED BY <3>1, <4>1
    <3>3. (P + k - ((q + 1) % k)) % k = IF P > q THEN P - q - 1 ELSE P + k - (q + 1)
      BY <1>7, <2>2, <3>2
    <3>. QED BY <1>1, <1>2, <1>6, <3>3
  <2>. QED BY <2>1, <2>2
<1>9. Distance(R, cur, x) \in 0 .. k - 1 /\ (Distance(R, cur, x) = 0 <=> P = q)
  BY <1>1, <1>2, <1>3, <1>6
<1>10. \A y \in R : Place(R, y) = q =>
         Distance(R, Place(R, y) + 1, x) = IF x = y THEN k - 1 ELSE Distance(R, cur, x) - 1
  BY <1>3, <1>5, <1>8
<1>. QED BY <1>1, <1>3, <1>4, <1>9, <1>10 DEF k, q, P

(* The rotation of a request that accepts every key gives the key at which *)
(* the cursor stands.                                                    *)
LEMMA NextIsFirst ==
  ASSUME NEW R \in SUBSET Nat, IsFiniteSet(R), NEW cur \in Nat, NEW x, IsNext(R, cur, R, x)
  PROVE  /\ x \in R /\ Distance(R, cur, x) = 0
         /\ \A y \in R : Distance(R, Place(R, x) + 1, y) =
               IF y = x THEN Cardinality(R) - 1 ELSE Distance(R, cur, y) - 1
<1>1. x \in R /\ \A y \in R : Distance(R, cur, x) <= Distance(R, cur, y)
  BY DEF IsNext
<1>2. Cardinality(R) \in Nat \ {0}
  BY <1>1, Placed, FS_EmptySet
<1>3. PICK y \in R : Place(R, y) = cur % Cardinality(R)
  BY <1>2, Placed
<1>4. Distance(R, cur, y) = 0 /\ Distance(R, cur, x) \in 0 .. Cardinality(R) - 1
  BY <1>1, <1>3, Distances
<1>5. Distance(R, cur, x) = 0
  BY <1>1, <1>2, <1>4
<1>6. Place(R, x) = cur % Cardinality(R)
  BY <1>1, <1>5, Distances
<1>. QED BY <1>1, <1>5, <1>6, Distances

(* The keys are in the order the rotation of R gives them out in, and the *)
(* last ones are those the cursor k has just passed.                     *)
Turning(R, k, keys) ==
    LET n == Len(keys)
        size == Cardinality(R)
    IN /\ \A i \in 1 .. n : n - i < size =>
             keys[i] \in R /\ Distance(R, k, keys[i]) = size - 1 - (n - i)
       /\ \A i, j \in 1 .. n : i < j /\ j - i < size => keys[i] # keys[j]

(* The oldest key may be forgotten.                                      *)
LEMMA TurningTail ==
  ASSUME NEW R \in SUBSET Nat, IsFiniteSet(R), NEW k, NEW T, NEW keys \in Seq(T), keys # <<>>,
         Turning(R, k, keys)
  PROVE  Turning(R, k, Tail(keys))
<1> DEFINE n == Len(keys)
           tail == Tail(keys)
<1>1. /\ n \in Nat /\ Len(tail) = n - 1 /\ Cardinality(R) \in Nat
      /\ \A i \in 1 .. n - 1 : tail[i] = keys[i + 1] /\ i + 1 \in 1 .. n
  BY Placed
<1>2. ASSUME NEW i \in 1 .. n - 1, n - 1 - i < Cardinality(R)
      PROVE  tail[i] \in R /\ Distance(R, k, tail[i]) = Cardinality(R) - 1 - (n - 1 - i)
  <2>1. i + 1 \in 1 .. n /\ n - (i + 1) = n - 1 - i /\ tail[i] = keys[i + 1]
    BY <1>1
  <2>. QED BY <1>2, <2>1 DEF Turning
<1>3. ASSUME NEW i \in 1 .. n - 1, NEW j \in 1 .. n - 1, i < j, j - i < Cardinality(R)
      PROVE  tail[i] # tail[j]
  <2>1. /\ i + 1 \in 1 .. n /\ j + 1 \in 1 .. n /\ i + 1 < j + 1
        /\ (j + 1) - (i + 1) < Cardinality(R)
        /\ tail[i] = keys[i + 1] /\ tail[j] = keys[j + 1]
    BY <1>1, <1>3
  <2>. QED BY <2>1 DEF Turning
<1>. QED BY <1>1, <1>2, <1>3 DEF Turning

(* The key at which the cursor stands is the next.                       *)
LEMMA TurningAppend ==
  ASSUME NEW R \in SUBSET Nat, IsFiniteSet(R), NEW k \in Nat, NEW T, NEW keys \in Seq(T),
         NEW x \in T, Turning(R, k, keys), IsNext(R, k, R, x)
  PROVE  Turning(R, Place(R, x) + 1, Append(keys, x))
<1> DEFINE n == Len(keys)
           all == Append(keys, x)
           size == Cardinality(R)
           k1 == Place(R, x) + 1
<1>1. /\ n \in Nat /\ Len(all) = n + 1 /\ size \in Nat /\ all[n + 1] = x
      /\ \A i \in 1 .. n : all[i] = keys[i]
  BY Placed
<1>2. /\ x \in R /\ Distance(R, k, x) = 0
      /\ \A y \in R : Distance(R, k1, y) =
            IF y = x THEN size - 1 ELSE Distance(R, k, y) - 1
  BY NextIsFirst
<1>3. /\ \A i \in 1 .. n : n - i < size =>
            keys[i] \in R /\ Distance(R, k, keys[i]) = size - 1 - (n - i)
      /\ \A i, j \in 1 .. n : i < j /\ j - i < size => keys[i] # keys[j]
  BY DEF Turning
<1>. HIDE DEF n, all, size, k1
<1>4. ASSUME NEW i \in 1 .. n, n + 1 - i < size
      PROVE  /\ all[i] \in R /\ Distance(R, k1, all[i]) = size - 1 - (n + 1 - i)
             /\ all[i] # x
  <2>1. /\ all[i] \in R /\ Distance(R, k, all[i]) = size - 1 - (n - i)
    BY <1>1, <1>3, <1>4
  <2>2. Distance(R, k, all[i]) # 0
    BY <1>1, <1>4, <2>1
  <2>3. all[i] # x
    BY <1>2, <2>2
  <2>4. Distance(R, k1, all[i]) = Distance(R, k, all[i]) - 1
    BY <1>2, <2>1, <2>3
  <2>. QED BY <1>1, <2>1, <2>3, <2>4
<1>5. ASSUME NEW i \in 1 .. n + 1, n + 1 - i < size
      PROVE  all[i] \in R /\ Distance(R, k1, all[i]) = size - 1 - (n + 1 - i)
  <2>1. CASE i = n + 1
    BY <1>1, <1>2, <2>1
  <2>2. CASE i # n + 1
    <3>1. i \in 1 .. n
      BY <1>1, <2>2
    <3>. QED BY <1>4, <1>5, <3>1
  <2>. QED BY <2>1, <2>2
<1>6. ASSUME NEW i \in 1 .. n + 1, NEW j \in 1 .. n + 1, i < j, j - i < size
      PROVE  all[i] # all[j]
  <2>1. i \in 1 .. n
    BY <1>1, <1>6
  <2>2. CASE j = n + 1
    BY <1>1, <1>4, <1>6, <2>1, <2>2
  <2>3. CASE j # n + 1
    <3>1. j \in 1 .. n
      BY <1>1, <2>3
    <3>. QED BY <1>1, <1>3, <1>6, <2>1, <3>1
  <2>. QED BY <2>2, <2>3
<1>7. /\ \A i \in 1 .. Len(all) : Len(all) - i < size =>
            all[i] \in R /\ Distance(R, k1, all[i]) = size - 1 - (Len(all) - i)
      /\ \A i, j \in 1 .. Len(all) : i < j /\ j - i < size => all[i] # all[j]
  BY <1>1, <1>5, <1>6
<1>. QED BY <1>7 DEF Turning, n, all, size, k1

(* A cursor that stands where the other does.                            *)
LEMMA TurningSame ==
  ASSUME NEW R, NEW k, NEW k1, NEW keys, Turning(R, k, keys),
         \A y \in R : Distance(R, k1, y) = Distance(R, k, y)
  PROVE  Turning(R, k1, keys)
  BY DEF Turning

(* The groups the picks are of.                                          *)
ParentsOf(index, picks) == [i \in 1 .. Len(picks) |-> index[picks[i]].parent]

(* What the picks of one shard have to do with its cursor.               *)
TurnsIn(s, view, priority, picks) ==
    LET S   == Tier(s.index, view, priority)
        cur == s.cursor[priority][view]
    IN /\ \A i \in 1 .. Len(picks) : picks[i] \in S
       /\ Len(picks) <= Cardinality(S)
       /\ IF Grouped(s.index, S)
          THEN Turning(ParentsIn(s.index, S), cur.parent, ParentsOf(s.index, picks))
          ELSE Turning(S, cur.flat, picks)

(* The index of t is that of s, and its cursors stand where those of s do. *)
Steady(s, t) ==
    /\ t.index = s.index
    /\ \A priority \in Priorities, view \in Views :
          LET S  == Tier(s.index, view, priority)
              R  == ParentsIn(s.index, S)
              c  == s.cursor[priority][view]
              d  == t.cursor[priority][view]
          IN /\ \A x \in S : Distance(S, d.flat, x) = Distance(S, c.flat, x)
             /\ Grouped(s.index, S) => \A g \in R : Distance(R, d.parent, g) = Distance(R, c.parent, g)

(* The tier that is picked from, and its groups, are finite sets of numbers. *)
LEMMA TierTyped ==
  ASSUME NEW s \in ShardType, NEW view \in Views, NEW priority \in Priorities
  PROVE  LET S == Tier(s.index, view, priority)
             R == ParentsIn(s.index, S)
             c == s.cursor[priority][view]
         IN /\ S \in SUBSET Creds /\ S \in SUBSET Nat /\ IsFiniteSet(S)
            /\ R \in SUBSET Groups /\ R \in SUBSET Nat /\ IsFiniteSet(R)
            /\ \A x \in S : s.index[x] # None /\ s.index[x].parent \in R
            /\ c \in CursorType /\ c.flat \in Nat /\ c.parent \in Nat
            /\ s.index \in [Creds -> MetaType \cup {None}]
<1> DEFINE S == Tier(s.index, view, priority)
           R == ParentsIn(s.index, S)
<1>1. s.index \in [Creds -> MetaType \cup {None}] /\ s.cursor[priority][view] \in CursorType
  BY DEF ShardType
<1>2. S \in SUBSET Creds /\ \A x \in S : s.index[x] # None
  BY DEF Tier, Ready
<1>3. R \in SUBSET Groups /\ \A x \in S : s.index[x].parent \in R
  BY <1>1, <1>2 DEF ParentsIn, MetaType
<1>4. Creds \subseteq Nat /\ Groups \subseteq Nat
  BY RequestAssumption DEF Groups, NoParent
<1>5. /\ s.cursor[priority][view].flat \in Nat /\ s.cursor[priority][view].parent \in Nat
  BY <1>1 DEF CursorType
<1>. QED BY <1>1, <1>2, <1>3, <1>4, <1>5, FiniteParts

(* A rebuild of the ready index to what it is keeps the index and the cursors. *)
LEMMA RebuiltSteady ==
  ASSUME NEW s \in ShardType, NEW ms, NEW entry, ReadyIndex(ms, entry) = s.index
  PROVE  Steady(s, Rebuilt(s, ms, entry))
<1> DEFINE t == Rebuilt(s, ms, entry)
<1>1. t.index = s.index
  BY DEF Rebuilt
<1>2. ASSUME NEW priority \in Priorities, NEW view \in Views
      PROVE  LET S  == Tier(s.index, view, priority)
                 R  == ParentsIn(s.index, S)
                 c  == s.cursor[priority][view]
                 d  == t.cursor[priority][view]
             IN /\ \A x \in S : Distance(S, d.flat, x) = Distance(S, c.flat, x)
                /\ Grouped(s.index, S) =>
                     \A g \in R : Distance(R, d.parent, g) = Distance(R, c.parent, g)
  <2> DEFINE S  == Tier(s.index, view, priority)
             R  == ParentsIn(s.index, S)
             c  == s.cursor[priority][view]
             d  == t.cursor[priority][view]
  <2>1. d = Restored(c, s.index, S, s.index, S)
    BY DEF Rebuilt
  <2>2. /\ d.flat = NormalizeCursor(c.flat, Cardinality(S))
        /\ Grouped(s.index, S) => d.parent = NormalizeCursor(c.parent, Cardinality(R))
    <3>. HIDE DEF S, c, d
    <3>. QED BY <2>1 DEF Restored
  <2>3. /\ S \in SUBSET Nat /\ IsFiniteSet(S) /\ R \in SUBSET Nat /\ IsFiniteSet(R)
        /\ c.flat \in Nat /\ c.parent \in Nat
    BY TierTyped
  <2>. HIDE DEF S, R, c, d
  <2>4. \A x \in S : Distance(S, d.flat, x) = Distance(S, c.flat, x)
    BY <2>2, <2>3, Distances
  <2>5. Grouped(s.index, S) => \A g \in R : Distance(R, d.parent, g) = Distance(R, c.parent, g)
    BY <2>2, <2>3, Distances
  <2>. QED BY <2>4, <2>5 DEF S, R, c, d
<1>. QED BY <1>1, <1>2 DEF Steady

(* Bringing a shard up to date moves no cursor if it leaves the index.   *)
LEMMA EnsuredSteady ==
  ASSUME IInv, NEW p \in Providers, NEW m \in Models, Ensured(p, m).index = shard[p][m].index
  PROVE  Steady(shard[p][m], Ensured(p, m))
<1> DEFINE s == shard[p][m]
<1>1. s \in ShardType /\ (~s.built => s = NoShard)
  BY DEF IInv, Shards, ShardOK
<1>2. CASE Ensured(p, m) = s
  BY <1>2 DEF Steady
<1>3. CASE p \in known /\ ~s.built
  <2>1. \A priority \in Priorities, view \in Views : Tier(s.index, view, priority) = {}
    BY <1>1, <1>3 DEF NoShard, Tier, Ready
  <2>2. \A priority \in Priorities, view \in Views :
          ParentsIn(s.index, Tier(s.index, view, priority)) = {}
    BY <2>1 DEF ParentsIn
  <2>. QED BY <2>1, <2>2 DEF Steady
<1>4. CASE s.built /\ Ensured(p, m) # s
  <2>1. Ensured(p, m) = Promoted(s, meta[p], m)
    BY <1>4 DEF Ensured
  <2>2. PICK entry : Promoted(s, meta[p], m) = Rebuilt(s, meta[p], entry)
    BY <1>4, <2>1 DEF Promoted
  <2>3. ReadyIndex(meta[p], entry) = s.index
    BY <2>1, <2>2 DEF Rebuilt
  <2>. HIDE DEF s
  <2>4. Steady(s, Rebuilt(s, meta[p], entry))
    BY <1>1, <2>3, RebuiltSteady
  <2>. QED BY <2>1, <2>2, <2>4 DEF s
<1>. QED BY <1>2, <1>3, <1>4 DEF Ensured

(* The picks of a shard that stays steady are still in turn.             *)
LEMMA TurnsInSame ==
  ASSUME NEW s, NEW t, Steady(s, t), NEW view \in Views, NEW priority \in Priorities, NEW picks,
         TurnsIn(s, view, priority, picks)
  PROVE  TurnsIn(t, view, priority, picks)
<1> DEFINE S  == Tier(s.index, view, priority)
           R  == ParentsIn(s.index, S)
           c  == s.cursor[priority][view]
           d  == t.cursor[priority][view]
<1>1. /\ t.index = s.index
      /\ \A x \in S : Distance(S, d.flat, x) = Distance(S, c.flat, x)
      /\ Grouped(s.index, S) => \A g \in R : Distance(R, d.parent, g) = Distance(R, c.parent, g)
  BY DEF Steady
<1>2. /\ \A i \in 1 .. Len(picks) : picks[i] \in S
      /\ Len(picks) <= Cardinality(S)
      /\ IF Grouped(s.index, S) THEN Turning(R, c.parent, ParentsOf(s.index, picks))
                                ELSE Turning(S, c.flat, picks)
  BY DEF TurnsIn
<1>. HIDE DEF S, R, c, d
<1>3. IF Grouped(s.index, S) THEN Turning(R, d.parent, ParentsOf(s.index, picks))
                             ELSE Turning(S, d.flat, picks)
  BY <1>1, <1>2, TurningSame
<1>. QED BY <1>1, <1>2, <1>3 DEF TurnsIn, S, R, c, d

(* Forgetting the oldest pick leaves the others in turn.                 *)
LEMMA TurnsInTail ==
  ASSUME NEW s \in ShardType, NEW view \in Views, NEW priority \in Priorities,
         NEW picks \in Seq(Creds), picks # <<>>, TurnsIn(s, view, priority, picks)
  PROVE  TurnsIn(s, view, priority, Tail(picks))
<1> DEFINE S  == Tier(s.index, view, priority)
           R  == ParentsIn(s.index, S)
           c  == s.cursor[priority][view]
           n  == Len(picks)
<1>1. /\ S \in SUBSET Creds /\ S \in SUBSET Nat /\ IsFiniteSet(S)
      /\ R \in SUBSET Nat /\ IsFiniteSet(R)
      /\ \A x \in S : s.index[x].parent \in R
  BY TierTyped
<1>2. /\ \A i \in 1 .. n : picks[i] \in S
      /\ n <= Cardinality(S)
      /\ IF Grouped(s.index, S) THEN Turning(R, c.parent, ParentsOf(s.index, picks))
                                ELSE Turning(S, c.flat, picks)
  BY DEF TurnsIn
<1>3. /\ n \in Nat \ {0} /\ Len(Tail(picks)) = n - 1 /\ Cardinality(S) \in Nat
      /\ \A i \in 1 .. n - 1 : Tail(picks)[i] = picks[i + 1] /\ i + 1 \in 1 .. n
  BY <1>1, FS_CardinalityType
<1>. HIDE DEF S, R, c
<1>4. ParentsOf(s.index, picks) \in Seq(R) /\ Len(ParentsOf(s.index, picks)) = n
  <2>1. ParentsOf(s.index, picks) \in [1 .. n -> R]
    BY <1>1, <1>2 DEF ParentsOf
  <2>. QED BY <1>3, <2>1
<1>5. ParentsOf(s.index, picks) # <<>>
  BY <1>3, <1>4
<1>6. Tail(ParentsOf(s.index, picks)) = ParentsOf(s.index, Tail(picks))
  <2>1. Tail(ParentsOf(s.index, picks)) = [i \in 1 .. n - 1 |-> ParentsOf(s.index, picks)[i + 1]]
    BY <1>3, <1>4, <1>5
  <2>2. ParentsOf(s.index, Tail(picks)) = [i \in 1 .. n - 1 |-> s.index[picks[i + 1]].parent]
    BY <1>3 DEF ParentsOf
  <2>. QED BY <1>3, <2>1, <2>2 DEF ParentsOf
<1>7. IF Grouped(s.index, S) THEN Turning(R, c.parent, ParentsOf(s.index, Tail(picks)))
                             ELSE Turning(S, c.flat, Tail(picks))
  BY <1>1, <1>2, <1>4, <1>5, <1>6, TurningTail
<1>8. /\ \A i \in 1 .. Len(Tail(picks)) : Tail(picks)[i] \in S
      /\ Len(Tail(picks)) <= Cardinality(S)
  BY <1>2, <1>3
<1>. QED BY <1>7, <1>8 DEF TurnsIn, S, R, c

(* A pick of a credential at the shard's cursor, which moves on, is in turn. *)
LEMMA TurnsInAppend ==
  ASSUME NEW s \in ShardType, NEW view \in Views, NEW priority \in Priorities,
         NEW picks \in Seq(Creds), NEW x \in Creds, TurnsIn(s, view, priority, picks),
         Len(picks) < Cardinality(Tier(s.index, view, priority)),
         NEW strat, strat # "fillFirst", Gives(s, view, priority, strat, Creds, x)
  PROVE  TurnsIn(Having(s, view, priority, strat, x), view, priority, Append(picks, x))
<1> DEFINE S  == Tier(s.index, view, priority)
           R  == ParentsIn(s.index, S)
           c  == s.cursor[priority][view]
           n  == Len(picks)
           t  == Having(s, view, priority, strat, x)
           all == Append(picks, x)
<1>1. /\ S \in SUBSET Creds /\ S \in SUBSET Nat /\ IsFiniteSet(S)
      /\ R \in SUBSET Nat /\ IsFiniteSet(R)
      /\ \A y \in S : s.index[y].parent \in R
      /\ c \in CursorType /\ c.flat \in Nat /\ c.parent \in Nat
  BY TierTyped
<1>2. /\ \A i \in 1 .. n : picks[i] \in S
      /\ IF Grouped(s.index, S) THEN Turning(R, c.parent, ParentsOf(s.index, picks))
                                ELSE Turning(S, c.flat, picks)
  BY DEF TurnsIn
<1>3. /\ n \in Nat /\ Len(all) = n + 1 /\ Cardinality(S) \in Nat
      /\ \A i \in 1 .. n : all[i] = picks[i]
      /\ all[n + 1] = x
  BY <1>1, FS_CardinalityType
<1>4. x \in S /\ IsNextIn(s.index, S, c, Creds, x)
  BY DEF Gives
<1>5. S \cap Creds = S
  BY <1>1
<1>6. t.index = s.index /\ t.cursor[priority][view] = Advanced(s.index, S, c, x)
  BY DEF Having, ShardType
<1>7. n < Cardinality(S)
  OBVIOUS
<1>. HIDE DEF S, R, c, t, all
<1>8. /\ \A i \in 1 .. Len(all) : all[i] \in S
      /\ Len(all) <= Cardinality(S)
  BY <1>2, <1>3, <1>4, <1>7
<1>9. CASE Grouped(s.index, S)
  <2>1. s.index[x].parent \in R /\ IsNext(R, c.parent, R, s.index[x].parent)
    BY <1>1, <1>4, <1>5, <1>9 DEF IsNextIn, R
  <2>2. t.cursor[priority][view].parent = Place(R, s.index[x].parent) + 1
    BY <1>1, <1>6, <1>9 DEF Advanced, CursorType, R
  <2>3. ParentsOf(s.index, picks) \in Seq(R)
    <3>1. ParentsOf(s.index, picks) \in [1 .. n -> R]
      BY <1>1, <1>2 DEF ParentsOf
    <3>. QED BY <1>3, <3>1
  <2>4. ParentsOf(s.index, all) = Append(ParentsOf(s.index, picks), s.index[x].parent)
    <3>1. ParentsOf(s.index, all) = [i \in 1 .. n + 1 |-> s.index[all[i]].parent]
      BY <1>3 DEF ParentsOf
    <3>2. Len(ParentsOf(s.index, picks)) = n
      BY <1>3 DEF ParentsOf
    <3>3. Append(ParentsOf(s.index, picks), s.index[x].parent) =
            [i \in 1 .. n + 1 |-> IF i = n + 1 THEN s.index[x].parent
                                               ELSE ParentsOf(s.index, picks)[i]]
      BY <2>1, <2>3, <3>2
    <3>4. ASSUME NEW i \in 1 .. n + 1
          PROVE  s.index[all[i]].parent = IF i = n + 1 THEN s.index[x].parent
                                          ELSE ParentsOf(s.index, picks)[i]
      <4>1. CASE i = n + 1
        BY <1>3, <4>1
      <4>2. CASE i # n + 1
        <5>1. i \in 1 .. n
          BY <1>3, <4>2
        <5>. QED BY <1>3, <4>2, <5>1 DEF ParentsOf
      <4>. QED BY <4>1, <4>2
    <3>. QED BY <3>1, <3>3, <3>4
  <2>5. Turning(R, t.cursor[priority][view].parent, ParentsOf(s.index, all))
    BY <1>1, <1>2, <1>9, <2>1, <2>2, <2>3, <2>4, TurningAppend
  <2>. QED BY <1>6, <1>8, <1>9, <2>5 DEF TurnsIn, S, R, t, all
<1>10. CASE ~Grouped(s.index, S)
  <2>1. IsNext(S, c.flat, S, x)
    <3>1. IsNext(S, c.flat, Creds, x)
      BY <1>4, <1>10 DEF IsNextIn
    <3>. QED BY <1>5, <3>1 DEF IsNext
  <2>2. t.cursor[priority][view].flat = Place(S, x) + 1
    BY <1>1, <1>6, <1>10 DEF Advanced, CursorType
  <2>3. Turning(S, t.cursor[priority][view].flat, all)
    BY <1>1, <1>2, <1>10, <2>1, <2>2, TurningAppend DEF all
  <2>. QED BY <1>6, <1>8, <1>10, <2>3 DEF TurnsIn, S, R, t, all
<1>. QED BY <1>9, <1>10

(* The slot that was served so many picks before the one before slot.    *)
SlotBefore(size, slot, back) == IF slot > back THEN slot - 1 - back ELSE slot - 1 - back + size

(* How far the cursor of the segment a .. b - 1 is from the credential   *)
(* that has the slot tau in it.                                          *)
Due(a, b, slot, tau) ==
    IF slot \in a .. b - 1
    THEN IF tau >= slot THEN tau - slot ELSE tau - slot + (b - a)
    ELSE tau - a

(* The credential x of provider i has the slot tau: the provider's cursor is as *)
(* far from x as the route's cursor is from tau.                         *)
Served(sh, r, priority, slot, i, tau, x) ==
    LET s == sh[r.route[i]]
        S == Tier(s.index, "all", priority)
    IN /\ tau \in Segment(sh, r, priority, i)
       /\ x \in S
       /\ Distance(S, s.cursor[priority]["all"].flat, x) =
             Due(Cardinality(Upto(sh, r, priority, i - 1)), Cardinality(Upto(sh, r, priority, i)),
                 slot, tau)

(* What the picks of a route with several providers have to do with its  *)
(* cursor, and with those of the providers.                              *)
TurnsAcross(sh, r, priority, slot, picks) ==
    LET size == Cardinality(Upto(sh, r, priority, Len(r.route)))
        n    == Len(picks)
    IN /\ n <= size
       /\ \A j \in 1 .. n : \E i \in 1 .. Len(r.route) :
             Served(sh, r, priority, slot, i, SlotBefore(size, slot, n - j), picks[j])

(* The shards of a route: no credential is in two of them.               *)
Apart(sh, r, priority) ==
    /\ r.route \in Seq(Providers)
    /\ \A p \in RouteProviders(r) : sh[p] \in ShardType
    /\ \A p, q \in RouteProviders(r) :
          p # q => Tier(sh[p].index, "all", priority) \cap Tier(sh[q].index, "all", priority) = {}

(* The tiers of more providers hold more credentials.                    *)
LEMMA UptoGrows ==
  ASSUME NEW sh, NEW r, NEW priority, NEW i \in Nat, NEW j \in Nat, i <= j
  PROVE  /\ Upto(sh, r, priority, i) \in SUBSET Upto(sh, r, priority, j)
         /\ Cardinality(Upto(sh, r, priority, i)) <= Cardinality(Upto(sh, r, priority, j))
         /\ Cardinality(Upto(sh, r, priority, i)) \in Nat
         /\ Cardinality(Upto(sh, r, priority, j)) \in Nat
<1>1. 1 .. i \in SUBSET (1 .. j)
  OBVIOUS
<1>2. Upto(sh, r, priority, i) \in SUBSET Upto(sh, r, priority, j)
  BY <1>1 DEF Upto
<1>3. /\ Upto(sh, r, priority, j) \in SUBSET Creds /\ Upto(sh, r, priority, i) \in SUBSET Creds
      /\ Cardinality(Upto(sh, r, priority, j)) \in Nat
      /\ Cardinality(Upto(sh, r, priority, i)) \in Nat
  BY UptoFinite
<1>4. IsFiniteSet(Upto(sh, r, priority, j))
  BY <1>3, FiniteParts
<1>. QED BY <1>2, <1>3, <1>4, FS_Subset

(* One provider more adds its tier.                                      *)
LEMMA UptoNext ==
  ASSUME NEW sh, NEW r, NEW priority, NEW i \in Nat \ {0}
  PROVE  /\ Upto(sh, r, priority, i) =
              Upto(sh, r, priority, i - 1) \cup Tier(sh[r.route[i]].index, "all", priority)
         /\ Upto(sh, r, priority, 0) = {} /\ Cardinality(Upto(sh, r, priority, 0)) = 0
<1>1. 1 .. i = (1 .. i - 1) \cup {i} /\ 1 .. 0 = {}
  OBVIOUS
<1>2. Upto(sh, r, priority, 0) = {}
  BY <1>1 DEF Upto
<1>. QED BY <1>1, <1>2, FS_EmptySet DEF Upto

(* A provider has a segment at one place of its route only, and its      *)
(* credentials are nobody else's.                                        *)
LEMMA SegmentFull ==
  ASSUME NEW sh, NEW r, NEW priority, Apart(sh, r, priority), NEW i \in 1 .. Len(r.route),
         NEW tau \in Segment(sh, r, priority, i)
  PROVE  LET S == Tier(sh[r.route[i]].index, "all", priority)
         IN /\ S \cap Upto(sh, r, priority, i - 1) = {}
            /\ Cardinality(S) = Cardinality(Upto(sh, r, priority, i))
                                - Cardinality(Upto(sh, r, priority, i - 1))
<1> DEFINE S == Tier(sh[r.route[i]].index, "all", priority)
           A == Upto(sh, r, priority, i - 1)
           B == Upto(sh, r, priority, i)
<1>1. r.route \in Seq(Providers) /\ Len(r.route) \in Nat /\ i \in Nat \ {0} /\ i - 1 \in Nat
  BY DEF Apart
<1>2. B = A \cup S /\ Cardinality(A) \in Nat /\ Cardinality(B) \in Nat
  BY <1>1, UptoNext, UptoFinite
<1>3. Cardinality(A) # Cardinality(B)
  BY <1>2 DEF Segment
<1>4. ASSUME NEW k \in 1 .. i - 1 PROVE S \cap Tier(sh[r.route[k]].index, "all", priority) = {}
  <2>1. k \in 1 .. Len(r.route)
    BY <1>1
  <2>2. r.route[k] \in RouteProviders(r) /\ r.route[i] \in RouteProviders(r)
    BY <2>1 DEF RouteProviders
  <2>3. r.route[k] # r.route[i]
    <3>1. SUFFICES ASSUME r.route[k] = r.route[i] PROVE FALSE
      OBVIOUS
    <3>2. S \in SUBSET A
      BY <3>1 DEF Upto
    <3>. QED BY <1>2, <1>3, <3>2
  <2>. QED BY <2>2, <2>3 DEF Apart
<1>5. S \cap A = {}
  BY <1>4 DEF Upto
<1>6. IsFiniteSet(S) /\ IsFiniteSet(A) /\ Cardinality(S) \in Nat
  <2>1. S \in SUBSET Creds /\ A \in SUBSET Creds
    BY UptoFinite DEF Tier, Ready
  <2>. QED BY <2>1, FiniteParts
<1>7. Cardinality(B) = Cardinality(A) + Cardinality(S)
  <2>1. A \cap S = {} /\ Cardinality({}) = 0
    BY <1>5, FS_EmptySet
  <2>. HIDE DEF A, B, S
  <2>2. Cardinality(A \cup S) = Cardinality(A) + Cardinality(S) - Cardinality(A \cap S)
    BY <1>6, FS_Union
  <2>3. Cardinality(A \cap S) = 0 /\ Cardinality(B) = Cardinality(A \cup S)
    BY <1>2, <2>1
  <2>. QED BY <1>2, <1>6, <2>2, <2>3
<1>. HIDE DEF A, B, S
<1>8. Cardinality(S) = Cardinality(B) - Cardinality(A)
  BY <1>2, <1>6, <1>7
<1>. QED BY <1>5, <1>8 DEF A, B, S

(* Neither a slot nor a credential is of two providers.                  *)
LEMMA OneSegment ==
  ASSUME NEW sh, NEW r, NEW priority, Apart(sh, r, priority),
         NEW i \in 1 .. Len(r.route), NEW j \in 1 .. Len(r.route),
         NEW tau \in Segment(sh, r, priority, i), NEW sigma \in Segment(sh, r, priority, j),
         \/ tau = sigma
         \/ \E x \in Tier(sh[r.route[i]].index, "all", priority) :
               x \in Tier(sh[r.route[j]].index, "all", priority)
  PROVE  i = j
<1>1. ASSUME NEW k \in 1 .. Len(r.route), NEW l \in 1 .. Len(r.route), k < l,
             NEW s \in Segment(sh, r, priority, k), NEW t \in Segment(sh, r, priority, l)
      PROVE  /\ s # t
             /\ \A x \in Tier(sh[r.route[k]].index, "all", priority) :
                   x \notin Tier(sh[r.route[l]].index, "all", priority)
  <2>1. Len(r.route) \in Nat /\ k \in Nat \ {0} /\ l - 1 \in Nat /\ k <= l - 1
    BY <1>1 DEF Apart
  <2>2. /\ Upto(sh, r, priority, k) \in SUBSET Upto(sh, r, priority, l - 1)
        /\ Cardinality(Upto(sh, r, priority, k)) <= Cardinality(Upto(sh, r, priority, l - 1))
        /\ Cardinality(Upto(sh, r, priority, k)) \in Nat
        /\ Cardinality(Upto(sh, r, priority, l - 1)) \in Nat
    BY <2>1, UptoGrows
  <2>3. Tier(sh[r.route[k]].index, "all", priority) \in SUBSET Upto(sh, r, priority, k)
    BY <2>1, UptoNext
  <2>4. Tier(sh[r.route[l]].index, "all", priority) \cap Upto(sh, r, priority, l - 1) = {}
    BY SegmentFull
  <2>5. s < Cardinality(Upto(sh, r, priority, k)) /\ s \in Int /\ t \in Int
        /\ t >= Cardinality(Upto(sh, r, priority, l - 1))
    <3>1. Cardinality(Upto(sh, r, priority, k - 1)) \in Nat
          /\ Cardinality(Upto(sh, r, priority, l)) \in Nat
      BY UptoFinite
    <3>. QED BY <2>2, <3>1 DEF Segment
  <2>. QED BY <2>2, <2>3, <2>4, <2>5
<1>2. i \in Nat /\ j \in Nat
  BY DEF Apart
<1>3. CASE i < j
  BY <1>1, <1>3
<1>4. CASE j < i
  BY <1>1, <1>4
<1>. QED BY <1>2, <1>3, <1>4

(* Every slot is in a segment.                                           *)
LEMMA SomeSegment ==
  ASSUME NEW sh, NEW r, NEW priority, Len(r.route) \in Nat,
         NEW slot \in 0 .. Cardinality(Upto(sh, r, priority, Len(r.route))) - 1
  PROVE  \E k \in 1 .. Len(r.route) : slot \in Segment(sh, r, priority, k)
<1> DEFINE size(k) == Cardinality(Upto(sh, r, priority, k))
           K == {k \in 1 .. Len(r.route) : slot < size(k)}
<1>1. /\ size(0) = 0 /\ \A k \in Nat : size(k) \in Nat
  BY UptoNext, UptoFinite
<1>2. slot \in Nat /\ slot < size(Len(r.route))
  BY <1>1
<1>. HIDE DEF size
<1>3. Len(r.route) # 0
  BY <1>1, <1>2
<1>4. Len(r.route) \in K /\ K \in SUBSET Nat
  BY <1>2, <1>3
<1>5. IsFiniteSet(K)
  <2>1. IsFiniteSet(1 .. Len(r.route))
    BY FS_Interval
  <2>. QED BY <2>1, FS_Subset
<1>6. PICK k \in K : \A l \in K : k <= l
  BY <1>4, <1>5, LeastOf
<1>7. slot >= size(k - 1)
  <2>1. CASE k = 1
    BY <1>1, <1>2, <2>1
  <2>2. CASE k # 1
    <3>1. k - 1 \in 1 .. Len(r.route) /\ k - 1 \in Nat /\ ~(k <= k - 1)
      BY <2>2
    <3>2. ~(slot < size(k - 1))
      BY <1>6, <3>1
    <3>3. size(k - 1) \in Nat
      BY <1>1, <3>1
    <3>. QED BY <1>2, <3>2, <3>3
  <2>. QED BY <2>1, <2>2
<1>8. slot < size(k) /\ k \in 1 .. Len(r.route) /\ size(k) \in Nat /\ size(k - 1) \in Nat
  <2>1. slot < size(k) /\ k \in 1 .. Len(r.route)
    OBVIOUS
  <2>2. k \in Nat /\ k - 1 \in Nat
    BY <2>1
  <2>. QED BY <1>1, <2>1, <2>2
<1>9. slot \in size(k - 1) .. size(k) - 1
  BY <1>2, <1>7, <1>8
<1>. QED BY <1>8, <1>9 DEF size, Segment

(* A request that accepts every credential is served in the segment.     *)
LEMMA ServingSegment ==
  ASSUME NEW sh, NEW r, NEW priority, Apart(sh, r, priority), Wanted(r) = Creds,
         NEW slot \in 0 .. Cardinality(Upto(sh, r, priority, Len(r.route))) - 1,
         NEW i \in 1 .. Len(r.route), IsServing(sh, r, priority, slot, i)
  PROVE  slot \in Segment(sh, r, priority, i)
<1> DEFINE n     == Len(r.route)
           start == CHOOSE k \in 1 .. n : slot \in Segment(sh, r, priority, k)
           able  == {k \in 1 .. n : Eligible(sh, r.route[k], "all", priority, r) # {}}
<1>1. n \in Nat
  BY DEF Apart
<1>2. start \in 1 .. n /\ slot \in Segment(sh, r, priority, start)
  BY <1>1, SomeSegment
<1>3. start \in able
  <2>1. Cardinality(Tier(sh[r.route[start]].index, "all", priority)) # 0
    <3>. HIDE DEF start
    <3>1. Cardinality(Tier(sh[r.route[start]].index, "all", priority)) =
             Cardinality(Upto(sh, r, priority, start)) - Cardinality(Upto(sh, r, priority, start - 1))
      BY <1>2, SegmentFull
    <3>2. /\ Cardinality(Upto(sh, r, priority, start)) \in Nat
          /\ Cardinality(Upto(sh, r, priority, start - 1)) \in Nat
      BY UptoFinite
    <3>. QED BY <1>2, <3>1, <3>2 DEF Segment
  <2>2. Tier(sh[r.route[start]].index, "all", priority) # {}
    BY <2>1, FS_EmptySet
  <2>3. Tier(sh[r.route[start]].index, "all", priority) \in SUBSET Creds
    BY DEF Tier, Ready
  <2>. HIDE DEF start
  <2>. QED BY <1>2, <2>2, <2>3 DEF Eligible
<1>4. (i - start + n) % n <= (start - start + n) % n
  BY <1>3 DEF IsServing
<1>. HIDE DEF start, able
<1>5. i = start
  <2>1. n \in Nat \ {0} /\ i \in 1 .. n /\ start \in 1 .. n
    BY <1>1, <1>2
  <2>. HIDE DEF n
  <2>2. (start - start + n) % n = 0
    BY <2>1
  <2>3. CASE i < start
    <3> DEFINE a == i - start + n
    <3>1. a \in 1 .. n - 1
      BY <2>1, <2>3
    <3>2. a % n = a
      <4>. HIDE DEF a
      <4>. QED BY <2>1, <3>1
    <3>. QED BY <1>4, <2>2, <3>1, <3>2
  <2>4. CASE i > start
    <3> DEFINE a == i - start + n
    <3>1. a \in Nat /\ a > n /\ a < n + n
      BY <2>1, <2>4
    <3>2. a % n = a - n
      <4>. HIDE DEF a
      <4>. QED BY <2>1, <3>1
    <3>. QED BY <1>4, <2>1, <2>2, <3>1, <3>2
  <2>. QED BY <2>1, <2>3, <2>4
<1>. QED BY <1>2, <1>5

(* The slot that follows, without the remainder.                         *)
LEMMA SlotAfter ==
  ASSUME NEW size \in Nat, NEW slot \in 0 .. size - 1
  PROVE  /\ (slot + 1) % size = IF slot = size - 1 THEN 0 ELSE slot + 1
         /\ (slot + 1) % size \in 0 .. size - 1
<1> DEFINE a == slot + 1
<1>1. size \in Nat \ {0} /\ a \in 1 .. size
  OBVIOUS
<1>2. a % size = IF a = size THEN 0 ELSE a
  <2>. HIDE DEF a
  <2>. QED BY <1>1
<1>. QED BY <1>1, <1>2

(* The slots served before keep their distance as the next one is served. *)
LEMMA SlotsBefore ==
  ASSUME NEW size \in Nat, NEW slot \in 0 .. size - 1, NEW back \in 0 .. size - 1
  PROVE  /\ SlotBefore(size, slot, back) \in 0 .. size - 1
         /\ \A other \in 0 .. size - 1 :
               other # back => SlotBefore(size, slot, other) # SlotBefore(size, slot, back)
         /\ SlotBefore(size, (slot + 1) % size, 0) = slot
         /\ back < size - 1 =>
               /\ SlotBefore(size, (slot + 1) % size, back + 1) = SlotBefore(size, slot, back)
               /\ SlotBefore(size, slot, back) # slot
<1> DEFINE next == (slot + 1) % size
<1>1. next = IF slot = size - 1 THEN 0 ELSE slot + 1
  BY SlotAfter
<1>. HIDE DEF next
<1>2. /\ SlotBefore(size, next, 0) = slot
      /\ back < size - 1 => /\ SlotBefore(size, next, back + 1) = SlotBefore(size, slot, back)
                            /\ SlotBefore(size, slot, back) # slot
  BY <1>1 DEF SlotBefore
<1>3. /\ SlotBefore(size, slot, back) \in 0 .. size - 1
      /\ \A other \in 0 .. size - 1 :
            other # back => SlotBefore(size, slot, other) # SlotBefore(size, slot, back)
  BY DEF SlotBefore
<1>. QED BY <1>2, <1>3 DEF next

(* Each slot of a segment is due at a distance of its own.               *)
LEMMA DueOnce ==
  ASSUME NEW a \in Nat, NEW b \in Nat, NEW slot \in Nat,
         NEW tau \in a .. b - 1, NEW other \in a .. b - 1,
         Due(a, b, slot, tau) = Due(a, b, slot, other)
  PROVE  tau = other
  BY DEF Due

(* Forgetting the oldest pick of a route leaves the others in turn.      *)
LEMMA TurnsAcrossTail ==
  ASSUME NEW sh, NEW r, NEW priority, NEW slot, NEW picks \in Seq(Creds), picks # <<>>,
         TurnsAcross(sh, r, priority, slot, picks)
  PROVE  TurnsAcross(sh, r, priority, slot, Tail(picks))
<1> DEFINE n == Len(picks)
           size == Cardinality(Upto(sh, r, priority, Len(r.route)))
<1>1. /\ n \in Nat \ {0} /\ Len(Tail(picks)) = n - 1
      /\ \A j \in 1 .. n - 1 : Tail(picks)[j] = picks[j + 1] /\ j + 1 \in 1 .. n
                               /\ n - (j + 1) = n - 1 - j
  OBVIOUS
<1>2. size \in Nat
  BY UptoFinite
<1>3. /\ n <= size
      /\ \A j \in 1 .. n : \E i \in 1 .. Len(r.route) :
            Served(sh, r, priority, slot, i, SlotBefore(size, slot, n - j), picks[j])
  BY DEF TurnsAcross
<1>. HIDE DEF n, size
<1>4. \A j \in 1 .. n - 1 : \E i \in 1 .. Len(r.route) :
        Served(sh, r, priority, slot, i, SlotBefore(size, slot, n - 1 - j), Tail(picks)[j])
  <2>1. ASSUME NEW j \in 1 .. n - 1
        PROVE  \E i \in 1 .. Len(r.route) :
                 Served(sh, r, priority, slot, i, SlotBefore(size, slot, n - 1 - j), Tail(picks)[j])
    <3>1. PICK i \in 1 .. Len(r.route) :
             Served(sh, r, priority, slot, i, SlotBefore(size, slot, n - (j + 1)), picks[j + 1])
      BY <1>1, <1>3
    <3>2. n - (j + 1) = n - 1 - j /\ Tail(picks)[j] = picks[j + 1]
      BY <1>1
    <3>3. Served(sh, r, priority, slot, i, SlotBefore(size, slot, n - 1 - j), Tail(picks)[j])
      BY ONLY <3>1, <3>2
    <3>. QED BY <3>3
  <2>. QED BY <2>1
<1>5. n - 1 <= size
  BY <1>1, <1>2, <1>3
<1>. QED BY <1>1, <1>4, <1>5 DEF TurnsAcross, size

(* No credential has two of the slots.                                   *)
LEMMA TurnsAcrossDistinct ==
  ASSUME NEW sh, NEW r, NEW priority, Apart(sh, r, priority), NEW picks \in Seq(Creds),
         NEW slot \in 0 .. Cardinality(Upto(sh, r, priority, Len(r.route))) - 1,
         TurnsAcross(sh, r, priority, slot, picks),
         NEW i \in 1 .. Len(picks), NEW j \in 1 .. Len(picks), i # j
  PROVE  picks[i] # picks[j]
<1>. SUFFICES ASSUME picks[i] = picks[j] PROVE FALSE
  OBVIOUS
<1> DEFINE n == Len(picks)
           size == Cardinality(Upto(sh, r, priority, Len(r.route)))
           tau == SlotBefore(size, slot, n - i)
           sigma == SlotBefore(size, slot, n - j)
<1>1. n \in Nat /\ size \in Nat /\ n <= size /\ Len(r.route) \in Nat
  BY UptoFinite DEF TurnsAcross, Apart
<1>2. PICK k \in 1 .. Len(r.route), l \in 1 .. Len(r.route) :
         /\ Served(sh, r, priority, slot, k, tau, picks[i])
         /\ Served(sh, r, priority, slot, l, sigma, picks[i])
  BY DEF TurnsAcross
<1>3. tau # sigma
  <2>1. n - i \in 0 .. size - 1 /\ n - j \in 0 .. size - 1 /\ n - i # n - j
        /\ slot \in 0 .. size - 1
    BY <1>1
  <2>. HIDE DEF n, size
  <2>. QED BY <1>1, <2>1, SlotsBefore
<1>. HIDE DEF tau, sigma
<1>4. k = l
  <2>1. /\ tau \in Segment(sh, r, priority, k) /\ sigma \in Segment(sh, r, priority, l)
        /\ picks[i] \in Tier(sh[r.route[k]].index, "all", priority)
        /\ picks[i] \in Tier(sh[r.route[l]].index, "all", priority)
    BY <1>2 DEF Served
  <2>. QED BY <2>1, OneSegment
<1> DEFINE a == Cardinality(Upto(sh, r, priority, k - 1))
           b == Cardinality(Upto(sh, r, priority, k))
<1>5. Due(a, b, slot, tau) = Due(a, b, slot, sigma) /\ tau \in a .. b - 1 /\ sigma \in a .. b - 1
  BY <1>2, <1>4 DEF Served, Segment
<1>6. a \in Nat /\ b \in Nat /\ slot \in Nat
  BY <1>1, UptoFinite
<1>. HIDE DEF a, b
<1>. QED BY <1>3, <1>5, <1>6, DueOnce

(* Shards of a route with the same indexes.                              *)
Alike(sh, th, r) == \A p \in RouteProviders(r) : th[p].index = sh[p].index

(* Shards with the same indexes have the same segments.                  *)
LEMMA SameIndexes ==
  ASSUME NEW sh, NEW th, NEW r, Alike(sh, th, r), NEW priority
  PROVE  /\ \A i \in 0 .. Len(r.route) : Upto(th, r, priority, i) = Upto(sh, r, priority, i)
         /\ \A i \in 1 .. Len(r.route) : Segment(th, r, priority, i) = Segment(sh, r, priority, i)
<1>1. \A i \in 1 .. Len(r.route) : r.route[i] \in RouteProviders(r)
  BY DEF RouteProviders
<1>2. ASSUME NEW i \in 0 .. Len(r.route) PROVE Upto(th, r, priority, i) = Upto(sh, r, priority, i)
  <2>1. \A k \in 1 .. i : th[r.route[k]].index = sh[r.route[k]].index
    BY <1>1 DEF Alike
  <2>. QED BY <2>1 DEF Upto
<1>3. \A i \in 1 .. Len(r.route) : i - 1 \in 0 .. Len(r.route) /\ i \in 0 .. Len(r.route)
  OBVIOUS
<1>. QED BY <1>2, <1>3 DEF Segment

(* The picks of a route whose shards stay steady are still in turn.      *)
LEMMA TurnsAcrossSame ==
  ASSUME NEW sh, NEW th, NEW r, Len(r.route) \in Nat, NEW priority \in Priorities, NEW slot,
         \A p \in RouteProviders(r) : Steady(sh[p], th[p]), NEW picks,
         TurnsAcross(sh, r, priority, slot, picks)
  PROVE  TurnsAcross(th, r, priority, slot, picks)
<1>1. Alike(sh, th, r)
  BY DEF Steady, Alike
<1>2. /\ \A i \in 0 .. Len(r.route) : Upto(th, r, priority, i) = Upto(sh, r, priority, i)
      /\ \A i \in 1 .. Len(r.route) : Segment(th, r, priority, i) = Segment(sh, r, priority, i)
  BY <1>1, SameIndexes
<1>3. ASSUME NEW i \in 1 .. Len(r.route), NEW tau, NEW x, Served(sh, r, priority, slot, i, tau, x)
      PROVE  Served(th, r, priority, slot, i, tau, x)
  <2>1. r.route[i] \in RouteProviders(r) /\ i - 1 \in 0 .. Len(r.route) /\ i \in 0 .. Len(r.route)
    BY DEF RouteProviders
  <2> DEFINE s == sh[r.route[i]]
             t == th[r.route[i]]
             S == Tier(s.index, "all", priority)
  <2>2. t.index = s.index
    BY <2>1 DEF Steady
  <2>3. \A y \in S : Distance(S, t.cursor[priority]["all"].flat, y)
                       = Distance(S, s.cursor[priority]["all"].flat, y)
    BY <2>1 DEF Steady, Views
  <2>. QED BY <1>2, <1>3, <2>1, <2>2, <2>3 DEF Served
<1>4. Upto(th, r, priority, Len(r.route)) = Upto(sh, r, priority, Len(r.route))
  BY <1>2
<1>. QED BY <1>3, <1>4 DEF TurnsAcross

(* Serving the next slot.                                                *)
LEMMA TurnsAcrossAppend ==
  ASSUME NEW sh, NEW r, NEW priority \in Priorities, Apart(sh, r, priority),
         NEW slot \in 0 .. Cardinality(Upto(sh, r, priority, Len(r.route))) - 1,
         NEW picks \in Seq(Creds), TurnsAcross(sh, r, priority, slot, picks),
         Len(picks) < Cardinality(Upto(sh, r, priority, Len(r.route))),
         NEW i \in 1 .. Len(r.route), slot \in Segment(sh, r, priority, i),
         ~Grouped(sh[r.route[i]].index, Tier(sh[r.route[i]].index, "all", priority)),
         NEW x \in Creds, Gives(sh[r.route[i]], "all", priority, "roundRobin", Creds, x),
         NEW th, \A p \in RouteProviders(r) : p # r.route[i] => th[p] = sh[p],
         th[r.route[i]] = Having(sh[r.route[i]], "all", priority, "roundRobin", x)
  PROVE  TurnsAcross(th, r, priority,
                     (slot + 1) % Cardinality(Upto(sh, r, priority, Len(r.route))),
                     Append(picks, x))
<1> DEFINE n == Len(picks)
           size == Cardinality(Upto(sh, r, priority, Len(r.route)))
           next == (slot + 1) % size
           all == Append(picks, x)
           s == sh[r.route[i]]
           t == th[r.route[i]]
           S == Tier(s.index, "all", priority)
           c == s.cursor[priority]["all"].flat
           d == t.cursor[priority]["all"].flat
           a(k) == Cardinality(Upto(sh, r, priority, k - 1))
           b(k) == Cardinality(Upto(sh, r, priority, k))
<1>1. /\ n \in Nat /\ size \in Nat /\ Len(r.route) \in Nat /\ n < size
      /\ Len(all) = n + 1 /\ all[n + 1] = x /\ \A j \in 1 .. n : all[j] = picks[j]
  BY UptoFinite DEF Apart
<1>2. s \in ShardType /\ r.route[i] \in RouteProviders(r)
  BY DEF Apart, RouteProviders
<1>3. /\ S \in SUBSET Creds /\ S \in SUBSET Nat /\ IsFiniteSet(S)
      /\ c \in Nat /\ s.cursor[priority]["all"] \in CursorType
  BY <1>2, TierTyped DEF Views
<1>4. t.index = s.index /\ d = Place(S, x) + 1
  <2>1. /\ t = [s EXCEPT !.cursor[priority]["all"] = Advanced(s.index, S, @, x)]
        /\ Advanced(s.index, S, s.cursor[priority]["all"], x)
              = [s.cursor[priority]["all"] EXCEPT !.flat = Place(S, x) + 1]
    BY DEF Having, Advanced
  <2>2. /\ s.cursor \in [Priorities -> [Views -> CursorType]] /\ "all" \in Views
    BY <1>2 DEF ShardType, Views
  <2>. HIDE DEF s, t, S
  <2>3. t.index = s.index /\ t.cursor[priority]["all"] =
           Advanced(s.index, S, s.cursor[priority]["all"], x)
    BY <1>2, <2>1, <2>2 DEF ShardType
  <2>. QED BY <1>3, <2>1, <2>3 DEF CursorType
<1>5. IsNext(S, c, S, x)
  <2>1. IsNextIn(s.index, S, s.cursor[priority]["all"], Creds, x)
    BY DEF Gives
  <2>2. IsNext(S, c, Creds, x)
    BY <2>1 DEF IsNextIn
  <2>3. S \cap Creds = S
    BY <1>3
  <2>. QED BY <2>2, <2>3 DEF IsNext
<1>6. /\ x \in S /\ Distance(S, c, x) = 0
      /\ \A y \in S : Distance(S, d, y) =
            IF y = x THEN Cardinality(S) - 1 ELSE Distance(S, c, y) - 1
  <2>. HIDE DEF S, c, d
  <2>. QED BY <1>3, <1>4, <1>5, NextIsFirst
<1>7. Alike(sh, th, r)
  BY <1>4 DEF Alike
<1>8. /\ Upto(th, r, priority, Len(r.route)) = Upto(sh, r, priority, Len(r.route))
      /\ \A k \in 1 .. Len(r.route) :
            /\ Segment(th, r, priority, k) = Segment(sh, r, priority, k)
            /\ Cardinality(Upto(th, r, priority, k - 1)) = a(k)
            /\ Cardinality(Upto(th, r, priority, k)) = b(k)
  <2>1. /\ \A k \in 0 .. Len(r.route) : Upto(th, r, priority, k) = Upto(sh, r, priority, k)
        /\ \A k \in 1 .. Len(r.route) : Segment(th, r, priority, k) = Segment(sh, r, priority, k)
    BY <1>7, SameIndexes
  <2>2. /\ Len(r.route) \in 0 .. Len(r.route)
        /\ \A k \in 1 .. Len(r.route) : k - 1 \in 0 .. Len(r.route) /\ k \in 0 .. Len(r.route)
    BY <1>1
  <2>. QED BY <2>1, <2>2
<1>9. \A k \in 1 .. Len(r.route) :
        /\ Segment(sh, r, priority, k) = a(k) .. b(k) - 1
        /\ a(k) \in Nat /\ b(k) \in Nat /\ b(k) <= size
  <2>1. ASSUME NEW k \in 1 .. Len(r.route)
        PROVE  a(k) \in Nat /\ b(k) \in Nat /\ b(k) <= size
    BY <1>1, UptoGrows, UptoFinite
  <2>. QED BY <2>1 DEF Segment
<1>10. Cardinality(S) = b(i) - a(i)
  BY SegmentFull
<1>11. slot \in 0 .. size - 1
  OBVIOUS
<1>. HIDE DEF n, size, next, all, s, t, S, c, d, a, b
<1>12. ASSUME NEW back \in 0 .. size - 1, back < size - 1
       PROVE  /\ SlotBefore(size, slot, back) # slot
              /\ SlotBefore(size, next, back + 1) = SlotBefore(size, slot, back)
  <2>1. next = IF slot = size - 1 THEN 0 ELSE slot + 1
    BY <1>1, <1>11, SlotAfter DEF next
  <2>. QED BY <1>1, <1>11, <1>12, <2>1 DEF SlotBefore
<1>13. ASSUME NEW l \in Nat, NEW u \in Nat, u <= size, NEW tau \in l .. u - 1
       PROVE  /\ slot \in l .. u - 1 /\ tau # slot =>
                    Due(l, u, slot, tau) # 0 /\ Due(l, u, next, tau) = Due(l, u, slot, tau) - 1
              /\ slot \in l .. u - 1 => Due(l, u, next, slot) = u - l - 1
              /\ slot \notin l .. u - 1 => Due(l, u, next, tau) = Due(l, u, slot, tau)
  <2>1. next = IF slot = size - 1 THEN 0 ELSE slot + 1
    BY <1>1, <1>11, SlotAfter DEF next
  <2>. QED BY <1>1, <1>11, <1>13, <2>1 DEF Due
<1>14. Served(th, r, priority, next, i, slot, x)
  <2>1. slot \in a(i) .. b(i) - 1 /\ Due(a(i), b(i), next, slot) = b(i) - a(i) - 1
    BY <1>9, <1>13
  <2>2. Distance(S, d, x) = Due(a(i), b(i), next, slot)
    BY <1>6, <1>10, <2>1
  <2>3. S = Tier(t.index, "all", priority)
    BY <1>4 DEF S
  <2>. QED BY <1>6, <1>8, <2>2, <2>3 DEF Served, t, d
<1>15. ASSUME NEW k \in 1 .. Len(r.route), NEW tau, tau # slot, NEW y,
              Served(sh, r, priority, slot, k, tau, y)
       PROVE  Served(th, r, priority, next, k, tau, y)
  <2>1. /\ tau \in Segment(sh, r, priority, k) /\ tau \in a(k) .. b(k) - 1
        /\ y \in Tier(sh[r.route[k]].index, "all", priority)
        /\ Distance(Tier(sh[r.route[k]].index, "all", priority),
                    sh[r.route[k]].cursor[priority]["all"].flat, y) = Due(a(k), b(k), slot, tau)
    BY <1>9, <1>15 DEF Served, a, b
  <2>2. a(k) \in Nat /\ b(k) \in Nat /\ b(k) <= size
    BY <1>9
  <2>3. CASE k = i
    <3>1. slot \in a(k) .. b(k) - 1
      BY <1>9, <2>3
    <3>2. /\ Due(a(k), b(k), slot, tau) # 0
          /\ Due(a(k), b(k), next, tau) = Due(a(k), b(k), slot, tau) - 1
      BY <1>15, <1>13, <2>1, <2>2, <3>1
    <3>3. y \in S /\ Distance(S, c, y) = Due(a(k), b(k), slot, tau)
      BY <2>1, <2>3 DEF S, s, c
    <3>4. y # x /\ Distance(S, d, y) = Due(a(k), b(k), next, tau)
      BY <1>6, <3>2, <3>3
    <3>5. S = Tier(t.index, "all", priority)
      BY <1>4 DEF S
    <3>. QED BY <1>8, <2>1, <2>3, <3>3, <3>4, <3>5 DEF Served, t, d
  <2>4. CASE k # i
    <3>1. slot \notin a(k) .. b(k) - 1
      <4>1. slot \notin Segment(sh, r, priority, k)
        BY <2>4, OneSegment
      <4>. QED BY <1>9, <4>1
    <3>2. r.route[k] # r.route[i]
      <4>. SUFFICES ASSUME r.route[k] = r.route[i] PROVE FALSE
        OBVIOUS
      <4>1. y \in Tier(sh[r.route[i]].index, "all", priority)
        BY <2>1
      <4>2. k = i
        BY <2>1, <4>1, OneSegment
      <4>. QED BY <2>4, <4>2
    <3>3. th[r.route[k]] = sh[r.route[k]]
      BY <3>2 DEF RouteProviders
    <3>4. Due(a(k), b(k), next, tau) = Due(a(k), b(k), slot, tau)
      BY <1>13, <2>1, <2>2, <3>1
    <3>. QED BY <1>8, <2>1, <3>3, <3>4 DEF Served
  <2>. QED BY <2>3, <2>4
<1>16. ASSUME NEW j \in 1 .. n + 1
       PROVE  \E k \in 1 .. Len(r.route) :
                Served(th, r, priority, next, k, SlotBefore(size, next, n + 1 - j), all[j])
  <2>1. CASE j = n + 1
    <3>1. n + 1 - j = 0 /\ 0 \in 0 .. size - 1
      BY <1>1, <2>1
    <3>2. SlotBefore(size, next, 0) = slot
      BY <1>1, <1>11, <3>1, SlotsBefore DEF next
    <3>. QED BY <1>1, <1>14, <2>1, <3>1, <3>2
  <2>2. CASE j # n + 1
    <3>1. j \in 1 .. n /\ n - j \in 0 .. size - 1 /\ n - j < size - 1 /\ n + 1 - j = n - j + 1
      BY <1>1, <2>2
    <3>2. PICK k \in 1 .. Len(r.route) :
             Served(sh, r, priority, slot, k, SlotBefore(size, slot, n - j), picks[j])
      BY <3>1 DEF TurnsAcross, n, size
    <3>3. /\ SlotBefore(size, slot, n - j) # slot
          /\ SlotBefore(size, next, n - j + 1) = SlotBefore(size, slot, n - j)
      BY <1>12, <3>1
    <3>4. Served(th, r, priority, next, k, SlotBefore(size, slot, n - j), picks[j])
      BY <1>15, <3>2, <3>3
    <3>5. all[j] = picks[j]
      BY <1>1, <3>1
    <3>. QED BY <3>1, <3>3, <3>4, <3>5
  <2>. QED BY <2>1, <2>2
<1>17. Len(all) <= size
  BY <1>1
<1>18. TurnsAcross(th, r, priority, next, all)
  <2>1. size = Cardinality(Upto(th, r, priority, Len(r.route)))
    BY <1>8 DEF size
  <2>. QED BY <1>1, <1>16, <1>17, <2>1 DEF TurnsAcross
<1>. QED BY <1>18 DEF next, size, all

(* The view the picks of a request are made from.                        *)
TurnView(sh, r) == IF Len(r.route) = 1 THEN ViewFor(sh[r.route[1]], r) ELSE "all"

(* Some provider's tier is picked from group by group.                   *)
SomeGrouped(sh, r, priority) ==
    \E p \in RouteProviders(r) :
        Grouped(sh[p].index, Tier(sh[p].index, TurnView(sh, r), priority))

(* The picks are the last ones of a rotation that has come to where the  *)
(* cursors of the shards, and the cursor k of the route, stand.          *)
InTurn(sh, r, priority, k, picks) ==
    /\ \A i \in 1 .. Len(picks) : \E p \in RouteProviders(r) :
          picks[i] \in Tier(sh[p].index, TurnView(sh, r), priority)
    /\ Len(r.route) = 1 => TurnsIn(sh[r.route[1]], TurnView(sh, r), priority, picks)
    /\ Len(r.route) > 1 /\ ~SomeGrouped(sh, r, priority) =>
          TurnsAcross(sh, r, priority, k % Cardinality(Upto(sh, r, priority, Len(r.route))), picks)

(* The shards a request is picked from.                                  *)
ShardsFor(r) == [p \in RouteProviders(r) |-> shard[p][r.model]]

(* The strengthening of Rotates: the remembered picks are those of a request *)
(* that accepts every credential, and they are the last ones before the cursors. *)
TurnOK ==
    turn.picks # <<>> =>
        LET r == turn.req
        IN /\ r \in Requests /\ r.tried = {} /\ r.pin = NoCred /\ Len(r.route) > 0
           /\ turn.picks \in Seq(Creds)
           /\ \E priority \in Priorities :
                 /\ IsBest(ShardsFor(r), TurnView(ShardsFor(r), r), priority, r)
                 /\ InTurn(ShardsFor(r), r, priority, mixed[<<r.route, r.model>>], turn.picks)

(* A request is picked from the view of all or from that of the websockets. *)
LEMMA ViewTyped == ASSUME NEW sh, NEW r PROVE TurnView(sh, r) \in Views
  BY DEF TurnView, ViewFor, Views

(* Shards with the same indexes are picked from in the same view.        *)
LEMMA SameView ==
  ASSUME NEW sh, NEW th, NEW r, r.route \in Seq(Providers), Alike(sh, th, r)
  PROVE  TurnView(th, r) = TurnView(sh, r)
<1>1. CASE Len(r.route) = 1
  <2>1. r.route[1] \in RouteProviders(r)
    BY <1>1 DEF RouteProviders
  <2>2. th[r.route[1]].index = sh[r.route[1]].index
    BY <2>1 DEF Alike
  <2>. QED BY <2>2 DEF TurnView, ViewFor
<1>2. CASE Len(r.route) # 1
  BY <1>2 DEF TurnView
<1>. QED BY <1>1, <1>2

(* Shards with the same indexes have the same best priority.             *)
LEMMA SameBest ==
  ASSUME NEW sh, NEW th, NEW r, Alike(sh, th, r),
         DOMAIN sh = RouteProviders(r), DOMAIN th = RouteProviders(r),
         NEW view, NEW priority, IsBest(sh, view, priority, r)
  PROVE  IsBest(th, view, priority, r)
<1>1. \A p \in RouteProviders(r) : \A q : Eligible(th, p, view, q, r) = Eligible(sh, p, view, q, r)
  BY DEF Alike, Eligible
<1>. QED BY <1>1 DEF IsBest

(* There is one best priority.                                           *)
LEMMA OneBest ==
  ASSUME NEW sh, NEW view, NEW r, NEW p \in Priorities, NEW q \in Priorities,
         IsBest(sh, view, p, r), IsBest(sh, view, q, r)
  PROVE  p = q
<1>1. p \in Int /\ q \in Int
  BY RequestAssumption
<1>2. ~(p > q) /\ ~(q > p)
  BY DEF IsBest
<1>. QED BY <1>1, <1>2

(* No picks are in turn.                                                 *)
LEMMA InTurnEmpty ==
  ASSUME NEW sh, NEW r, r.route \in Seq(Providers), NEW priority \in Priorities, NEW k,
         \A p \in RouteProviders(r) : sh[p] \in ShardType
  PROVE  InTurn(sh, r, priority, k, <<>>)
<1>1. ASSUME Len(r.route) = 1
      PROVE  TurnsIn(sh[r.route[1]], TurnView(sh, r), priority, <<>>)
  <2> DEFINE s == sh[r.route[1]]
             view == TurnView(sh, r)
  <2>1. r.route[1] \in RouteProviders(r)
    BY <1>1 DEF RouteProviders
  <2>2. s \in ShardType /\ view \in Views
    BY <2>1, ViewTyped
  <2>. HIDE DEF s, view
  <2>3. Cardinality(Tier(s.index, view, priority)) \in Nat
    BY <2>2, TierTyped, FiniteParts
  <2>4. Len(ParentsOf(s.index, <<>>)) = 0
    BY DEF ParentsOf
  <2>5. \A R, c : Turning(R, c, <<>>) /\ Turning(R, c, ParentsOf(s.index, <<>>))
    BY <2>4 DEF Turning
  <2>6. TurnsIn(s, view, priority, <<>>)
    BY <2>3, <2>5 DEF TurnsIn
  <2>. QED BY <2>6 DEF s, view
<1>2. \A slot : TurnsAcross(sh, r, priority, slot, <<>>)
  <2>1. Cardinality(Upto(sh, r, priority, Len(r.route))) \in Nat
    BY UptoFinite
  <2>. QED BY <2>1 DEF TurnsAcross
<1>. QED BY <1>1, <1>2 DEF InTurn

(* Forgetting the oldest pick leaves the others in turn.                 *)
LEMMA InTurnTail ==
  ASSUME NEW sh, NEW r, r.route \in Seq(Providers), NEW priority \in Priorities, NEW k,
         \A p \in RouteProviders(r) : sh[p] \in ShardType,
         NEW picks \in Seq(Creds), picks # <<>>, InTurn(sh, r, priority, k, picks)
  PROVE  InTurn(sh, r, priority, k, Tail(picks))
<1>1. ASSUME Len(r.route) = 1
      PROVE  TurnsIn(sh[r.route[1]], TurnView(sh, r), priority, Tail(picks))
  <2>1. sh[r.route[1]] \in ShardType
    BY <1>1 DEF RouteProviders
  <2>2. TurnsIn(sh[r.route[1]], TurnView(sh, r), priority, picks)
    BY <1>1 DEF InTurn
  <2>. QED BY <2>1, <2>2, ViewTyped, TurnsInTail
<1>2. \A slot : TurnsAcross(sh, r, priority, slot, picks)
                  => TurnsAcross(sh, r, priority, slot, Tail(picks))
  BY TurnsAcrossTail
<1>3. /\ Len(Tail(picks)) = Len(picks) - 1
      /\ \A i \in 1 .. Len(picks) - 1 : Tail(picks)[i] = picks[i + 1] /\ i + 1 \in 1 .. Len(picks)
  OBVIOUS
<1>. QED BY <1>1, <1>2, <1>3 DEF InTurn

(* The picks are still in turn as the shards stay steady.                *)
LEMMA InTurnSame ==
  ASSUME NEW sh, NEW th, NEW r, r.route \in Seq(Providers), NEW priority \in Priorities, NEW k,
         \A p \in RouteProviders(r) : Steady(sh[p], th[p]),
         NEW picks, InTurn(sh, r, priority, k, picks)
  PROVE  InTurn(th, r, priority, k, picks)
<1>1. Alike(sh, th, r)
  BY DEF Alike, Steady
<1>2. TurnView(th, r) = TurnView(sh, r)
  BY <1>1, SameView
<1>3. SomeGrouped(th, r, priority) <=> SomeGrouped(sh, r, priority)
  BY <1>1, <1>2 DEF SomeGrouped, Alike
<1>4. ASSUME Len(r.route) = 1, TurnsIn(sh[r.route[1]], TurnView(sh, r), priority, picks)
      PROVE  TurnsIn(th[r.route[1]], TurnView(sh, r), priority, picks)
  <2>1. Steady(sh[r.route[1]], th[r.route[1]])
    BY <1>4 DEF RouteProviders
  <2>. QED BY <1>4, <2>1, ViewTyped, TurnsInSame
<1>5. Len(r.route) \in Nat /\ Len(r.route) \in 0 .. Len(r.route)
  OBVIOUS
<1>6. Upto(th, r, priority, Len(r.route)) = Upto(sh, r, priority, Len(r.route))
  BY <1>1, <1>5, SameIndexes
<1>7. \A slot : TurnsAcross(sh, r, priority, slot, picks)
                  => TurnsAcross(th, r, priority, slot, picks)
  BY <1>5, TurnsAcrossSame
<1>. QED BY <1>1, <1>2, <1>3, <1>4, <1>6, <1>7 DEF InTurn, Alike

(* In a state of the invariant no credential is in the tiers of two providers. *)
LEMMA GoodApart ==
  ASSUME IInv, NEW r \in Requests, NEW sh, NEW priority,
         \A p \in RouteProviders(r) : ShardOK(sh[p], meta[p], r.model, now)
  PROVE  Apart(sh, r, priority)
<1>1. r.model \in Models /\ r.route \in Seq(Providers) /\ RouteProviders(r) \in SUBSET Providers
  BY RequestTyped
<1>2. \A p \in RouteProviders(r) : \A c \in Tier(sh[p].index, "all", priority) :
        Held[c].shape.provider = p
  <2>1. ASSUME NEW p \in RouteProviders(r), NEW c \in Tier(sh[p].index, "all", priority)
        PROVE  Held[c].shape.provider = p
    <3>1. c \in Creds /\ sh[p].index[c] # None /\ p \in Providers
      BY <1>1 DEF Tier, Ready
    <3>. QED BY <1>1, <3>1, ReadyIsFree
  <2>. QED BY <2>1
<1>3. \A p, q \in RouteProviders(r) :
        p # q => Tier(sh[p].index, "all", priority) \cap Tier(sh[q].index, "all", priority) = {}
  BY <1>2
<1>. QED BY <1>1, <1>3 DEF Apart, ShardOK

-----------------------------------------------------------------------------
(* The picks.                                                            *)

LEMMA InTurnSingle ==
  ASSUME NEW sh, NEW r, r.route \in Seq(Providers), Len(r.route) = 1,
         NEW priority \in Priorities, NEW k, sh[r.route[1]] \in ShardType,
         NEW picks \in Seq(Creds), InTurn(sh, r, priority, k, picks),
         Len(picks) # Cardinality(Tier(sh[r.route[1]].index, TurnView(sh, r), priority)),
         NEW x \in Creds, NEW strat, strat # "fillFirst",
         Gives(sh[r.route[1]], TurnView(sh, r), priority, strat, Creds, x), NEW th,
         th[r.route[1]] = Having(sh[r.route[1]], TurnView(sh, r), priority, strat, x)
  PROVE  Alike(sh, th, r) /\ InTurn(th, r, priority, k, Append(picks, x))
<1> DEFINE s == sh[r.route[1]]
           t == th[r.route[1]]
           view == TurnView(sh, r)
           S == Tier(s.index, view, priority)
<1>1. view \in Views /\ s \in ShardType /\ RouteProviders(r) = {r.route[1]}
  BY ViewTyped DEF RouteProviders
<1>2. TurnsIn(s, view, priority, picks)
  BY DEF InTurn
<1>3. Len(picks) < Cardinality(S)
  <2>1. Len(picks) \in Nat /\ Cardinality(S) \in Nat /\ Len(picks) <= Cardinality(S)
    <3>1. S \in SUBSET Creds
      BY DEF Tier, Ready
    <3>. QED BY <1>2, <3>1, FiniteParts DEF TurnsIn
  <2>2. Len(picks) # Cardinality(S)
    OBVIOUS
  <2>. HIDE DEF S
  <2>. QED BY <2>1, <2>2
<1>4. t.index = s.index
  BY <1>1 DEF Having, ShardType
<1>5. Alike(sh, th, r) /\ TurnView(th, r) = view
  <2>1. Alike(sh, th, r)
    BY <1>1, <1>4 DEF Alike
  <2>. QED BY <2>1, SameView
<1>6. TurnsIn(t, view, priority, Append(picks, x))
  BY <1>1, <1>2, <1>3, TurnsInAppend
<1>7. \A i \in 1 .. Len(Append(picks, x)) : Append(picks, x)[i] \in Tier(t.index, view, priority)
  BY <1>6 DEF TurnsIn
<1>8. ~(Len(r.route) > 1)
  OBVIOUS
<1>. QED BY <1>1, <1>5, <1>6, <1>7, <1>8 DEF InTurn

(* A pick over several providers, after which the cursor of the route and that *)
(* of the provider move on, is in turn.                                  *)
LEMMA InTurnMixed ==
  ASSUME NEW sh, NEW r, NEW priority \in Priorities, Apart(sh, r, priority), Len(r.route) > 1,
         NEW k \in Nat, Wanted(r) = Creds, NEW i \in 1 .. Len(r.route),
         IsServing(sh, r, priority, k % Cardinality(Upto(sh, r, priority, Len(r.route))), i),
         NEW x \in Creds, Gives(sh[r.route[i]], "all", priority, "roundRobin", Creds, x),
         NEW th, \A p \in RouteProviders(r) : p # r.route[i] => th[p] = sh[p],
         th[r.route[i]] = Having(sh[r.route[i]], "all", priority, "roundRobin", x),
         NEW picks \in Seq(Creds), InTurn(sh, r, priority, k, picks),
         Len(picks) # Cardinality(Upto(sh, r, priority, Len(r.route)))
  PROVE  /\ Alike(sh, th, r)
         /\ InTurn(th, r, priority,
                   NextSlot(sh, r, priority,
                            k % Cardinality(Upto(sh, r, priority, Len(r.route))), i),
                   Append(picks, x))
<1> DEFINE all == Upto(sh, r, priority, Len(r.route))
           size == Cardinality(all)
           slot == k % size
<1>1. r.route \in Seq(Providers) /\ Len(r.route) \in Nat /\ Len(r.route) # 1
  <2>1. r.route \in Seq(Providers) /\ Len(r.route) \in Nat
    BY DEF Apart
  <2>2. \A n \in Nat : n > 1 => n # 1
    OBVIOUS
  <2>. QED BY <2>1, <2>2, Zenon
<1>2. TurnView(sh, r) = "all" /\ r.route[i] \in RouteProviders(r) /\ sh[r.route[i]] \in ShardType
  BY <1>1 DEF TurnView, Apart, RouteProviders
<1>3. th[r.route[i]].index = sh[r.route[i]].index
  BY <1>2 DEF Having, ShardType
<1>4. Alike(sh, th, r)
  BY <1>3 DEF Alike
<1>5. TurnView(th, r) = "all"
  BY <1>1 DEF TurnView
<1>6. x \in Tier(sh[r.route[i]].index, "all", priority)
  BY DEF Gives
<1>7. size \in Nat \ {0} /\ Len(r.route) \in 0 .. Len(r.route)
  <2>1. x \in all
    BY <1>6 DEF Upto
  <2>. QED BY <1>1, <2>1, UptoFinite
<1>8. slot \in 0 .. size - 1
  <2>. HIDE DEF size
  <2>. QED BY <1>7
<1>9. slot \in Segment(sh, r, priority, i)
  BY <1>8, ServingSegment
<1>10. NextSlot(sh, r, priority, slot, i) = slot + 1
  BY <1>9 DEF NextSlot
<1>11. \A j \in 1 .. Len(Append(picks, x)) : \E p \in RouteProviders(r) :
         Append(picks, x)[j] \in Tier(th[p].index, "all", priority)
  <2>1. \A j \in 1 .. Len(picks) : \E p \in RouteProviders(r) :
          picks[j] \in Tier(sh[p].index, "all", priority)
    BY <1>2 DEF InTurn
  <2>2. ASSUME NEW j \in 1 .. Len(Append(picks, x))
        PROVE  \E p \in RouteProviders(r) : Append(picks, x)[j] \in Tier(sh[p].index, "all", priority)
    <3>1. CASE j = Len(picks) + 1
      BY <1>2, <1>6, <3>1
    <3>2. CASE j # Len(picks) + 1
      BY <2>1, <3>2
    <3>. QED BY <3>1, <3>2
  <2>. QED BY <1>4, <2>2 DEF Alike
<1>12. ASSUME ~SomeGrouped(th, r, priority)
       PROVE  TurnsAcross(th, r, priority, (slot + 1) % size, Append(picks, x))
  <2>1. ~SomeGrouped(sh, r, priority)
    BY <1>2, <1>4, <1>5, <1>12 DEF SomeGrouped, Alike
  <2>2. TurnsAcross(sh, r, priority, slot, picks)
    BY <2>1 DEF InTurn
  <2>3. ~Grouped(sh[r.route[i]].index, Tier(sh[r.route[i]].index, "all", priority))
    BY <1>2, <2>1 DEF SomeGrouped
  <2>4. Len(picks) < size
    <3>1. Len(picks) <= size /\ Len(picks) # size
      BY <2>2 DEF TurnsAcross
    <3>. HIDE DEF size
    <3>. QED BY <1>7, <3>1
  <2>. QED BY <1>8, <1>9, <2>2, <2>3, <2>4, TurnsAcrossAppend
<1>13. Upto(th, r, priority, Len(r.route)) = all
  <2>1. \A j \in 0 .. Len(r.route) : Upto(th, r, priority, j) = Upto(sh, r, priority, j)
    BY <1>4, SameIndexes
  <2>. QED BY <1>7, <2>1
<1>. HIDE DEF all, slot
<1>14. InTurn(th, r, priority, slot + 1, Append(picks, x))
  BY <1>1, <1>5, <1>11, <1>12, <1>13 DEF InTurn
<1>. QED BY <1>4, <1>10, <1>14 DEF slot, all

(* A step that leaves every index moves no cursor but those it advances. *)
LEMMA SteadyShards ==
  ASSUME IInv, NEW m \in Models, NEW sh, DOMAIN sh \in SUBSET Providers,
         \A p \in DOMAIN sh : sh[p] = Ensured(p, m),
         Indexes(WithShards(sh, m)) = Indexes(shard)
  PROVE  \A p \in Providers, n \in Models : Steady(shard[p][n], WithShards(sh, m)[p][n])
<1> DEFINE W == WithShards(sh, m)
<1>0. shard \in [Providers -> [Models -> ShardType]]
  BY DEF IInv, Shards
<1>1. ASSUME NEW p \in Providers, NEW n \in Models
      PROVE  Steady(shard[p][n], W[p][n])
  <2>1. W[p][n].index = shard[p][n].index
    <3>1. /\ Indexes(W)[p][n] = W[p][n].index
          /\ Indexes(shard)[p][n] = shard[p][n].index
      BY DEF Indexes
    <3>. QED BY <3>1
  <2>2. CASE p \in DOMAIN sh /\ n = m
    <3>1. W[p][n] = Ensured(p, m)
      BY <1>0, <2>2 DEF WithShards
    <3>. QED BY <2>1, <2>2, <3>1, EnsuredSteady
  <2>3. CASE ~(p \in DOMAIN sh /\ n = m)
    <3>1. W[p][n] = shard[p][n]
      BY <1>0, <2>3 DEF WithShards
    <3>. QED BY <3>1 DEF Steady
  <2>. QED BY <2>2, <2>3
<1>. QED BY <1>1

(* Other shards with the same indexes, whose cursors stand where these do. *)
LEMMA TurnsSame ==
  ASSUME NEW r, r.route \in Seq(Providers), NEW sh, NEW th,
         DOMAIN sh = RouteProviders(r), DOMAIN th = RouteProviders(r),
         \A p \in RouteProviders(r) : Steady(sh[p], th[p]),
         NEW priority \in Priorities, NEW k, NEW picks,
         IsBest(sh, TurnView(sh, r), priority, r), InTurn(sh, r, priority, k, picks)
  PROVE  IsBest(th, TurnView(th, r), priority, r) /\ InTurn(th, r, priority, k, picks)
<1>1. Alike(sh, th, r)
  BY DEF Alike, Steady
<1>2. TurnView(th, r) = TurnView(sh, r)
  BY <1>1, SameView
<1>3. IsBest(th, TurnView(sh, r), priority, r)
  BY <1>1, SameBest
<1>. QED BY <1>2, <1>3, InTurnSame

(* A request that finds no credential keeps TurnOK.                      *)
LEMMA RefusedTurn ==
  ASSUME IInv, TurnOK, NEW r \in Requests, NEW sh, DOMAIN sh \in SUBSET Providers,
         \A p \in DOMAIN sh : sh[p] = Ensured(p, r.model), Refused(r, sh)
  PROVE  TurnOK'
<1>. SUFFICES ASSUME turn'.picks # <<>> PROVE TurnOK'
  BY DEF TurnOK
<1>1. /\ turn' = turn /\ Indexes(WithShards(sh, r.model)) = Indexes(shard)
      /\ shard' = WithShards(sh, r.model) /\ mixed' = mixed
  BY DEF Refused, NoTurn
<1> DEFINE q == turn.req
           old == [p \in RouteProviders(q) |-> shard[p][q.model]]
           new == [p \in RouteProviders(q) |-> shard'[p][q.model]]
           k == mixed[<<q.route, q.model>>]
<1>2. /\ q \in Requests /\ q.tried = {} /\ q.pin = NoCred /\ Len(q.route) > 0
      /\ turn.picks \in Seq(Creds)
  BY <1>1 DEF TurnOK
<1>3. PICK priority \in Priorities : /\ IsBest(old, TurnView(old, q), priority, q)
                                    /\ InTurn(old, q, priority, k, turn.picks)
  BY <1>1 DEF TurnOK, ShardsFor
<1>4. q.model \in Models /\ q.route \in Seq(Providers) /\ RouteProviders(q) \in SUBSET Providers
      /\ r.model \in Models
  BY <1>2, RequestTyped
<1>5. \A p \in RouteProviders(q) : Steady(old[p], new[p])
  BY <1>1, <1>4, SteadyShards
<1>6. DOMAIN old = RouteProviders(q) /\ DOMAIN new = RouteProviders(q)
  OBVIOUS
<1>7. IsBest(new, TurnView(new, q), priority, q) /\ InTurn(new, q, priority, k, turn.picks)
  <2>. HIDE DEF old, new, k, q
  <2>. QED BY <1>3, <1>4, <1>5, <1>6, TurnsSame
<1>. QED BY <1>1, <1>2, <1>7 DEF TurnOK, ShardsFor

(* A pick that is in turn, appended to those remembered, keeps TurnOK.   *)
LEMMA PickedTurn ==
  ASSUME IInv, TurnOK, NEW r \in Requests, Len(r.route) > 0, NEW sh,
         sh = [p \in RouteProviders(r) |-> Ensured(p, r.model)],
         NEW p \in RouteProviders(r), NEW x \in Creds, NEW S, Cardinality(S) \in Nat \ {0}, NEW got,
         Picked(r, x, S, sh, p, got), r.tried = {}, r.pin = NoCred, strategy # "fillFirst",
         NEW th, th = [sh EXCEPT ![p] = got], Alike(sh, th, r), NEW priority \in Priorities,
         IsBest(sh, TurnView(sh, r), priority, r),
         \A picks \in Seq(Creds) :
            InTurn(sh, r, priority, mixed[<<r.route, r.model>>], picks) /\ Len(picks) # Cardinality(S)
              => InTurn(th, r, priority, mixed'[<<r.route, r.model>>], Append(picks, x))
  PROVE  TurnOK'
<1> DEFINE k == mixed[<<r.route, r.model>>]
           same == turn.req = r /\ Indexes(WithShards(sh, r.model)) = Indexes(shard)
           before == IF same THEN IF Len(turn.picks) = Cardinality(S) THEN Tail(turn.picks)
                                                                     ELSE turn.picks
                             ELSE <<>>
<1>1. r.model \in Models /\ r.route \in Seq(Providers) /\ RouteProviders(r) \in SUBSET Providers
  BY RequestTyped
<1>2. /\ DOMAIN sh = RouteProviders(r)
      /\ \A q \in RouteProviders(r) : sh[q] = Ensured(q, r.model) /\ sh[q] \in ShardType
  BY <1>1, EnsuredOK DEF ShardOK
<1>3. turn' = [req |-> r, picks |-> Append(before, x)]
  <2>1. ~same => Append(before, x) = <<x>>
    <3>1. ~same => before = <<>>
      OBVIOUS
    <3>2. Append(<<>>, x) = <<x>>
      OBVIOUS
    <3>. HIDE DEF before, same
    <3>. QED BY <3>1, <3>2
  <2>2. turn' = [req |-> r, picks |-> IF same THEN Append(before, x) ELSE <<x>>]
    BY DEF Picked, Turned
  <2>. QED BY <2>1, <2>2
<1>4. InTurn(sh, r, priority, k, <<>>)
  BY <1>1, <1>2, InTurnEmpty
<1>5. ASSUME same, turn.picks # <<>>
      PROVE  turn.picks \in Seq(Creds) /\ InTurn(sh, r, priority, k, turn.picks)
  <2> DEFINE old == [q \in RouteProviders(r) |-> shard[q][r.model]]
  <2>1. PICK best \in Priorities : /\ IsBest(old, TurnView(old, r), best, r)
                                  /\ InTurn(old, r, best, k, turn.picks)
    BY <1>5 DEF TurnOK, ShardsFor
  <2>2. \A q \in RouteProviders(r) : Steady(old[q], sh[q])
    <3>1. shard \in [Providers -> [Models -> ShardType]]
      BY DEF IInv, Shards
    <3>2. \A q \in RouteProviders(r) : WithShards(sh, r.model)[q][r.model] = sh[q]
      BY <1>1, <1>2, <3>1 DEF WithShards
    <3>3. \A q \in RouteProviders(r) : Steady(shard[q][r.model], WithShards(sh, r.model)[q][r.model])
      BY <1>1, <1>2, <1>5, SteadyShards
    <3>. QED BY <3>2, <3>3
  <2>3. DOMAIN old = RouteProviders(r)
    OBVIOUS
  <2>. HIDE DEF old, k
  <2>4. IsBest(sh, TurnView(sh, r), best, r) /\ InTurn(sh, r, best, k, turn.picks)
    BY <1>1, <1>2, <2>1, <2>2, <2>3, TurnsSame
  <2>5. best = priority
    BY <2>4, OneBest
  <2>. QED BY <1>5, <2>4, <2>5 DEF TurnOK
<1>6. /\ before \in Seq(Creds) /\ Len(before) # Cardinality(S)
      /\ InTurn(sh, r, priority, k, before)
  <2>. HIDE DEF k
  <2>1. CASE before = <<>>
    <3>. HIDE DEF before
    <3>1. <<>> \in Seq(Creds) /\ Len(<<>>) = 0
      OBVIOUS
    <3>. QED BY <1>4, <2>1, <3>1
  <2>2. CASE before # <<>> /\ Len(turn.picks) # Cardinality(S)
    <3>1. same /\ before = turn.picks
      BY <2>2
    <3>. HIDE DEF before
    <3>. QED BY <1>5, <2>2, <3>1
  <2>3. CASE before # <<>> /\ Len(turn.picks) = Cardinality(S)
    <3>1. same /\ before = Tail(turn.picks)
      BY <2>3
    <3>2. turn.picks # <<>>
      BY <2>3
    <3>3. turn.picks \in Seq(Creds) /\ InTurn(sh, r, priority, k, turn.picks)
      BY <1>5, <3>1, <3>2
    <3>4. InTurn(sh, r, priority, k, Tail(turn.picks))
      BY <1>1, <1>2, <3>2, <3>3, InTurnTail
    <3>5. Tail(turn.picks) \in Seq(Creds) /\ Len(Tail(turn.picks)) = Len(turn.picks) - 1
      BY <3>2, <3>3
    <3>6. Len(turn.picks) - 1 # Cardinality(S)
      BY <2>3
    <3>. QED BY <3>1, <3>4, <3>5, <3>6
  <2>. QED BY <2>1, <2>2, <2>3
<1>7. InTurn(th, r, priority, mixed'[<<r.route, r.model>>], Append(before, x))
  <2>. HIDE DEF before
  <2>. QED BY <1>6
<1>8. IsBest(th, TurnView(th, r), priority, r)
  <2>1. DOMAIN th = RouteProviders(r)
    BY <1>2
  <2>2. IsBest(th, TurnView(sh, r), priority, r)
    BY <1>2, <2>1, SameBest
  <2>. QED BY <1>1, <2>2, SameView
<1>9. [q \in RouteProviders(r) |-> shard'[q][r.model]] = th
  <2>1. shard \in [Providers -> [Models -> ShardType]]
    BY DEF IInv, Shards
  <2>2. shard' = WithShards(th, r.model)
    BY DEF Picked
  <2>3. DOMAIN th = RouteProviders(r) /\ th = [q \in RouteProviders(r) |-> th[q]]
    BY <1>2
  <2>4. \A q \in RouteProviders(r) : shard'[q][r.model] = th[q]
    BY <1>1, <2>1, <2>2, <2>3 DEF WithShards
  <2>. QED BY <2>3, <2>4
<1>10. Append(before, x) \in Seq(Creds)
  <2>. HIDE DEF before
  <2>. QED BY <1>6
<1>. HIDE DEF before
<1>11. turn'.req = r /\ turn'.picks = Append(before, x)
  BY <1>3
<1>. HIDE DEF k, same
<1>12. ShardsFor(r)' = th
  BY <1>9 DEF ShardsFor
<1>13. \E best \in Priorities :
          /\ IsBest(ShardsFor(r)', TurnView(ShardsFor(r)', r), best, r)
          /\ InTurn(ShardsFor(r)', r, best, mixed'[<<r.route, r.model>>], Append(before, x))
  BY <1>7, <1>8, <1>12, Zenon
<1>14. Len(r.route) > 0 /\ r.tried = {} /\ r.pin = NoCred
  OBVIOUS
<1>. HIDE DEF before, k
<1>. QED BY <1>10, <1>11, <1>13, <1>14 DEF TurnOK

(* Where no pick is remembered there is nothing to show.                 *)
LEMMA NoTurnOK == ASSUME turn' = NoTurn PROVE TurnOK'
  BY DEF NoTurn, TurnOK

(* A first attempt without a pinned credential accepts every credential. *)
LEMMA AllWanted ==
  ASSUME NEW r, r.tried = {}, r.pin = NoCred PROVE Wanted(r) = Creds
  BY DEF Wanted

(* A pick of one provider keeps TurnOK.                                  *)
LEMMA PickInTurns ==
  ASSUME IInv, TurnOK, NEW r \in Requests, NEW p \in Providers, PickIn(r, p),
         r.pin = NoCred => Len(r.route) = 1 /\ p = r.route[1]
  PROVE  TurnOK'
<1> DEFINE s == Ensured(p, r.model)
           sh == [q \in {p} |-> s]
           view == ViewFor(s, r)
<1>1. r.model \in Models /\ r.route \in Seq(Providers)
  BY RequestTyped
<1>2. DOMAIN sh = {p} /\ sh[p] = s
  OBVIOUS
<1>3. CASE Refused(r, sh)
  <2>1. DOMAIN sh \in SUBSET Providers /\ \A q \in DOMAIN sh : sh[q] = Ensured(q, r.model)
    OBVIOUS
  <2>. HIDE DEF sh
  <2>. QED BY <1>3, <2>1, RefusedTurn
<1>4. ASSUME NEW priority \in Priorities, NEW x \in Creds, IsBest(sh, view, priority, r),
             Gives(s, view, priority, strategy, Wanted(r), x),
             Picked(r, x, Tier(s.index, view, priority), sh, p,
                    Having(s, view, priority, strategy, x)),
             UNCHANGED mixed
      PROVE  TurnOK'
  <2> DEFINE S == Tier(s.index, view, priority)
             got == Having(s, view, priority, strategy, x)
             th == [sh EXCEPT ![p] = got]
  <2>1. CASE r.tried # {} \/ r.pin # NoCred \/ strategy = "fillFirst"
    BY <1>4, <2>1, NoTurnOK DEF Picked, Turned
  <2>2. CASE r.tried = {} /\ r.pin = NoCred /\ strategy # "fillFirst"
    <3>1. Len(r.route) = 1 /\ p = r.route[1] /\ RouteProviders(r) = {p} /\ Len(r.route) > 0
      <4>1. Len(r.route) = 1 /\ p = r.route[1]
        BY <2>2
      <4>. QED BY <4>1 DEF RouteProviders
    <3>2. sh = [q \in RouteProviders(r) |-> Ensured(q, r.model)]
      BY <3>1
    <3>3. TurnView(sh, r) = view /\ Wanted(r) = Creds
      BY <1>2, <2>2, <3>1, AllWanted DEF TurnView
    <3>4. s \in ShardType
      BY <1>1, EnsuredOK DEF ShardOK
    <3>5. th[p] = got
      OBVIOUS
    <3>6. Cardinality(S) \in Nat \ {0}
      <4>1. x \in S /\ S \in SUBSET Creds
        BY <1>4 DEF Gives, Tier, Ready
      <4>. HIDE DEF S
      <4>. QED BY <4>1, FiniteParts, FS_EmptySet
    <3>7. Gives(s, view, priority, strategy, Creds, x)
      BY <1>4, <3>3
    <3>. HIDE DEF s, sh, view, got, th
    <3>8. ASSUME NEW picks \in Seq(Creds), InTurn(sh, r, priority, mixed[<<r.route, r.model>>], picks),
                 Len(picks) # Cardinality(S)
          PROVE  /\ Alike(sh, th, r)
                 /\ InTurn(th, r, priority, mixed[<<r.route, r.model>>], Append(picks, x))
      BY <1>1, <1>2, <2>2, <3>1, <3>3, <3>4, <3>5, <3>7, <3>8, InTurnSingle DEF got
    <3>9. Alike(sh, th, r)
      <4>1. got.index = s.index
        BY <2>2, <3>4 DEF got, Having, ShardType
      <4>. QED BY <1>2, <3>1, <3>5, <4>1 DEF Alike
    <3>10. p \in RouteProviders(r) /\ th = [sh EXCEPT ![p] = got] /\ Picked(r, x, S, sh, p, got)
           /\ IsBest(sh, TurnView(sh, r), priority, r) /\ mixed' = mixed
      BY <1>4, <3>1, <3>3 DEF th, got
    <3>. HIDE DEF S
    <3>11. \A picks \in Seq(Creds) :
              InTurn(sh, r, priority, mixed[<<r.route, r.model>>], picks) /\ Len(picks) # Cardinality(S)
                => InTurn(th, r, priority, mixed'[<<r.route, r.model>>], Append(picks, x))
      BY <3>8, <3>10
    <3>. QED BY <2>2, <3>1, <3>2, <3>6, <3>9, <3>10, <3>11, PickedTurn
  <2>. QED BY <2>1, <2>2
<1>5. PickIn(r, p) => \/ Refused(r, sh)
                     \/ \E priority \in Priorities, x \in Creds :
                          /\ IsBest(sh, view, priority, r)
                          /\ Gives(s, view, priority, strategy, Wanted(r), x)
                          /\ Picked(r, x, Tier(s.index, view, priority), sh, p,
                                    Having(s, view, priority, strategy, x))
                          /\ UNCHANGED mixed
  BY DEF PickIn
<1>. HIDE DEF s, view, sh
<1>. QED BY <1>3, <1>4, <1>5

(* A pick over several providers keeps TurnOK.                           *)
LEMMA PickMixedTurns ==
  ASSUME IInv, TurnOK, NEW r \in Requests, PickMixed(r)
  PROVE  TurnOK'
<1> DEFINE sh == [p \in RouteProviders(r) |-> Ensured(p, r.model)]
           all(priority) == Upto(sh, r, priority, Len(r.route))
           key == <<r.route, r.model>>
           slot(priority) == mixed[key] % Cardinality(all(priority))
<1>1. /\ r.model \in Models /\ r.route \in Seq(Providers) /\ RouteProviders(r) \in SUBSET Providers
      /\ Len(r.route) > 1 /\ r.pin = NoCred
  BY RequestTyped DEF PickMixed
<1>2. DOMAIN sh = RouteProviders(r) /\ \A p \in RouteProviders(r) :
        /\ sh[p] = Ensured(p, r.model) /\ sh[p] \in ShardType
        /\ ShardOK(sh[p], meta[p], r.model, now)
  BY <1>1, EnsuredOK DEF ShardOK
<1>3. Len(r.route) > 0 /\ Len(r.route) # 1
  <2>1. Len(r.route) \in Nat
    BY <1>1
  <2>2. \A n \in Nat : n > 1 => n # 1 /\ n > 0
    OBVIOUS
  <2>. QED BY <1>1, <2>1, <2>2, Zenon
<1>4. TurnView(sh, r) = "all"
  BY <1>3 DEF TurnView
<1>5. \/ Refused(r, sh)
      \/ \E priority \in Priorities :
            /\ IsBest(sh, "all", priority, r)
            /\ \/ strategy = "fillFirst" /\ PickMixedFirst(r, sh, priority)
               \/ strategy # "fillFirst" /\ PickMixedInTurn(r, sh, priority)
  BY DEF PickMixed
<1>6. sh = [p \in RouteProviders(r) |-> Ensured(p, r.model)]
  OBVIOUS
<1>. HIDE DEF sh
<1>7. CASE Refused(r, sh)
  BY <1>1, <1>2, <1>7, RefusedTurn
<1>8. ASSUME NEW priority \in Priorities, strategy = "fillFirst", PickMixedFirst(r, sh, priority)
      PROVE  TurnOK'
  BY <1>8, NoTurnOK DEF PickMixedFirst, Picked, Turned
<1>9. ASSUME NEW priority \in Priorities, IsBest(sh, "all", priority, r), strategy # "fillFirst",
             PickMixedInTurn(r, sh, priority)
      PROVE  TurnOK'
  <2>1. PICK i \in 1 .. Len(r.route), x \in Creds :
           /\ IsServing(sh, r, priority, slot(priority), i)
           /\ Gives(sh[r.route[i]], "all", priority, "roundRobin", Wanted(r), x)
           /\ Picked(r, x, all(priority), sh, r.route[i],
                     Having(sh[r.route[i]], "all", priority, "roundRobin", x))
           /\ mixed' = [mixed EXCEPT ![key] = NextSlot(sh, r, priority, slot(priority), i)]
    BY <1>9 DEF PickMixedInTurn
  <2> DEFINE S == all(priority)
             p == r.route[i]
             got == Having(sh[p], "all", priority, "roundRobin", x)
             th == [sh EXCEPT ![p] = got]
  <2>2. CASE r.tried # {}
    BY <2>1, <2>2, NoTurnOK DEF Picked, Turned
  <2>3. CASE r.tried = {}
    <3>1. Wanted(r) = Creds
      BY <1>1, <2>3, AllWanted
    <3>2. p \in RouteProviders(r)
      BY DEF RouteProviders
    <3>3. th[p] = got /\ \A q \in RouteProviders(r) : q # p => th[q] = sh[q]
      BY <1>2, <3>2
    <3>4. Apart(sh, r, priority)
      BY <1>2, GoodApart
    <3>5. Cardinality(S) \in Nat \ {0}
      <4>1. x \in S
        BY <2>1 DEF Gives, Upto
      <4>. QED BY <4>1, UptoFinite
    <3>6. mixed[key] \in Nat /\ mixed'[key] = NextSlot(sh, r, priority, slot(priority), i)
      <4>1. mixed \in [{q.route : q \in Requests} \X Models -> Nat]
        BY DEF IInv, Basics
      <4>2. key \in {q.route : q \in Requests} \X Models
        BY <1>1
      <4>. HIDE DEF key, slot
      <4>. QED BY <2>1, <4>1, <4>2
    <3>7. ASSUME NEW picks \in Seq(Creds), InTurn(sh, r, priority, mixed[key], picks),
                 Len(picks) # Cardinality(S)
          PROVE  /\ Alike(sh, th, r)
                 /\ InTurn(th, r, priority, mixed'[key], Append(picks, x))
      <4>1. IsServing(sh, r, priority,
                      mixed[key] % Cardinality(Upto(sh, r, priority, Len(r.route))), i)
        BY <2>1
      <4>2. Gives(sh[r.route[i]], "all", priority, "roundRobin", Creds, x)
        BY <2>1, <3>1
      <4>3. /\ th[r.route[i]] = Having(sh[r.route[i]], "all", priority, "roundRobin", x)
            /\ \A q \in RouteProviders(r) : q # r.route[i] => th[q] = sh[q]
        BY <3>3
      <4>4. /\ Len(picks) # Cardinality(Upto(sh, r, priority, Len(r.route)))
            /\ mixed'[key] = NextSlot(sh, r, priority,
                   mixed[key] % Cardinality(Upto(sh, r, priority, Len(r.route))), i)
        BY <3>6, <3>7
      <4>. HIDE DEF th, key
      <4>. QED BY <1>1, <3>1, <3>4, <3>6, <3>7, <4>1, <4>2, <4>3, <4>4, InTurnMixed
    <3>8. Alike(sh, th, r)
      <4>1. got.index = sh[p].index
        BY <1>2, <3>2 DEF Having, ShardType
      <4>. HIDE DEF th, got
      <4>. QED BY <3>3, <4>1 DEF Alike
    <3>9. th = [sh EXCEPT ![p] = got] /\ Picked(r, x, S, sh, p, got)
          /\ IsBest(sh, TurnView(sh, r), priority, r)
      BY <1>4, <1>9, <2>1
    <3>10. \A picks \in Seq(Creds) :
              InTurn(sh, r, priority, mixed[<<r.route, r.model>>], picks) /\ Len(picks) # Cardinality(S)
                => InTurn(th, r, priority, mixed'[<<r.route, r.model>>], Append(picks, x))
      BY <3>7
    <3>. HIDE DEF th, got, S, p
    <3>. QED BY <1>1, <1>3, <1>6, <1>9, <2>3, <3>2, <3>5, <3>8, <3>9, <3>10, PickedTurn
  <2>. QED BY <2>2, <2>3
<1>. QED BY <1>5, <1>7, <1>8, <1>9

(* Every step keeps TurnOK: picks append, and where an index changes the *)
(* rotation starts again.                                                *)
LEMMA TurnStep == ASSUME IInv, TurnOK, [Next]_vars PROVE TurnOK'
<1>1. ASSUME Counted PROVE TurnOK'
  BY <1>1, NoTurnOK DEF Counted
<1>2. CASE \/ \E c \in Creds : \/ \E shape \in Shapes[c], hold \in [Models -> Holds] :
                                     Upsert(c, shape, hold)
                              \/ Remove(c)
           \/ Rebuild \/ SetSelector
  BY <1>1, <1>2 DEF Upsert, Remove, Replace, Rebuild, SetSelector
<1>3. CASE UNCHANGED <<turn, shard, mixed>>
  BY <1>3 DEF TurnOK, ShardsFor
<1>4. ASSUME NEW r \in Requests, PickSingle(r) PROVE TurnOK'
  <2>1. Len(r.route) = 1 /\ PickIn(r, r.route[1]) /\ r.route[1] \in Providers
    BY <1>4, RequestTyped DEF PickSingle
  <2>. QED BY <2>1, PickInTurns
<1>5. ASSUME NEW r \in Requests, PickPinned(r) PROVE TurnOK'
  <2>1. CASE authProviders[r.pin] \in RouteProviders(r)
    <3>1. authProviders[r.pin] \in Providers
      BY <2>1, RequestTyped
    <3>. QED BY <1>5, <2>1, <3>1, PickInTurns DEF PickPinned
  <2>2. CASE authProviders[r.pin] \notin RouteProviders(r)
    <3>1. DOMAIN <<>> \in SUBSET Providers /\ \A q \in DOMAIN <<>> : <<>>[q] = Ensured(q, r.model)
      OBVIOUS
    <3>. QED BY <1>5, <2>2, <3>1, RefusedTurn DEF PickPinned
  <2>. QED BY <2>1, <2>2
<1>6. CASE Pass \/ UNCHANGED vars
  BY <1>3, <1>6 DEF Pass, vars
<1>. QED BY <1>2, <1>4, <1>5, <1>6, PickMixedTurns DEF Next

(* No credential has been picked at the start.                           *)
LEMMA InitTurn == Init => TurnOK
  BY DEF Init, TurnOK, NoTurn

(* The picks in turn of one rotation are of different credentials.       *)
LEMMA TurnRotates == ASSUME IInv, TurnOK PROVE Rotates
<1>. SUFFICES ASSUME Len(turn.picks) > 0 PROVE Rotates
  BY DEF Rotates
<1> DEFINE r     == turn.req
           picks == turn.picks
           sh    == [p \in Providers |-> shard[p][r.model]]
           old   == ShardsFor(r)
           view  == IF Len(r.route) = 1 THEN ViewFor(sh[r.route[1]], r) ELSE "all"
           asked == meta[authProviders[picks[1]]][picks[1]].shape.priority
           S(p)  == Tier(sh[p].index, view, asked)
           k     == mixed[<<r.route, r.model>>]
<1>1. picks # <<>>
  OBVIOUS
<1>2. /\ r \in Requests /\ Len(r.route) > 0 /\ picks \in Seq(Creds)
  BY <1>1 DEF TurnOK
<1>3. PICK priority \in Priorities : InTurn(old, r, priority, k, picks)
  BY <1>1 DEF TurnOK
<1>4. /\ r.model \in Models /\ r.route \in Seq(Providers) /\ RouteProviders(r) \in SUBSET Providers
  BY <1>2, RequestTyped
<1>5. \A p \in RouteProviders(r) : /\ old[p] = sh[p] /\ old[p] \in ShardType
                                  /\ ShardOK(old[p], meta[p], r.model, now)
  BY <1>4 DEF ShardsFor, IInv, Shards
<1>6. TurnView(old, r) = view
  <2>1. Len(r.route) = 1 => r.route[1] \in RouteProviders(r)
    BY DEF RouteProviders
  <2>. HIDE DEF r, old, sh
  <2>. QED BY <1>5, <2>1 DEF TurnView
<1>7. Len(picks) \in Nat \ {0} /\ 1 \in 1 .. Len(picks) /\ picks[1] \in Creds
  BY <1>2
<1>. HIDE DEF r, picks, old, view, sh, k
<1>8. asked = priority
  <2>1. PICK p \in RouteProviders(r) : picks[1] \in Tier(old[p].index, view, priority)
    BY <1>3, <1>6, <1>7 DEF InTurn
  <2>2. old[p].index[picks[1]] # None /\ old[p].index[picks[1]].priority = priority
    BY <2>1 DEF Tier, Ready
  <2>3. Held[picks[1]] # NoCred /\ old[p].index[picks[1]] = Meta(Held[picks[1]])
    BY <1>4, <1>5, <1>7, <2>2, ReadyIsFree
  <2>4. Held[picks[1]] = meta[authProviders[picks[1]]][picks[1]]
    BY <1>7, <2>3 DEF Held
  <2>. QED BY <2>2, <2>3, <2>4 DEF Meta
<1>. HIDE DEF asked
<1>9. \A p \in RouteProviders(r) : S(p) = Tier(old[p].index, view, priority) /\ sh[p] = old[p]
  BY <1>5, <1>8
<1>10. (\E p \in RouteProviders(r) : Grouped(sh[p].index, S(p))) <=> SomeGrouped(old, r, priority)
  BY <1>6, <1>9 DEF SomeGrouped
<1>11. ASSUME Len(r.route) = 1
       PROVE  /\ r.route[1] \in RouteProviders(r) /\ RouteProviders(r) = {r.route[1]}
              /\ IsFiniteSet(S(r.route[1])) /\ Cardinality(S(r.route[1])) \in Nat
              /\ Len(picks) <= Cardinality(S(r.route[1]))
              /\ IF Grouped(sh[r.route[1]].index, S(r.route[1]))
                 THEN \E c : Turning(ParentsIn(sh[r.route[1]].index, S(r.route[1])), c,
                                     ParentsOf(sh[r.route[1]].index, picks))
                 ELSE \E c : Turning(S(r.route[1]), c, picks)
  <2>1. r.route[1] \in RouteProviders(r) /\ RouteProviders(r) = {r.route[1]}
    BY <1>11 DEF RouteProviders
  <2>2. TurnsIn(old[r.route[1]], view, priority, picks)
    BY <1>3, <1>6, <1>11 DEF InTurn
  <2>3. S(r.route[1]) = Tier(old[r.route[1]].index, view, priority) /\ sh[r.route[1]] = old[r.route[1]]
    BY <1>9, <2>1
  <2>4. S(r.route[1]) \in SUBSET Creds
    BY DEF Tier, Ready
  <2>5. IsFiniteSet(S(r.route[1])) /\ Cardinality(S(r.route[1])) \in Nat
    <3>. HIDE DEF S
    <3>. QED BY <2>4, FiniteParts
  <2>. HIDE DEF S
  <2>. QED BY <2>1, <2>2, <2>3, <2>5 DEF TurnsIn
<1>12. CASE \E p \in RouteProviders(r) : Grouped(sh[p].index, S(p))
  <2>1. ASSUME Len(r.route) = 1
        PROVE  LET p == r.route[1]
                   n == Cardinality(ParentsIn(sh[p].index, S(p)))
               IN \A i, j \in 1 .. Len(picks) :
                    (i < j /\ j - i < n) => sh[p].index[picks[i]].parent
                                              # sh[p].index[picks[j]].parent
    <3> DEFINE p == r.route[1]
    <3>1. Grouped(sh[p].index, S(p))
      BY <1>11, <1>12, <2>1
    <3>2. PICK c : Turning(ParentsIn(sh[p].index, S(p)), c, ParentsOf(sh[p].index, picks))
      BY <1>11, <2>1, <3>1
    <3>3. /\ Len(ParentsOf(sh[p].index, picks)) = Len(picks)
          /\ \A i \in 1 .. Len(picks) : ParentsOf(sh[p].index, picks)[i] = sh[p].index[picks[i]].parent
      BY <1>7 DEF ParentsOf
    <3>. HIDE DEF S, p
    <3>4. \A i, j \in 1 .. Len(picks) :
             i < j /\ j - i < Cardinality(ParentsIn(sh[p].index, S(p))) =>
                sh[p].index[picks[i]].parent # sh[p].index[picks[j]].parent
      BY <3>2, <3>3 DEF Turning
    <3>. QED BY <3>4 DEF p
  <2>. QED BY <1>12, <2>1 DEF Rotates, r, picks, sh, view, asked
<1>13. CASE ~(\E p \in RouteProviders(r) : Grouped(sh[p].index, S(p)))
  <2>1. ASSUME NEW i \in 1 .. Len(picks), NEW j \in 1 .. Len(picks), i # j
        PROVE  picks[i] # picks[j]
    <3>1. CASE Len(r.route) = 1
      <4> DEFINE T == S(r.route[1])
      <4>1. PICK c : Turning(T, c, picks)
        BY <1>11, <1>13, <3>1
      <4>2. Len(picks) <= Cardinality(T) /\ Cardinality(T) \in Nat
        BY <1>11, <3>1
      <4>. HIDE DEF T
      <4>3. ASSUME NEW a \in 1 .. Len(picks), NEW b \in 1 .. Len(picks), a < b
            PROVE  picks[a] # picks[b]
        <5>1. b - a < Cardinality(T)
          BY <1>7, <4>2, <4>3
        <5>. QED BY <4>1, <4>3, <5>1 DEF Turning
      <4>4. i < j \/ j < i
        BY <1>7, <2>1
      <4>. QED BY <4>3, <4>4
    <3>2. CASE Len(r.route) # 1
      <4> DEFINE size == Cardinality(Upto(old, r, priority, Len(r.route)))
      <4>1. Len(r.route) > 1
        <5>1. \A n \in Nat : n > 0 /\ n # 1 => n > 1
          OBVIOUS
        <5>2. Len(r.route) \in Nat
          BY <1>4
        <5>. QED BY <1>2, <3>2, <5>1, <5>2, Zenon
      <4>2. TurnsAcross(old, r, priority, k % size, picks)
        BY <1>3, <1>10, <1>13, <4>1 DEF InTurn
      <4>3. Apart(old, r, priority)
        BY <1>2, <1>5, GoodApart
      <4>4. size \in Nat /\ Len(picks) <= size
        BY <4>2, UptoFinite DEF TurnsAcross
      <4>5. k \in Nat
        BY <1>2, <1>4 DEF IInv, Basics, k
      <4>6. k % size \in 0 .. size - 1
        <5>. HIDE DEF size
        <5>. QED BY <1>7, <4>4, <4>5
      <4>. QED BY <1>2, <2>1, <4>2, <4>3, <4>6, TurnsAcrossDistinct
    <3>. QED BY <3>1, <3>2
  <2>. QED BY <1>13, <2>1 DEF Rotates, r, picks, sh, view, asked
<1>. QED BY <1>12, <1>13

(* While no ready list changes, picks for the same request get every ready *)
(* credential of the best priority once before they get one again, across *)
(* the providers of the route, wherever the cursors stood at first; where *)
(* there are virtual credentials, a credential of every parent.          *)
THEOREM AlwaysRotates == Spec => []Rotates
<1>1. Init => IInv /\ TurnOK
  BY InitIInv, InitTurn
<1>2. IInv /\ TurnOK /\ [Next]_vars => (IInv /\ TurnOK)'
  BY NextIInv, TurnStep
<1>3. IInv /\ TurnOK => Rotates
  BY TurnRotates
<1>. QED BY <1>1, <1>2, <1>3, PTL DEF Spec
=============================================================================
