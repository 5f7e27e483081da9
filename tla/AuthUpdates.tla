---------------------------- MODULE AuthUpdates ----------------------------
(***************************************************************************)
(* How credentials come and go while the program runs: the file watcher,  *)
(* the configuration reload, the management API and the websocket relay   *)
(* each compare what they know with the watcher's currentAuths, and send  *)
(* the differences through a coalescing dispatcher and a bounded channel  *)
(* to the consumer that applies them to the manager; the management hook  *)
(* alone applies its differences itself.                                   *)
(*                                                                         *)
(* A credential is its content: a version number, or Absent.  A file      *)
(* makes one credential, a key of the configuration another, a relay      *)
(* session a third.  The order in which the updates of DIFFERENT           *)
(* credentials travel is the order of a Go map, so it is left open.        *)
(*                                                                         *)
(* The names of the specification carry a prefix: its proofs stand next to *)
(* those of Credential.                                                    *)
(***************************************************************************)
EXTENDS Integers, Sequences

CONSTANTS
    Files,        \* credential files of the auth directory
    Keys,         \* API keys of the configuration
    Channels,     \* relay sessions, each with a name of its own
    Reloads,      \* configuration reloads that may overlap
    Hooks,        \* management hooks that may overlap
    Boot,         \* the goroutine of Service.Run
    Loop,         \* the goroutine of processEvents
    Providers,    \* providers of credentials
    Provider,     \* the provider of each credential
    Versions,     \* contents of a file or a key, compared only for equality
    Absent,       \* no such credential
    Broken,       \* a file that is empty, or cut short while it is written
    Present,      \* the content of a session's credential
    QueueSize,    \* capacity of Service.authUpdates and the consumer's hand
    MaxChanges,   \* bound: changes of files, configuration and sessions
    None,         \* no update
    NoHash        \* lastConfigHash before the first reload

Ids == Files \cup Keys \cup Channels
Contents == {Absent, Present} \cup Versions
Sources == {Absent} \cup Versions
FileContents == Sources \cup {Broken}
Configs == [Keys -> Sources]
Updates == [Ids -> Contents \cup {None}]
NoUpdates == [id \in Ids |-> None]

Opener(c) == <<c, "open">>      \* the goroutine of handleWebsocket
Closer(c) == <<c, "close">>     \* the goroutine that runs session.cleanup
Actors == {Boot, Loop} \cup Reloads \cup Hooks \cup (Channels \X {"open", "close"})

ASSUME SourcesAssumption ==
    /\ Files \cap Keys = {} /\ Files \cap Channels = {} /\ Keys \cap Channels = {}
    /\ Boot # Loop /\ Reloads \cap Hooks = {} /\ {Boot, Loop} \cap (Reloads \cup Hooks) = {}
    /\ ({Boot, Loop} \cup Reloads \cup Hooks) \cap (Channels \X {"open", "close"}) = {}
ASSUME ProviderAssumption == Provider \in [Ids -> Providers]
ASSUME BoundsAssumption ==
    /\ Absent # Present /\ Absent \notin Versions /\ Present \notin Versions
    /\ QueueSize \in Nat \ {0} /\ MaxChanges \in Nat
    /\ Broken \notin Contents /\ None \notin Contents /\ NoHash \notin Configs

VARIABLES
    disk,        \* the auth directory
    configFile,  \* the configuration file
    events,      \* fsnotify events about credential files, not yet handled
    recent,      \* files with an entry in lastRemoveTimes within the window
    timer,       \* configReloadTimer is armed
    hashes,      \* lastAuthHashes; a known file also has its fileAuthsByPath
    configHash,  \* lastConfigHash
    config,      \* Watcher.config
    runtime,     \* runtimeAuths
    current,     \* currentAuths
    pending,     \* pendingUpdates
    batch,       \* what the dispatcher still has to send of its batch
    queue,       \* Service.authUpdates, its head perhaps in the consumer's hands
    manager,     \* the credentials of the manager; disabled counts as Absent
    step,        \* where each goroutine is
    seen,        \* what it read before it took clientsMutex
    held,        \* the updates it computed and has not handed on
    changes,     \* number of changes so far
    ordered,     \* credentials whose latest update no other could overtake
    forgotten,   \* credentials whose entry a reload dropped without an update
    stale,       \* credentials whose entry was computed from overtaken data
    ignored      \* files whose removal fell into the window of another

files == <<disk, configFile, events, recent, timer>>
watcher == <<hashes, configHash, config, runtime, current>>
dispatcher == <<pending, batch>>
consumer == <<queue, manager>>
goroutines == <<step, seen, held>>
history == <<changes, ordered, forgotten, stale, ignored>>
updatesVars == <<files, watcher, dispatcher, consumer, goroutines, history>>

Nothing == [id \in Ids |-> Absent]

(* The credential that a file makes: a broken one makes none.              *)
Content(f) == IF disk[f] = Broken THEN Absent ELSE disk[f]

(* The directory was read once by Manager.Load; start has launched the     *)
(* event loop and goes on with its own reload.                             *)
UpdatesInit ==
    /\ disk \in [Files -> FileContents]
    /\ configFile \in Configs
    /\ events = <<>> /\ recent = {} /\ timer = FALSE
    /\ hashes = [f \in Files |-> Absent]
    /\ configHash = NoHash
    /\ config = configFile
    /\ runtime = {}
    /\ current = Nothing
    /\ pending = NoUpdates /\ batch = NoUpdates
    /\ queue = <<>>
    /\ manager = [id \in Ids |-> IF id \in Files THEN Content(id) ELSE Absent]
    /\ step = [a \in Actors |-> IF a = Boot THEN "rescan" ELSE "idle"]
    /\ seen = [a \in Actors |-> Nothing]
    /\ held = [a \in Actors |-> NoUpdates]
    /\ changes = 0 /\ ordered = {} /\ forgotten = {} /\ stale = {} /\ ignored = {}

-----------------------------------------------------------------------------
(* The outside world.                                                      *)
Changes == changes < MaxChanges /\ changes' = changes + 1

WriteFile(f, v) ==
    /\ Changes
    /\ disk[f] # v
    /\ disk' = [disk EXCEPT ![f] = v]
    /\ events' = Append(events, [file |-> f, removes |-> FALSE])
    /\ UNCHANGED <<configFile, recent, timer, watcher, dispatcher, consumer,
                   goroutines, ordered, forgotten, stale, ignored>>

(* An atomic replacement, of the content or only of the file, surfaces as  *)
(* a Rename or Remove and a Create.                                        *)
ReplaceFile(f, v) ==
    /\ Changes
    /\ disk[f] # Absent
    /\ disk' = [disk EXCEPT ![f] = v]
    /\ events' = events \o <<[file |-> f, removes |-> TRUE], [file |-> f, removes |-> FALSE]>>
    /\ UNCHANGED <<configFile, recent, timer, watcher, dispatcher, consumer,
                   goroutines, ordered, forgotten, stale, ignored>>

RemoveFile(f) ==
    /\ Changes
    /\ disk[f] # Absent
    /\ disk' = [disk EXCEPT ![f] = Absent]
    /\ events' = Append(events, [file |-> f, removes |-> TRUE])
    /\ UNCHANGED <<configFile, recent, timer, watcher, dispatcher, consumer,
                   goroutines, ordered, forgotten, stale, ignored>>

(* An edit of the configuration file; its event arms the timer.            *)
EditConfig(c) ==
    /\ Changes
    /\ configFile # c
    /\ configFile' = c
    /\ timer' = TRUE
    /\ UNCHANGED <<disk, events, recent, watcher, dispatcher, consumer,
                   goroutines, ordered, forgotten, stale, ignored>>

(* authRemoveDebounceWindow has passed.                                    *)
WindowPasses(f) ==
    /\ f \in recent
    /\ recent' = recent \ {f}
    /\ UNCHANGED <<disk, configFile, events, timer, watcher, dispatcher, consumer,
                   goroutines, history>>

-----------------------------------------------------------------------------
(* What a critical section of clientsMutex does when it computes updates.  *)
At(a, s) == step[a] = s
Goes(a, s) == step' = [step EXCEPT ![a] = s]
Emitted(ups) == {id \in Ids : ups[id] # None}

InFlight(id) ==
    \/ pending[id] # None \/ batch[id] # None
    \/ \E i \in 1..Len(queue) : queue[i].id = id

HeldByOthers(a, id) == \E b \in Actors \ {a} : held[b][id] # None

(* Actor a leaves the critical section with these updates in its hands.    *)
(* An update is in order if no one else holds one for the credential and,  *)
(* for a hook, which does not use the queue, nothing travels there.        *)
Emits(a, ups) ==
    /\ held' = [held EXCEPT ![a] = ups]
    /\ forgotten' = forgotten \ Emitted(ups)
    /\ ordered' = (ordered \ Emitted(ups)) \cup
                    {id \in Emitted(ups) : /\ ~HeldByOthers(a, id)
                                           /\ a \in Hooks => ~InFlight(id)}

(* One credential gets a new entry.                                        *)
Only(id, v) == [NoUpdates EXCEPT ![id] = v]

-----------------------------------------------------------------------------
(* The event loop: handleEvent, addOrUpdateClient, removeClient.           *)
Drop == events' = Tail(events)

(* A Create or Write event: the file is read and compared with its hash;   *)
(* one that is empty or does not parse is left alone.                      *)
HandleWrite ==
    /\ At(Loop, "idle") /\ events # <<>> /\ ~Head(events).removes
    /\ Drop
    /\ LET f == Head(events).file IN
       IF disk[f] \in {Absent, Broken, hashes[f]}
       THEN UNCHANGED goroutines
       ELSE /\ Goes(Loop, "update")
            /\ seen' = [seen EXCEPT ![Loop] = [Nothing EXCEPT ![f] = disk[f]]]
            /\ UNCHANGED held
    /\ UNCHANGED <<disk, configFile, recent, timer, watcher, dispatcher, consumer, history>>

(* A Remove or Rename event within the window of the last one is ignored.  *)
(* If that was the real removal, nothing tells the watcher again.          *)
HandleRemove ==
    /\ At(Loop, "idle") /\ events # <<>> /\ Head(events).removes
    /\ LET f == Head(events).file IN
       IF f \in recent
       THEN /\ Drop
            /\ ignored' = IF disk[f] \notin {Broken, hashes[f]} THEN ignored \cup {f} ELSE ignored
            /\ UNCHANGED <<recent, goroutines>>
       ELSE /\ Goes(Loop, "check")
            /\ recent' = recent \cup {f}
            /\ UNCHANGED <<events, seen, held, ignored>>
    /\ UNCHANGED <<disk, configFile, timer, watcher, dispatcher, consumer, changes, ordered,
                   forgotten, stale>>

(* After replaceCheckDelay: is the file there again?                       *)
CheckReplaced ==
    /\ At(Loop, "check")
    /\ Drop
    /\ LET f == Head(events).file IN
       \/ /\ disk[f] \notin {Absent, Broken, hashes[f]}
          /\ Goes(Loop, "update")
          /\ seen' = [seen EXCEPT ![Loop] = [Nothing EXCEPT ![f] = disk[f]]]
       \/ /\ disk[f] = Absent /\ hashes[f] # Absent
          /\ Goes(Loop, "remove")
          /\ seen' = [seen EXCEPT ![Loop] = [Nothing EXCEPT ![f] = hashes[f]]]
       \/ /\ disk[f] \in {Broken, hashes[f]}
          /\ Goes(Loop, "idle")
          /\ UNCHANGED seen
    /\ UNCHANGED <<disk, configFile, recent, timer, watcher, dispatcher, consumer, held, history>>

LoopFile == CHOOSE f \in Files : seen[Loop][f] # Absent

(* addOrUpdateClient and computePerPathUpdatesLocked.                      *)
UpdateClient ==
    /\ At(Loop, "update")
    /\ LET f == LoopFile
           v == seen[Loop][f]
       IN IF hashes[f] = v
          THEN /\ Goes(Loop, "idle")
               /\ UNCHANGED <<hashes, current, held, ordered, forgotten, stale, ignored>>
          ELSE /\ Goes(Loop, "dispatch")
               /\ hashes' = [hashes EXCEPT ![f] = v]
               /\ current' = [current EXCEPT ![f] = v]
               /\ Emits(Loop, IF current[f] = v THEN NoUpdates ELSE Only(f, v))
               /\ stale' = stale \ {f} /\ ignored' = ignored \ {f}
    /\ seen' = [seen EXCEPT ![Loop] = Nothing]
    /\ UNCHANGED <<files, configHash, config, runtime, dispatcher, consumer, changes>>

(* removeClient deletes what the path had, whatever currentAuths holds.    *)
RemoveClient ==
    /\ At(Loop, "remove")
    /\ LET f == LoopFile IN
       IF hashes[f] = Absent
       THEN UNCHANGED <<hashes, current, held, ordered, forgotten, stale, ignored>>
       ELSE /\ hashes' = [hashes EXCEPT ![f] = Absent]
            /\ current' = [current EXCEPT ![f] = Absent]
            /\ Emits(Loop, Only(f, Absent))
            /\ stale' = stale \ {f} /\ ignored' = ignored \ {f}
    /\ Goes(Loop, "dispatch")
    /\ seen' = [seen EXCEPT ![Loop] = Nothing]
    /\ UNCHANGED <<files, configHash, config, runtime, dispatcher, consumer, changes>>

-----------------------------------------------------------------------------
(* Full refreshes: start, a configuration reload, a management hook.       *)

(* reloadClients(rescanAuth) at the start: the hashes, under the lock.  The*)
(* hash of a file that does not parse goes with no credential, and what the*)
(* file holds later differs from it, so it is left out.                    *)
Rescan ==
    /\ At(Boot, "rescan") /\ Goes(Boot, "snapshot")
    /\ hashes' = [f \in Files |-> Content(f)]
    /\ ignored' = {}
    /\ UNCHANGED <<files, configHash, config, runtime, current, dispatcher, consumer,
                   seen, held, changes, ordered, forgotten, stale>>

TimerFires(r) ==
    /\ timer /\ At(r, "idle")
    /\ timer' = FALSE
    /\ Goes(r, "reload")
    /\ UNCHANGED <<disk, configFile, events, recent, watcher, dispatcher, consumer,
                   seen, held, history>>

(* reloadConfigIfChanged: nothing happens if the content is the one that   *)
(* was hashed after the last reload.                                       *)
ReloadConfig(r) ==
    /\ At(r, "reload")
    /\ Goes(r, IF configHash = configFile THEN "idle" ELSE "load")
    /\ UNCHANGED <<files, watcher, dispatcher, consumer, seen, held, history>>

(* reloadConfig reads the file once more, before it takes the lock.        *)
LoadConfig(r) ==
    /\ At(r, "load") /\ Goes(r, "store")
    /\ seen' = [seen EXCEPT ![r] = [id \in Ids |-> IF id \in Keys THEN configFile[id] ELSE Absent]]
    /\ UNCHANGED <<files, watcher, dispatcher, consumer, held, history>>

(* A hook may have set a newer configuration since.                        *)
StoreConfig(r) ==
    /\ At(r, "store") /\ Goes(r, "filter")
    /\ config' = [k \in Keys |-> seen[r][k]]
    /\ seen' = [seen EXCEPT ![r] = Nothing]
    /\ UNCHANGED <<files, hashes, configHash, runtime, current, dispatcher, consumer,
                   held, history>>

(* reloadClients(affectedOAuthProviders): every entry of these providers   *)
(* is forgotten, so that the refresh adds again what its snapshot has; what*)
(* it no longer has gets no Delete.  Whose lists of excluded models an edit*)
(* changes is left open.                                                   *)
ForgetAffected(r, targets) ==
    /\ At(r, "filter") /\ Goes(r, "snapshot")
    /\ LET affected == {id \in Ids : Provider[id] \in targets} IN
       /\ current' = [id \in Ids |-> IF id \in affected THEN Absent ELSE current[id]]
       /\ forgotten' = forgotten \cup {id \in affected : current[id] # Absent}
    /\ UNCHANGED <<files, hashes, configHash, config, runtime, dispatcher, consumer,
                   seen, held, changes, ordered, stale, ignored>>

(* snapshotCoreAuths, before the lock is taken: a hook uses the            *)
(* configuration it was started with, the others the watcher's.            *)
TakeSnapshot(a) ==
    /\ At(a, "snapshot") /\ Goes(a, "install")
    /\ seen' = [seen EXCEPT ![a] =
                  [id \in Ids |-> CASE id \in Files    -> Content(id)
                                    [] id \in Keys     -> IF a \in Hooks THEN seen[a][id]
                                                                         ELSE config[id]
                                    [] id \in Channels -> Absent]]
    /\ UNCHANGED <<files, watcher, dispatcher, consumer, held, history>>

(* prepareAuthUpdatesLocked: the runtime credentials join the snapshot     *)
(* under the lock, and the difference to currentAuths is what is sent.     *)
\* Mutant: a refresh knows only files and configuration.
ForgettingRuntime(snapshot) == snapshot

WithRuntime(snapshot) ==
    [id \in Ids |-> IF id \in runtime THEN Present ELSE snapshot[id]]

Differences(new, force) ==
    [id \in Ids |-> IF new[id] # current[id] \/ (force /\ new[id] # Absent)
                    THEN new[id] ELSE None]

Overtaken(snapshot) ==
    {f \in Files : snapshot[f] # hashes[f]} \cup {k \in Keys : snapshot[k] # config[k]}

Install(a, force) ==
    /\ At(a, "install")
    /\ a = Boot => ~force
    /\ a \in Hooks => force
    /\ Goes(a, IF a \in Hooks THEN "apply" ELSE "dispatch")
    /\ LET new == WithRuntime(seen[a]) IN
       /\ Emits(a, Differences(new, force))
       /\ current' = new
    /\ stale' = (stale \ (Files \cup Keys)) \cup Overtaken(seen[a])
    /\ seen' = [seen EXCEPT ![a] = Nothing]
    /\ UNCHANGED <<files, hashes, configHash, config, runtime, dispatcher, consumer, changes,
                   ignored>>

(* The hash stored after a reload is that of the file as it is by then,    *)
(* which may be newer than what was loaded.                                *)
Rehash(r) ==
    /\ At(r, "rehash") /\ Goes(r, "idle")
    /\ configHash' = configFile
    /\ UNCHANGED <<files, hashes, config, runtime, current, dispatcher, consumer,
                   seen, held, history>>

(* A management request saves the configuration and starts its hook.       *)
SaveConfig(h, c) ==
    /\ At(h, "idle") /\ Goes(h, "hook")
    /\ Changes
    /\ configFile' = c
    /\ timer' = TRUE
    /\ seen' = [seen EXCEPT ![h] = [id \in Ids |-> IF id \in Keys THEN c[id] ELSE Absent]]
    /\ UNCHANGED <<disk, events, recent, watcher, dispatcher, consumer, held, ordered,
                   forgotten, stale, ignored>>

(* ApplyConfigSnapshot, first half.                                        *)
SetConfig(h) ==
    /\ At(h, "hook") /\ Goes(h, "snapshot")
    /\ config' = [k \in Keys |-> seen[h][k]]
    /\ UNCHANGED <<files, hashes, configHash, runtime, current, dispatcher, consumer,
                   seen, held, history>>

(* applyManagementConfigUpdate applies its differences one by one.         *)
ApplyHere(h, id) ==
    /\ At(h, "apply") /\ held[h][id] # None
    /\ manager' = [manager EXCEPT ![id] = held[h][id]]
    /\ held' = [held EXCEPT ![h][id] = None]
    /\ UNCHANGED <<files, watcher, dispatcher, queue, step, seen, history>>

HookDone(h) ==
    /\ At(h, "apply") /\ held[h] = NoUpdates
    /\ Goes(h, "idle")
    /\ UNCHANGED <<files, watcher, dispatcher, consumer, seen, held, history>>

-----------------------------------------------------------------------------
(* The websocket relay: handleWebsocket, cleanup and the two callbacks of  *)
(* the service.                                                            *)
Connect(c) ==
    /\ Changes
    /\ At(Opener(c), "idle") /\ Goes(Opener(c), "announce")
    /\ UNCHANGED <<files, watcher, dispatcher, consumer, seen, held, ordered,
                   forgotten, stale, ignored>>

(* wsOnConnected, dispatchRuntimeAuthUpdate.                               *)
Announce(c) ==
    /\ At(Opener(c), "announce")
    /\ IF manager[c] # Absent
       THEN /\ Goes(Opener(c), "done")
            /\ UNCHANGED <<runtime, current, held, ordered, forgotten, stale, ignored>>
       ELSE /\ Goes(Opener(c), "dispatch")
            /\ runtime' = runtime \cup {c}
            /\ current' = [current EXCEPT ![c] = Present]
            /\ Emits(Opener(c), Only(c, Present))
            /\ stale' = IF step[Closer(c)] \in {"dispatch", "done"} THEN stale \cup {c}
                                                                     ELSE stale
    /\ UNCHANGED <<files, hashes, configHash, config, dispatcher, consumer, seen, changes,
                   ignored>>

(* session.run ends with a read error.                                     *)
Disconnect(c) ==
    /\ At(Opener(c), "done") /\ At(Closer(c), "idle")
    /\ Goes(Closer(c), "forget")
    /\ UNCHANGED <<files, watcher, dispatcher, consumer, seen, held, history>>

(* Manager.Stop, when websocket authentication is switched on: every       *)
(* session in the map, the one whose onConnected is still to come too.     *)
StopSessions ==
    /\ Changes
    /\ LET open == {c \in Channels : ~At(Opener(c), "idle") /\ At(Closer(c), "idle")} IN
       /\ open # {}
       /\ step' = [a \in Actors |-> IF \E c \in open : a = Closer(c) THEN "forget" ELSE step[a]]
    /\ UNCHANGED <<files, watcher, dispatcher, consumer, seen, held, ordered,
                   forgotten, stale, ignored>>

(* wsOnDisconnected, dispatchRuntimeAuthUpdate.                            *)
Forget(c) ==
    /\ At(Closer(c), "forget") /\ Goes(Closer(c), "dispatch")
    /\ runtime' = runtime \ {c}
    /\ current' = [current EXCEPT ![c] = Absent]
    /\ Emits(Closer(c), Only(c, Absent))
    /\ UNCHANGED <<files, hashes, configHash, config, dispatcher, consumer, seen,
                   changes, stale, ignored>>

-----------------------------------------------------------------------------
(* The dispatcher and the consumer.                                        *)
\* Mutant: an update already pending is kept.
KeepFirst(ups) ==
    [id \in Ids |-> IF pending[id] # None THEN pending[id] ELSE ups[id]]

Coalesced(ups) ==
    [id \in Ids |-> IF ups[id] # None THEN ups[id] ELSE pending[id]]

AfterDispatch(a) ==
    CASE a = Loop         -> "idle"
      [] a \in Reloads    -> "rehash"
      [] OTHER            -> "done"

(* dispatchAuthUpdates: the later update of a credential replaces the      *)
(* earlier one.                                                            *)
Dispatch(a) ==
    /\ At(a, "dispatch") /\ Goes(a, AfterDispatch(a))
    /\ pending' = Coalesced(held[a])
    /\ held' = [held EXCEPT ![a] = NoUpdates]
    /\ UNCHANGED <<files, watcher, batch, consumer, seen, history>>

(* nextPendingBatch: the dispatcher sleeps while nothing is pending.       *)
TakeBatch ==
    /\ batch = NoUpdates /\ pending # NoUpdates
    /\ batch' = pending
    /\ pending' = NoUpdates
    /\ UNCHANGED <<files, watcher, consumer, goroutines, history>>

\* Mutant: the channel takes any number of updates.
SendUnbounded(id) ==
    /\ batch[id] # None
    /\ queue' = Append(queue, [id |-> id, content |-> batch[id]])
    /\ batch' = [batch EXCEPT ![id] = None]
    /\ UNCHANGED <<files, watcher, pending, manager, goroutines, history>>

(* dispatchLoop blocks while the channel is full.                          *)
SendUpdate(id) ==
    /\ batch[id] # None
    /\ Len(queue) < QueueSize
    /\ queue' = Append(queue, [id |-> id, content |-> batch[id]])
    /\ batch' = [batch EXCEPT ![id] = None]
    /\ UNCHANGED <<files, watcher, pending, manager, goroutines, history>>

(* consumeAuthUpdates and handleAuthUpdate, as a whole (AuthSync looks     *)
(* inside): the update leaves the queue when it has been applied.          *)
Apply ==
    /\ queue # <<>>
    /\ manager' = [manager EXCEPT ![Head(queue).id] = Head(queue).content]
    /\ queue' = Tail(queue)
    /\ UNCHANGED <<files, watcher, dispatcher, goroutines, history>>

-----------------------------------------------------------------------------
World ==
    \/ \E f \in Files, v \in Versions \cup {Broken} : WriteFile(f, v) \/ ReplaceFile(f, v)
    \/ \E f \in Files : RemoveFile(f)
    \/ \E c \in Configs : EditConfig(c)
    \/ \E h \in Hooks, c \in Configs : SaveConfig(h, c)
    \/ \E c \in Channels : Connect(c) \/ Disconnect(c)
    \/ StopSessions

EventLoop == HandleWrite \/ HandleRemove \/ CheckReplaced \/ UpdateClient \/ RemoveClient

Refresh(a) == TakeSnapshot(a) \/ \E force \in BOOLEAN : Install(a, force)

ConfigReload(r) ==
    \/ TimerFires(r) \/ ReloadConfig(r) \/ LoadConfig(r) \/ StoreConfig(r) \/ Rehash(r)
    \/ \E targets \in SUBSET Providers : ForgetAffected(r, targets)
    \/ Refresh(r)

Hook(h) ==
    \/ SetConfig(h) \/ Refresh(h) \/ HookDone(h)
    \/ \E id \in Ids : ApplyHere(h, id)

Dispatcher == TakeBatch \/ \E id \in Ids : SendUpdate(id)

UpdatesNext ==
    \/ World
    \/ \E f \in Files : WindowPasses(f)
    \/ EventLoop
    \/ Rescan \/ Refresh(Boot)
    \/ \E r \in Reloads : ConfigReload(r)
    \/ \E h \in Hooks : Hook(h)
    \/ \E c \in Channels : Announce(c) \/ Forget(c)
    \/ \E a \in Actors : Dispatch(a)
    \/ Dispatcher
    \/ Apply

UpdatesSpec == UpdatesInit /\ [][UpdatesNext]_updatesVars

-----------------------------------------------------------------------------
(* Type invariant; the channel never holds more than its capacity.         *)
Steps == {"idle", "rescan", "reload", "load", "store", "filter", "snapshot", "install",
          "dispatch", "rehash", "hook", "apply", "check", "update", "remove", "announce",
          "forget", "done"}
Messages == [id : Ids, content : Contents]

UpdatesTypeOK ==
    /\ disk \in [Files -> FileContents] /\ configFile \in Configs
    /\ events \in Seq([file : Files, removes : BOOLEAN])
    /\ recent \subseteq Files /\ timer \in BOOLEAN
    /\ hashes \in [Files -> Sources] /\ configHash \in Configs \cup {NoHash}
    /\ config \in Configs /\ runtime \subseteq Channels
    /\ current \in [Ids -> Contents]
    /\ pending \in Updates /\ batch \in Updates
    /\ queue \in Seq(Messages) /\ Len(queue) <= QueueSize
    /\ manager \in [Ids -> Contents]
    /\ step \in [Actors -> Steps]
    /\ seen \in [Actors -> [Ids -> Contents]]
    /\ held \in [Actors -> Updates]
    /\ changes \in Nat /\ ordered \subseteq Ids /\ forgotten \subseteq Ids
    /\ stale \subseteq Ids /\ ignored \subseteq Files

(* What the manager will hold of a credential once everything on its way   *)
(* has been applied.                                                       *)
QueuedAt(id) == {i \in 1..Len(queue) : queue[i].id = id}

Outcome(id) ==
    IF pending[id] # None THEN pending[id]
    ELSE IF batch[id] # None THEN batch[id]
    ELSE IF QueuedAt(id) # {}
         THEN queue[CHOOSE i \in QueuedAt(id) : \A j \in QueuedAt(id) : j <= i].content
         ELSE manager[id]

(* Coalescing, batching and the bounded channel neither lose the last      *)
(* update of a credential nor let an older one be applied after it: what   *)
(* the watcher believes is what the manager has or will have, with one     *)
(* exception.  The code guarantees it for a credential whose last update   *)
(* was computed while no other goroutine had one in its hands.             *)
(*                                                                         *)
(* The exception is the missing Delete of ForgetAffected: the watcher has  *)
(* no entry of the credential, and has told the manager nothing.  It lasts *)
(* until somebody sends an update of the credential: for a relay session   *)
(* at most until the reload has refreshed the entries, for a file that is  *)
(* gone until removeClient sends what the refresh did not, and for a key   *)
(* that is no longer in the configuration it never ends: the manager keeps *)
(* it.  A key that is still there gets its entry back (SourcesFollowed).   *)
Follows(id) ==
    LET holders == {a \in Actors : held[a][id] # None} IN
    IF holders = {} THEN Outcome(id) = current[id]
                    ELSE \A a \in holders : held[a][id] = current[id]

Unannounced(id) ==
    /\ id \in forgotten /\ current[id] = Absent
    /\ id \in Channels => \E r \in Reloads : step[r] \in {"snapshot", "install"}

ManagerFollows == \A id \in ordered : Follows(id) \/ Unannounced(id)

(* When nothing is left to be looked at, the watcher's credentials are     *)
(* those of the files it hashed, of its configuration and of the open      *)
(* sessions, except where an entry was computed from data that had been    *)
(* overtaken.  The hashes are those of the files that can be read, unless  *)
(* a removal fell into the debounce window; the configuration is the file's, unless the   *)
(* file changed during a reload and was hashed without being loaded.       *)
Busy == Steps \ {"idle", "done"}
Quiet == events = <<>> /\ ~timer /\ \A a \in Actors : step[a] \notin Busy

Source(id) ==
    CASE id \in Files    -> hashes[id]
      [] id \in Keys     -> config[id]
      [] id \in Channels -> IF At(Opener(id), "done") /\ At(Closer(id), "idle") THEN Present ELSE Absent

SourcesFollowed ==
    Quiet => /\ \A id \in Ids \ stale : current[id] = Source(id)
             /\ \A f \in Files \ ignored : disk[f] \in {Broken, hashes[f]}
             /\ configFile \in {config, configHash}
=============================================================================
