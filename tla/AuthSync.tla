------------------------------ MODULE AuthSync ------------------------------
(***************************************************************************)
(* How the three records of one credential are kept together: the          *)
(* manager's (m.auths, under Manager.mu), the scheduler's (under its own   *)
(* mutex) and the model registry's (under a third one).  No mutex covers   *)
(* two of them, so every operation is a sequence of critical sections that *)
(* the operations of other goroutines interleave with: a program, whose    *)
(* steps are named after what the critical section does.                   *)
(*                                                                         *)
(* One credential and one model that other clients serve too.  The clock   *)
(* is left out: a cooldown lasts until a result or a registration ends it. *)
(* A step that follows a copy only ever reads what in-place changes leave  *)
(* alone, so a task's private copy and the object it stored share a field. *)
(***************************************************************************)
EXTENDS Integers, Sequences, FiniteSets

CONSTANTS
    Tasks,          \* goroutines working on the credential
    Kinds,          \* the operations that take place
    Configurations, \* the contents a credential file may have
    NoAuth,         \* no record, or nothing read yet
    InlineUpdates,  \* is the queue of auth updates full, so that they overlap?
    MaxOps,         \* bound: operations started, resynchronisations apart
    MaxInFlight     \* bound: requests under way with the credential

Operations == {"result", "update", "remove", "toggle", "refresh", "catalog"}

(* ModelStates of the model: absent, clean or blocking it.                 *)
ModelStates == {"none", "clean", "cooling"}
Auths == [disabled : BOOLEAN, state : ModelStates, conf : Configurations]

ASSUME AuthSyncAssumption ==
    /\ NoAuth \notin Auths
    /\ Kinds \subseteq Operations
    /\ InlineUpdates \in BOOLEAN
    /\ MaxOps \in Nat /\ MaxInFlight \in Nat

VARIABLES
    auth,       \* m.auths[id], or NoAuth
    sched,      \* the scheduler's metadata and entry of the credential
    reg,        \* the registry: the binding and the marks on the model
    task,       \* what each goroutine has read and has still to do
    inFlight,   \* requests that were given the credential and not answered
    ops,        \* operations started so far
    settled     \* history: the operation that ended last and ran alone

vars == <<auth, sched, reg, task, inFlight, ops, settled>>

None == "none"

(* live: the pointer is the one m.auths holds, so in-place changes of the  *)
(* manager show through it.                                                *)
NoEntry == [entry |-> FALSE, auth |-> NoAuth, live |-> FALSE,
            supported |-> FALSE, ready |-> FALSE]

Idle == [op |-> "idle", rest |-> <<>>, copy |-> NoAuth, live |-> FALSE,
         bound |-> FALSE, target |-> NoAuth, alone |-> FALSE]

Init ==
    /\ auth = NoAuth
    /\ sched = NoEntry
    /\ reg = [bound |-> FALSE, quota |-> FALSE, suspended |-> FALSE]
    /\ task = [t \in Tasks |-> Idle]
    /\ inFlight = 0
    /\ ops = 0
    /\ settled = None

-----------------------------------------------------------------------------
(* The programs: the critical sections of each operation in their order.   *)

ResultSteps  == <<"mark", "upsert", "quota", "suspend">>

\* Mutant: the scheduler is not refreshed after the models are registered.
UpdateStepsUnrefreshed ==
    <<"read", "store", "upsert", "bind", "readBound", "reconcile", "upsert">>

UpdateSteps  == <<"read", "store", "upsert", "bind", "readBound", "reconcile", "upsert",
                  "snapshot", "upsert">>
RemoveSteps  == <<"unbind", "read", "store", "upsert">>
ToggleSteps  == <<"read", "store", "upsert">>
RefreshSteps == <<"read", "refreshed", "upsert">>
CatalogSteps == <<"readEnabled", "bind", "readBound", "reconcile", "upsert", "readLatest">>
ReapplySteps == <<"bind", "readBound", "reconcile", "upsert", "snapshot", "upsert">>
UnbindSteps  == <<"unbind", "snapshot", "upsert">>

\* Mutant: a failed pick takes a snapshot and does not rebuild the scheduler.
ResyncStepsUnbuilt == <<"snapshot">>

ResyncSteps  == <<"snapshot", "upsert">>

Steps(op) ==
    CASE op = "result"  -> ResultSteps
      [] op = "update"  -> UpdateSteps
      [] op = "remove"  -> RemoveSteps
      [] op = "toggle"  -> ToggleSteps
      [] op = "refresh" -> RefreshSteps
      [] op = "catalog" -> CatalogSteps
      [] op = "resync"  -> ResyncSteps

Busy(tasks) == {t \in Tasks : tasks[t].op # "idle"}
At(t, step) == task[t].rest # <<>> /\ Head(task[t].rest) = step

(* t has done its first step, after which tasks is the state of the tasks  *)
(* but for the program counter, and has rest left to do.                   *)
Goto(t, tasks, rest) ==
    /\ task' = [tasks EXCEPT ![t] = IF rest = <<>> THEN Idle ELSE [@ EXCEPT !.rest = rest]]
    /\ settled' = IF rest = <<>> /\ tasks[t].alone THEN tasks[t].op ELSE settled

Continue(t, tasks) == Goto(t, tasks, Tail(task[t].rest))

(* The task gives up: nothing it did counts as a completed operation.      *)
Stop(t) ==
    /\ task' = [task EXCEPT ![t] = Idle]
    /\ UNCHANGED settled

Started(t, op, target) ==
    /\ task[t].op = "idle"
    /\ task' = [u \in Tasks |->
                  IF u = t
                  THEN [Idle EXCEPT !.op = op, !.rest = Steps(op), !.target = target,
                                    !.alone = Busy(task) = {}]
                  ELSE [task[u] EXCEPT !.alone = FALSE]]
    /\ settled' = None

-----------------------------------------------------------------------------
(* Starting an operation.                                                  *)

Pickable == sched.entry /\ sched.supported /\ sched.ready

(* A request is given the credential; its result is reported later, unless *)
(* its context is cancelled.                                               *)
Pick ==
    /\ Pickable /\ inFlight < MaxInFlight
    /\ inFlight' = inFlight + 1
    /\ UNCHANGED <<auth, sched, reg, task, ops, settled>>

Abandon ==
    /\ inFlight > 0
    /\ inFlight' = inFlight - 1
    /\ UNCHANGED <<auth, sched, reg, task, ops, settled>>

StartResult(t) ==
    /\ "result" \in Kinds /\ ops < MaxOps
    /\ inFlight > 0
    /\ inFlight' = inFlight - 1
    /\ ops' = ops + 1
    /\ Started(t, "result", NoAuth)
    /\ UNCHANGED <<auth, sched, reg>>

(* Updates and removals come from the queue that one goroutine drains,     *)
(* except that emitAuthUpdate applies one itself when the queue is full.   *)
ServiceFree ==
    InlineUpdates \/ \A u \in Tasks : task[u].op \notin {"update", "remove"}

(* A file is added or changed; a file may say that it is disabled.         *)
StartUpdate(t) ==
    /\ "update" \in Kinds /\ ops < MaxOps /\ ServiceFree
    /\ ops' = ops + 1
    /\ \E disabled \in BOOLEAN, conf \in Configurations :
          Started(t, "update", [disabled |-> disabled, state |-> "none", conf |-> conf])
    /\ UNCHANGED <<auth, sched, reg, inFlight>>

StartToggle(t) ==
    /\ "toggle" \in Kinds /\ ops < MaxOps /\ auth # NoAuth
    /\ ops' = ops + 1
    /\ \E disabled \in BOOLEAN : Started(t, "toggle", [auth EXCEPT !.disabled = disabled])
    /\ UNCHANGED <<auth, sched, reg, inFlight>>

StartOther(t, op) ==
    /\ op \in Kinds /\ ops < MaxOps /\ auth # NoAuth
    /\ op = "remove" => ServiceFree
    /\ ops' = ops + 1
    /\ Started(t, op, NoAuth)
    /\ UNCHANGED <<auth, sched, reg, inFlight>>

(* A pick of the route that found neither this credential nor another      *)
(* that serves the model rebuilds the scheduler and picks again.           *)
StartResync(t) ==
    /\ ~Pickable /\ auth # NoAuth
    /\ Started(t, "resync", NoAuth)
    /\ UNCHANGED <<auth, sched, reg, inFlight, ops>>

-----------------------------------------------------------------------------
(* Changing the manager's record.                                          *)

(* In place: whoever holds the pointer sees the change.                    *)
Mutate(new) ==
    /\ auth' = new
    /\ sched' = IF sched.live THEN [sched EXCEPT !.auth = new] ELSE sched

Seeing(new) ==
    [u \in Tasks |-> IF task[u].live THEN [task[u] EXCEPT !.copy = new] ELSE task[u]]

(* A result is a success, or a quota error that takes the model out.       *)
Mark(t) ==
    /\ At(t, "mark")
    /\ \E state \in {"clean", "cooling"} :
          LET new == [auth EXCEPT !.state = state]
          IN /\ Mutate(new)
             /\ Continue(t, [Seeing(new) EXCEPT ![t].copy = new])
    /\ UNCHANGED <<reg, inFlight, ops>>

(* Both the service, from its copy, and the manager, from its record, hand *)
(* the model states down to a new content that has none.                   *)
Inherit(new, old) ==
    IF /\ old # NoAuth
       /\ ~old.disabled /\ ~new.disabled
       /\ new.state = "none"
    THEN [new EXCEPT !.state = old.state]
    ELSE new

Replacement(t) ==
    LET copy == task[t].copy
    IN CASE task[t].op = "update"  -> Inherit(task[t].target, copy)
         [] task[t].op = "remove"  -> [copy EXCEPT !.disabled = TRUE]
         [] task[t].op = "toggle"  -> [copy EXCEPT !.disabled = task[t].target.disabled]
         [] task[t].op = "refresh" -> copy

(* Manager.Register, for a credential that was not there when the service  *)
(* looked, and Manager.Update, up to the release of the mutex.             *)
Stored(t) ==
    IF task[t].copy = NoAuth THEN task[t].target ELSE Inherit(Replacement(t), auth)

\* Mutant: the scheduler is taken to hold the new object before it is given it.
StoreKeepingLive(t) ==
    /\ auth' = Stored(t)
    /\ Continue(t, [task EXCEPT ![t].copy = Stored(t), ![t].live = TRUE])
    /\ UNCHANGED <<sched, reg, inFlight, ops>>

Store(t) ==
    LET new == Stored(t)
    IN /\ auth' = new
       /\ sched' = [sched EXCEPT !.live = FALSE]
       /\ Continue(t, [u \in Tasks |-> IF u = t
                                       THEN [task[u] EXCEPT !.copy = new, !.live = TRUE]
                                       ELSE [task[u] EXCEPT !.live = FALSE]])
       /\ UNCHANGED <<reg, inFlight, ops>>

StoreCopy(t) == At(t, "store") /\ Store(t)

(* exec.Refresh has returned: nothing is checked again.                    *)
RefreshSucceeds(t) == At(t, "refreshed") /\ Store(t)

-----------------------------------------------------------------------------
(* Reading it.                                                             *)

Entry(content, live) ==
    IF content.disabled THEN NoEntry
    ELSE [entry     |-> TRUE,
          auth      |-> content,
          live      |-> live,
          supported |-> reg.bound,
          ready     |-> content.state # "cooling"]

(* The failure is recorded, and the entry refreshed, under the manager's   *)
(* mutex; a cancelled refresh does nothing.                                *)
RefreshFails(t) ==
    /\ At(t, "refreshed")
    /\ sched' = Entry(auth, FALSE)
    /\ Goto(t, task, <<>>)
    /\ UNCHANGED <<auth, reg, inFlight, ops>>

RefreshCancelled(t) ==
    /\ At(t, "refreshed")
    /\ Stop(t)
    /\ UNCHANGED <<auth, sched, reg, inFlight, ops>>

Read(t) ==
    /\ At(t, "read") \/ At(t, "snapshot")
    /\ Continue(t, [task EXCEPT ![t].copy = auth, ![t].live = FALSE])
    /\ UNCHANGED <<auth, sched, reg, inFlight, ops>>

(* The catalog callback passes over a disabled credential.                 *)
ReadEnabled(t) ==
    /\ At(t, "readEnabled")
    /\ IF auth.disabled THEN Stop(t) ELSE Continue(t, [task EXCEPT ![t].copy = auth])
    /\ UNCHANGED <<auth, sched, reg, inFlight, ops>>

(* latestAuthForModelRegistration: the registration is undone or done      *)
(* again.                                                                  *)
ReadLatest(t) ==
    /\ At(t, "readLatest")
    /\ Goto(t, [task EXCEPT ![t].copy = auth],
            IF auth.disabled THEN UnbindSteps ELSE ReapplySteps)
    /\ UNCHANGED <<auth, sched, reg, inFlight, ops>>

-----------------------------------------------------------------------------
(* Changing the registry and the scheduler.                                *)

(* The marks of a client go with its binding, and when it registers again; *)
(* an unbound client's are left.                                           *)
Unregistered == IF reg.bound
                THEN [bound |-> FALSE, quota |-> FALSE, suspended |-> FALSE]
                ELSE reg

Registered == IF reg.bound
              THEN [bound |-> TRUE, quota |-> FALSE, suspended |-> FALSE]
              ELSE [reg EXCEPT !.bound = TRUE]

(* registerModelsForAuth, with the content the task holds.                 *)
\* Mutant: the models of a disabled credential are registered too.
BindDisabled(t) ==
    /\ At(t, "bind")
    /\ reg' = Registered
    /\ Continue(t, task)
    /\ UNCHANGED <<auth, sched, inFlight, ops>>

Bind(t) ==
    /\ At(t, "bind")
    /\ reg' = IF task[t].copy.disabled THEN Unregistered ELSE Registered
    /\ Continue(t, task)
    /\ UNCHANGED <<auth, sched, inFlight, ops>>

Unbind(t) ==
    /\ At(t, "unbind")
    /\ reg' = Unregistered
    /\ Continue(t, task)
    /\ UNCHANGED <<auth, sched, inFlight, ops>>

(* ReconcileRegistryModelStates asks the registry before it takes the      *)
(* manager's mutex, and refreshes the entry only if it changed a state.    *)
ReadBound(t) ==
    /\ At(t, "readBound")
    /\ Continue(t, [task EXCEPT ![t].bound = reg.bound])
    /\ UNCHANGED <<auth, sched, reg, inFlight, ops>>

\* Mutant: a cooldown survives the registration.
ReconciledCooling(t) ==
    IF auth.state # "none" /\ ~task[t].bound THEN [auth EXCEPT !.state = "none"] ELSE auth

Reconciled(t) ==
    CASE auth.state = "none"    -> auth
      [] ~task[t].bound         -> [auth EXCEPT !.state = "none"]
      [] OTHER                  -> [auth EXCEPT !.state = "clean"]

Reconcile(t) ==
    LET new == Reconciled(t)
        rest == Tail(task[t].rest)
    IN /\ At(t, "reconcile")
       /\ Mutate(new)
       /\ IF new # auth
          THEN Goto(t, [Seeing(new) EXCEPT ![t].copy = new], rest)
          ELSE Goto(t, task, Tail(rest))       \* the upsert is skipped
       /\ UNCHANGED <<reg, inFlight, ops>>

(* scheduler.upsertAuth, with the object the task holds; the supported     *)
(* models are read from the registry then.                                 *)
Upsert(t) ==
    /\ At(t, "upsert")
    /\ sched' = Entry(task[t].copy, task[t].live)
    /\ Continue(t, [task EXCEPT ![t].live = FALSE])
    /\ UNCHANGED <<auth, reg, inFlight, ops>>

(* What MarkResult does after it released the mutex; the model's           *)
(* registration exists, through the other clients.                         *)
MarkQuota(t) ==
    /\ At(t, "quota")
    /\ reg' = [reg EXCEPT !.quota = task[t].copy.state = "cooling"]
    /\ Continue(t, task)
    /\ UNCHANGED <<auth, sched, inFlight, ops>>

MarkSuspended(t) ==
    /\ At(t, "suspend")
    /\ reg' = [reg EXCEPT !.suspended = task[t].copy.state = "cooling"]
    /\ Continue(t, task)
    /\ UNCHANGED <<auth, sched, inFlight, ops>>

-----------------------------------------------------------------------------
Step(t) ==
    \/ Mark(t) \/ StoreCopy(t)
    \/ RefreshSucceeds(t) \/ RefreshFails(t) \/ RefreshCancelled(t)
    \/ Read(t) \/ ReadEnabled(t) \/ ReadLatest(t)
    \/ Bind(t) \/ Unbind(t) \/ ReadBound(t) \/ Reconcile(t) \/ Upsert(t)
    \/ MarkQuota(t) \/ MarkSuspended(t)

Start(t) ==
    \/ StartResult(t) \/ StartUpdate(t) \/ StartToggle(t)
    \/ \E op \in {"remove", "refresh", "catalog"} : StartOther(t, op)

Next ==
    \/ Pick \/ Abandon
    \/ \E t \in Tasks : Start(t) \/ StartResync(t) \/ Step(t)

Spec == Init /\ [][Next]_vars

(* An operation that was started is executed to its end: its goroutine is  *)
(* scheduled.  Nothing is assumed of requests: while another credential    *)
(* serves the model no pick need ever fail, and no resynchronisation start.*)
Fairness == \A t \in Tasks : WF_vars(Step(t))

FairSpec == Spec /\ Fairness

-----------------------------------------------------------------------------
Quiet == Busy(task) = {}

(* An object that both the manager and somebody else hold has one content. *)
TypeOK ==
    /\ auth \in Auths \cup {NoAuth}
    /\ sched \in [entry : BOOLEAN, auth : Auths \cup {NoAuth}, live : BOOLEAN,
                  supported : BOOLEAN, ready : BOOLEAN]
    /\ reg \in [bound : BOOLEAN, quota : BOOLEAN, suspended : BOOLEAN]
    /\ \A t \in Tasks :
          /\ task[t].op \in Kinds \cup {"idle", "resync"}
          /\ task[t].copy \in Auths \cup {NoAuth}
          /\ task[t].live => task[t].copy = auth
    /\ sched.live => sched.auth = auth
    /\ inFlight \in 0 .. MaxInFlight
    /\ ops \in 0 .. MaxOps

InSync ==
    IF auth.disabled
    THEN ~sched.entry
    ELSE /\ sched.entry
         /\ sched.auth = auth
         /\ sched.supported = reg.bound
         /\ sched.ready = (auth.state # "cooling")

(* Whatever races left behind, the next operation that runs alone leaves   *)
(* the scheduler with what the manager and the registry hold: every        *)
(* operation ends with an upsert of what it finds, after its last change   *)
(* of the registry's binding.                                              *)
SchedulerRepaired == settled # None => InSync

(* Likewise for the registry: after a file was loaded, removed or          *)
(* registered anew by an operation that ran alone, the credential serves   *)
(* its model if and only if it is enabled.                                 *)
BindingRepaired ==
    settled \in {"update", "remove", "catalog"} => (reg.bound <=> ~auth.disabled)

(* A load or a registration that ran alone leaves no cooldown in the       *)
(* manager's record: the model would be offered by the registry, whose     *)
(* marks the registration cleared, and refused by the manager.             *)
CooldownReconciled ==
    settled \in {"update", "catalog"} /\ ~auth.disabled => auth.state # "cooling"

(* Requests for the model do not keep failing while the credential is      *)
(* enabled, registered and not cooling: if picks of the route fail as a    *)
(* whole again and again, each rebuilding the scheduler, then the entry an *)
(* interleaving of operations left behind does not keep the credential out *)
(* for good.                                                               *)
Usable == auth # NoAuth /\ ~auth.disabled /\ reg.bound /\ auth.state # "cooling"

Resynchronises == \E t \in Tasks : StartResync(t)

Heals == []<><<Resynchronises>>_vars => []<>(Pickable \/ ~Usable)

-----------------------------------------------------------------------------
(* What comments of the code say and the code does not do.                 *)

(* "Disabled indicates the auth is intentionally disabled by operator": a  *)
(* disabled credential is only enabled by one who stores it as enabled.    *)
EnabledByOperator ==
    [][auth # NoAuth /\ auth.disabled /\ ~auth'.disabled =>
          \E t \in Tasks : At(t, "store") /\ task'[t] # task[t]]_vars
=============================================================================
