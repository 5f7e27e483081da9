--------------------------- MODULE AuthSyncProofs ---------------------------
(***************************************************************************)
(* What an operation that runs alone leaves behind, for any number of      *)
(* goroutines, operations, requests and configurations.  The inductive     *)
(* invariant says how far each program is (Phase) and, for a task that has *)
(* run alone so far, what its completed steps have established.            *)
(***************************************************************************)
EXTENDS AuthSync, TLAPS

(* The programs from every step on.                                        *)
Final == <<"upsert">>
Result2 == <<"upsert", "quota", "suspend">>
Result3 == <<"quota", "suspend">>
Result4 == <<"suspend">>
Update2 == <<"store", "upsert", "bind", "readBound", "reconcile", "upsert",
             "snapshot", "upsert">>
Update3 == <<"upsert", "bind", "readBound", "reconcile", "upsert", "snapshot", "upsert">>
Reapply2 == <<"readBound", "reconcile", "upsert", "snapshot", "upsert">>
Reapply3 == <<"reconcile", "upsert", "snapshot", "upsert">>
Reapply4 == <<"upsert", "snapshot", "upsert">>
Toggle2 == <<"store", "upsert">>
Refresh2 == <<"refreshed", "upsert">>
Catalog2 == <<"bind", "readBound", "reconcile", "upsert", "readLatest">>
Catalog3 == <<"readBound", "reconcile", "upsert", "readLatest">>
Catalog4 == <<"reconcile", "upsert", "readLatest">>
Catalog5 == <<"upsert", "readLatest">>
Catalog6 == <<"readLatest">>

Rests == { <<>>, Final, ResultSteps, Result2, Result3, Result4,
           UpdateSteps, Update2, Update3, RemoveSteps, ToggleSteps, Toggle2,
           RefreshSteps, Refresh2, CatalogSteps, Catalog2, Catalog3, Catalog4,
           Catalog5, Catalog6, UnbindSteps,
           ReapplySteps, Reapply2, Reapply3, Reapply4, ResyncSteps }

MaybeAuth == Auths \cup {NoAuth}
TaskRecords ==
    [ op : Kinds \cup {"idle", "resync"}, rest : Rests, copy : MaybeAuth, live : BOOLEAN,
      bound : BOOLEAN, target : MaybeAuth, alone : BOOLEAN ]
Entries ==
    [ entry : BOOLEAN, auth : MaybeAuth, live : BOOLEAN, supported : BOOLEAN, ready : BOOLEAN ]
Marks == [bound : BOOLEAN, quota : BOOLEAN, suspended : BOOLEAN]

Types ==
    /\ auth \in MaybeAuth
    /\ sched \in Entries
    /\ reg \in Marks
    /\ task \in [Tasks -> TaskRecords]
    /\ inFlight \in 0 .. MaxInFlight
    /\ ops \in 0 .. MaxOps

Shared ==
    /\ sched.live => sched.auth = auth
    /\ \A t \in Tasks : task[t].live => task[t].copy = auth

(* Nothing happens to a credential before it is registered.                *)
Absent == auth = NoAuth => ~sched.entry /\ inFlight = 0

Bound == reg.bound <=> ~auth.disabled
Warm == ~auth.disabled => auth.state # "cooling"
Alone(t) == task[t].alone
Current(t) == Alone(t) => task[t].copy = auth

Registering(t) ==
    \/ task[t].rest \in {Reapply2, Reapply3} /\ (Alone(t) => Bound)
    \/ task[t].rest \in {Reapply4, ResyncSteps} /\ (Alone(t) => Bound /\ Warm)
    \/ task[t].rest = Final /\ (Alone(t) => Bound /\ Warm) /\ Current(t)

ResultPhase(t) ==
    /\ task[t].op = "result" /\ auth # NoAuth
    /\ \/ task[t].rest = ResultSteps
       \/ task[t].rest = Result2 /\ Current(t)
       \/ task[t].rest \in {Result3, Result4} /\ (Alone(t) => InSync)

UpdatePhase(t) ==
    /\ task[t].op = "update" /\ task[t].target \in Auths
    /\ \/ task[t].rest \in {UpdateSteps, Update2}
       \/ auth # NoAuth /\ task[t].rest \in {Update3, ReapplySteps} /\ Current(t)
       \/ auth # NoAuth /\ Registering(t)

RemovePhase(t) ==
    /\ task[t].op = "remove" /\ auth # NoAuth
    /\ \/ task[t].rest = RemoveSteps
       \/ task[t].rest = ToggleSteps /\ (Alone(t) => ~reg.bound)
       \/ task[t].rest = Toggle2 /\ task[t].copy \in Auths /\ (Alone(t) => ~reg.bound)
       \/ task[t].rest = Final /\ (Alone(t) => ~reg.bound /\ auth.disabled) /\ Current(t)

TogglePhase(t) ==
    /\ task[t].op = "toggle" /\ auth # NoAuth /\ task[t].target \in Auths
    /\ \/ task[t].rest = ToggleSteps
       \/ task[t].rest = Toggle2 /\ task[t].copy \in Auths
       \/ task[t].rest = Final /\ Current(t)

RefreshPhase(t) ==
    /\ task[t].op = "refresh" /\ auth # NoAuth
    /\ \/ task[t].rest = RefreshSteps
       \/ task[t].rest = Refresh2 /\ task[t].copy \in Auths
       \/ task[t].rest = Final /\ Current(t)

CatalogPhase(t) ==
    /\ task[t].op = "catalog" /\ auth # NoAuth
    /\ \/ task[t].rest \in {CatalogSteps, Catalog2, Catalog3, Catalog4, Catalog5, Catalog6}
       \/ task[t].rest = UnbindSteps /\ (Alone(t) => auth.disabled)
       \/ task[t].rest = ReapplySteps /\ Current(t)
       \/ Registering(t)

ResyncPhase(t) ==
    /\ task[t].op = "resync" /\ auth # NoAuth
    /\ \/ task[t].rest = ResyncSteps
       \/ task[t].rest = Final /\ Current(t)

IdlePhase(t) == task[t].op = "idle" /\ task[t].rest = <<>> /\ ~Alone(t)

Phase(t) ==
    \/ IdlePhase(t) \/ ResultPhase(t) \/ UpdatePhase(t) \/ RemovePhase(t) \/ TogglePhase(t)
    \/ RefreshPhase(t) \/ CatalogPhase(t) \/ ResyncPhase(t)

Solitary == \A t, u \in Tasks : Alone(t) /\ u # t => task[u].op = "idle"

Settled ==
    settled # None =>
        /\ \A t \in Tasks : task[t].op = "idle"
        /\ SchedulerRepaired /\ BindingRepaired /\ CooldownReconciled

IInv ==
    /\ Types /\ Shared /\ Absent
    /\ \A t \in Tasks : Phase(t)
    /\ Solitary /\ Settled

-----------------------------------------------------------------------------
(* Opaque to the provers, which know too much about sequences.            *)
First(r) == Head(r)
After(r) == Tail(r)

(* Every rest of a program: its first step and what follows.               *)
LEMMA RestFacts ==
    /\ Final # <<>> /\ First(Final) = "upsert" /\ After(Final) = <<>>
    /\ ResultSteps # <<>> /\ First(ResultSteps) = "mark" /\ After(ResultSteps) = Result2
    /\ Result2 # <<>> /\ First(Result2) = "upsert" /\ After(Result2) = Result3
    /\ Result3 # <<>> /\ First(Result3) = "quota" /\ After(Result3) = Result4
    /\ Result4 # <<>> /\ First(Result4) = "suspend" /\ After(Result4) = <<>>
    /\ UpdateSteps # <<>> /\ First(UpdateSteps) = "read" /\ After(UpdateSteps) = Update2
    /\ Update2 # <<>> /\ First(Update2) = "store" /\ After(Update2) = Update3
    /\ Update3 # <<>> /\ First(Update3) = "upsert" /\ After(Update3) = ReapplySteps
    /\ ReapplySteps # <<>> /\ First(ReapplySteps) = "bind" /\ After(ReapplySteps) = Reapply2
    /\ Reapply2 # <<>> /\ First(Reapply2) = "readBound" /\ After(Reapply2) = Reapply3
    /\ Reapply3 # <<>> /\ First(Reapply3) = "reconcile" /\ After(Reapply3) = Reapply4
    /\ Reapply4 # <<>> /\ First(Reapply4) = "upsert" /\ After(Reapply4) = ResyncSteps
    /\ ResyncSteps # <<>> /\ First(ResyncSteps) = "snapshot" /\ After(ResyncSteps) = Final
    /\ RemoveSteps # <<>> /\ First(RemoveSteps) = "unbind" /\ After(RemoveSteps) = ToggleSteps
    /\ ToggleSteps # <<>> /\ First(ToggleSteps) = "read" /\ After(ToggleSteps) = Toggle2
    /\ Toggle2 # <<>> /\ First(Toggle2) = "store" /\ After(Toggle2) = Final
    /\ RefreshSteps # <<>> /\ First(RefreshSteps) = "read" /\ After(RefreshSteps) = Refresh2
    /\ Refresh2 # <<>> /\ First(Refresh2) = "refreshed" /\ After(Refresh2) = Final
    /\ CatalogSteps # <<>> /\ First(CatalogSteps) = "readEnabled"
    /\ After(CatalogSteps) = Catalog2
    /\ Catalog2 # <<>> /\ First(Catalog2) = "bind" /\ After(Catalog2) = Catalog3
    /\ Catalog3 # <<>> /\ First(Catalog3) = "readBound" /\ After(Catalog3) = Catalog4
    /\ Catalog4 # <<>> /\ First(Catalog4) = "reconcile" /\ After(Catalog4) = Catalog5
    /\ Catalog5 # <<>> /\ First(Catalog5) = "upsert" /\ After(Catalog5) = Catalog6
    /\ Catalog6 # <<>> /\ First(Catalog6) = "readLatest" /\ After(Catalog6) = <<>>
    /\ UnbindSteps # <<>> /\ First(UnbindSteps) = "unbind" /\ After(UnbindSteps) = ResyncSteps
<1>1. Final # <<>> /\ First(Final) = "upsert" /\ After(Final) = <<>>
  BY DEF First, After, Final
<1>2. ResultSteps # <<>> /\ First(ResultSteps) = "mark" /\ After(ResultSteps) = Result2
  BY DEF First, After, ResultSteps, Result2
<1>3. Result2 # <<>> /\ First(Result2) = "upsert" /\ After(Result2) = Result3
  BY DEF First, After, Result2, Result3
<1>4. Result3 # <<>> /\ First(Result3) = "quota" /\ After(Result3) = Result4
  BY DEF First, After, Result3, Result4
<1>5. Result4 # <<>> /\ First(Result4) = "suspend" /\ After(Result4) = <<>>
  BY DEF First, After, Result4
<1>6. UpdateSteps # <<>> /\ First(UpdateSteps) = "read" /\ After(UpdateSteps) = Update2
  BY DEF First, After, UpdateSteps, Update2
<1>7. Update2 # <<>> /\ First(Update2) = "store" /\ After(Update2) = Update3
  BY DEF First, After, Update2, Update3
<1>8. Update3 # <<>> /\ First(Update3) = "upsert" /\ After(Update3) = ReapplySteps
  BY DEF First, After, Update3, ReapplySteps
<1>9. ReapplySteps # <<>> /\ First(ReapplySteps) = "bind" /\ After(ReapplySteps) = Reapply2
  BY DEF First, After, ReapplySteps, Reapply2
<1>10. Reapply2 # <<>> /\ First(Reapply2) = "readBound" /\ After(Reapply2) = Reapply3
  BY DEF First, After, Reapply2, Reapply3
<1>11. Reapply3 # <<>> /\ First(Reapply3) = "reconcile" /\ After(Reapply3) = Reapply4
  BY DEF First, After, Reapply3, Reapply4
<1>12. Reapply4 # <<>> /\ First(Reapply4) = "upsert" /\ After(Reapply4) = ResyncSteps
  BY DEF First, After, Reapply4, ResyncSteps
<1>13. ResyncSteps # <<>> /\ First(ResyncSteps) = "snapshot" /\ After(ResyncSteps) = Final
  BY DEF First, After, ResyncSteps, Final
<1>14. /\ RemoveSteps # <<>>
       /\ First(RemoveSteps) = "unbind"
       /\ After(RemoveSteps) = ToggleSteps
  BY DEF First, After, RemoveSteps, ToggleSteps
<1>15. ToggleSteps # <<>> /\ First(ToggleSteps) = "read" /\ After(ToggleSteps) = Toggle2
  BY DEF First, After, ToggleSteps, Toggle2
<1>16. Toggle2 # <<>> /\ First(Toggle2) = "store" /\ After(Toggle2) = Final
  BY DEF First, After, Toggle2, Final
<1>17. RefreshSteps # <<>> /\ First(RefreshSteps) = "read" /\ After(RefreshSteps) = Refresh2
  BY DEF First, After, RefreshSteps, Refresh2
<1>18. Refresh2 # <<>> /\ First(Refresh2) = "refreshed" /\ After(Refresh2) = Final
  BY DEF First, After, Refresh2, Final
<1>19. /\ CatalogSteps # <<>>
       /\ First(CatalogSteps) = "readEnabled"
       /\ After(CatalogSteps) = Catalog2
  BY DEF First, After, CatalogSteps, Catalog2
<1>20. Catalog2 # <<>> /\ First(Catalog2) = "bind" /\ After(Catalog2) = Catalog3
  BY DEF First, After, Catalog2, Catalog3
<1>21. Catalog3 # <<>> /\ First(Catalog3) = "readBound" /\ After(Catalog3) = Catalog4
  BY DEF First, After, Catalog3, Catalog4
<1>22. Catalog4 # <<>> /\ First(Catalog4) = "reconcile" /\ After(Catalog4) = Catalog5
  BY DEF First, After, Catalog4, Catalog5
<1>23. Catalog5 # <<>> /\ First(Catalog5) = "upsert" /\ After(Catalog5) = Catalog6
  BY DEF First, After, Catalog5, Catalog6
<1>24. Catalog6 # <<>> /\ First(Catalog6) = "readLatest" /\ After(Catalog6) = <<>>
  BY DEF First, After, Catalog6
<1>25. /\ UnbindSteps # <<>>
       /\ First(UnbindSteps) = "unbind"
       /\ After(UnbindSteps) = ResyncSteps
  BY DEF First, After, UnbindSteps, ResyncSteps
<1> QED
  BY <1>1, <1>2, <1>3, <1>4, <1>5, <1>6, <1>7, <1>8, <1>9, <1>10, <1>11,
     <1>12, <1>13, <1>14, <1>15, <1>16, <1>17, <1>18, <1>19, <1>20, <1>21, <1>22, <1>23, <1>24, <1>25

-----------------------------------------------------------------------------
(* A task's own next state after Goto.                                     *)
LEMMA Advanced ==
  ASSUME NEW tasks \in [Tasks -> TaskRecords], NEW t \in Tasks, NEW rest \in Rests, NEW next,
         next = [tasks EXCEPT ![t] = IF rest = <<>> THEN Idle ELSE [@ EXCEPT !.rest = rest]]
  PROVE  /\ next \in [Tasks -> TaskRecords]
         /\ \A u \in Tasks : u # t => next[u] = tasks[u]
         /\ rest = <<>> =>
               /\ next[t].op = "idle" /\ next[t].rest = <<>>
               /\ ~next[t].live /\ ~next[t].alone
         /\ rest # <<>> =>
               /\ next[t].op = tasks[t].op /\ next[t].rest = rest
               /\ next[t].copy = tasks[t].copy /\ next[t].live = tasks[t].live
               /\ next[t].bound = tasks[t].bound /\ next[t].target = tasks[t].target
               /\ next[t].alone = tasks[t].alone
<1>1. Idle \in TaskRecords
  BY DEF Idle, TaskRecords, Rests, MaybeAuth
<1>2. [tasks[t] EXCEPT !.rest = rest] \in TaskRecords
  BY DEF TaskRecords
<1>3. CASE rest = <<>>
  <2>1. next[t] = Idle
    BY <1>3
  <2> QED
    BY <1>1, <1>3, <2>1 DEF Idle
<1>4. CASE rest # <<>>
  <2>1. next[t] = [tasks[t] EXCEPT !.rest = rest]
    BY <1>4
  <2> QED
    BY <1>2, <1>4, <2>1 DEF TaskRecords
<1> QED
  BY <1>3, <1>4

(* The phase of a task that does not move and does not run alone any more. *)
LEMMA OtherPhase ==
  ASSUME NEW u \in Tasks, Phase(u),
         task'[u].op = task[u].op, task'[u].rest = task[u].rest,
         task'[u].target = task[u].target, ~task'[u].alone,
         task[u].copy \in Auths => task'[u].copy \in Auths,
         auth # NoAuth => auth' # NoAuth
  PROVE  Phase(u)'
<1>1. Registering(u) => Registering(u)'
  BY DEF Registering, Alone, Current
<1>2. CASE IdlePhase(u)
  BY <1>2 DEF Phase, IdlePhase, Alone
<1>3. CASE ResultPhase(u)
  BY <1>3 DEF Phase, ResultPhase, Alone, Current
<1>4. CASE UpdatePhase(u)
  BY <1>1, <1>4 DEF Phase, UpdatePhase, Alone, Current
<1>5. CASE RemovePhase(u)
  BY <1>5 DEF Phase, RemovePhase, Alone, Current
<1>6. CASE TogglePhase(u)
  BY <1>6 DEF Phase, TogglePhase, Alone, Current
<1>7. CASE RefreshPhase(u)
  BY <1>7 DEF Phase, RefreshPhase, Alone, Current
<1>8. CASE CatalogPhase(u)
  BY <1>1, <1>8 DEF Phase, CatalogPhase, Alone, Current
<1>9. CASE ResyncPhase(u)
  BY <1>9 DEF Phase, ResyncPhase, Alone, Current
<1> QED
  BY <1>2, <1>3, <1>4, <1>5, <1>6, <1>7, <1>8, <1>9 DEF Phase

LEMMA BusyRest ==
  ASSUME NEW t \in Tasks, Phase(t)
  PROVE  task[t].op = "idle" <=> task[t].rest = <<>>
<1>1. Registering(t) => task[t].rest \in {Reapply2, Reapply3, Reapply4, ResyncSteps, Final}
  BY DEF Registering
<1>2. Registering(t) => task[t].rest # <<>>
  BY <1>1, RestFacts
<1>3. CASE IdlePhase(t)
  BY <1>3 DEF IdlePhase
<1>4. CASE ResultPhase(t)
  BY <1>4, RestFacts DEF ResultPhase
<1>5. CASE UpdatePhase(t)
  <2>1. task[t].rest \in {UpdateSteps, Update2, Update3, ReapplySteps} \/ Registering(t)
    BY <1>5 DEF UpdatePhase
  <2> QED
    BY <1>2, <1>5, <2>1, RestFacts DEF UpdatePhase
<1>6. CASE RemovePhase(t)
  BY <1>6, RestFacts DEF RemovePhase
<1>7. CASE TogglePhase(t)
  BY <1>7, RestFacts DEF TogglePhase
<1>8. CASE RefreshPhase(t)
  BY <1>8, RestFacts DEF RefreshPhase
<1>9. CASE CatalogPhase(t)
  <2>1. \/ task[t].rest \in {CatalogSteps, Catalog2, Catalog3, Catalog4, Catalog5, Catalog6}
        \/ task[t].rest \in {UnbindSteps, ReapplySteps}
        \/ Registering(t)
    BY <1>9 DEF CatalogPhase
  <2> QED
    BY <1>2, <1>9, <2>1, RestFacts DEF CatalogPhase
<1>10. CASE ResyncPhase(t)
  BY <1>10, RestFacts DEF ResyncPhase
<1> QED
  BY <1>3, <1>4, <1>5, <1>6, <1>7, <1>8, <1>9, <1>10 DEF Phase

(* What a step of one task has to establish for the invariant.             *)
LEMMA Moved ==
  ASSUME IInv, NEW t \in Tasks, task[t].rest # <<>>,
         \A u \in Tasks : u # t =>
            /\ task'[u].op = task[u].op /\ task'[u].rest = task[u].rest
            /\ task'[u].target = task[u].target /\ task'[u].alone = task[u].alone
            /\ task[u].copy \in Auths => task'[u].copy \in Auths,
         auth # NoAuth => auth' # NoAuth,
         task'[t].alone => task[t].alone,
         Phase(t)',
         \/ settled' = settled
         \/ /\ Alone(t) /\ task'[t].op = "idle"
            /\ SchedulerRepaired' /\ BindingRepaired' /\ CooldownReconciled'
  PROVE  /\ \A u \in Tasks : Phase(u)'
         /\ Solitary'
         /\ Settled'
<1>1. task[t].op # "idle"
  BY BusyRest DEF IInv
<1>2. \A u \in Tasks : u # t => ~Alone(u)
  BY <1>1 DEF IInv, Solitary
<1>3. ASSUME NEW u \in Tasks, u # t PROVE Phase(u)'
  BY <1>2, <1>3, OtherPhase DEF IInv, Alone
<1>4. Solitary'
  BY <1>2 DEF IInv, Solitary, Alone
<1>5. settled = None
  BY <1>1 DEF IInv, Settled
<1>6. CASE settled' = settled
  BY <1>3, <1>4, <1>5, <1>6 DEF Settled
<1>7. CASE settled' # settled
  <2>1. \A u \in Tasks : task'[u].op = "idle"
    BY <1>7 DEF IInv, Solitary, Alone
  <2> QED
    BY <1>3, <1>4, <1>7, <2>1 DEF Settled
<1> QED
  BY <1>6, <1>7

-----------------------------------------------------------------------------
(* Where a task is, by its next step.                                      *)
LEMMA AtUpsert ==
  ASSUME IInv, NEW t \in Tasks, At(t, "upsert")
  PROVE  /\ auth # NoAuth
         /\ \/ /\ task[t].op = "result"
               /\ task[t].rest = Result2 /\ After(task[t].rest) = Result3
               /\ Current(t)
            \/ /\ task[t].op = "update" /\ task[t].target \in Auths
               /\ \/ task[t].rest = Update3 /\ After(task[t].rest) = ReapplySteps /\ Current(t)
                  \/ task[t].rest = Reapply4 /\ After(task[t].rest) = ResyncSteps /\ (Alone(t) => Bound /\ Warm)
                  \/ task[t].rest = Final /\ After(task[t].rest) = <<>> /\ Current(t) /\ (Alone(t) => Bound /\ Warm)
            \/ /\ task[t].op = "remove"
               /\ task[t].rest = Final /\ After(task[t].rest) = <<>>
               /\ Current(t) /\ (Alone(t) => ~reg.bound /\ auth.disabled)
            \/ /\ task[t].op \in {"toggle", "refresh", "resync"}
               /\ task[t].rest = Final /\ After(task[t].rest) = <<>>
               /\ Current(t)
            \/ /\ task[t].op = "catalog"
               /\ \/ task[t].rest = Catalog5 /\ After(task[t].rest) = Catalog6
                  \/ task[t].rest = Reapply4 /\ After(task[t].rest) = ResyncSteps /\ (Alone(t) => Bound /\ Warm)
                  \/ task[t].rest = Final /\ After(task[t].rest) = <<>> /\ Current(t) /\ (Alone(t) => Bound /\ Warm)
<1>1. First(task[t].rest) = "upsert" /\ task[t].rest # <<>> /\ Phase(t)
  BY DEF At, First, IInv
<1>2. CASE IdlePhase(t)
  BY <1>1, <1>2 DEF IdlePhase
<1>3. CASE ResultPhase(t)
  BY <1>1, <1>3, RestFacts DEF ResultPhase
<1>4. CASE UpdatePhase(t)
  BY <1>1, <1>4, RestFacts DEF UpdatePhase, Registering
<1>5. CASE RemovePhase(t)
  BY <1>1, <1>5, RestFacts DEF RemovePhase
<1>6. CASE TogglePhase(t)
  BY <1>1, <1>6, RestFacts DEF TogglePhase
<1>7. CASE RefreshPhase(t)
  BY <1>1, <1>7, RestFacts DEF RefreshPhase
<1>8. CASE CatalogPhase(t)
  BY <1>1, <1>8, RestFacts DEF CatalogPhase, Registering
<1>9. CASE ResyncPhase(t)
  BY <1>1, <1>9, RestFacts DEF ResyncPhase
<1> QED
  BY <1>1, <1>2, <1>3, <1>4, <1>5, <1>6, <1>7, <1>8, <1>9 DEF Phase

LEMMA AtMark ==
  ASSUME IInv, NEW t \in Tasks, At(t, "mark")
  PROVE  /\ auth # NoAuth
         /\ task[t].op = "result"
         /\ task[t].rest = ResultSteps /\ After(task[t].rest) = Result2
<1>1. First(task[t].rest) = "mark" /\ task[t].rest # <<>> /\ Phase(t)
  BY DEF At, First, IInv
<1>2. CASE IdlePhase(t)
  BY <1>1, <1>2 DEF IdlePhase
<1>3. CASE ResultPhase(t)
  BY <1>1, <1>3, RestFacts DEF ResultPhase
<1>4. CASE UpdatePhase(t)
  BY <1>1, <1>4, RestFacts DEF UpdatePhase, Registering
<1>5. CASE RemovePhase(t)
  BY <1>1, <1>5, RestFacts DEF RemovePhase
<1>6. CASE TogglePhase(t)
  BY <1>1, <1>6, RestFacts DEF TogglePhase
<1>7. CASE RefreshPhase(t)
  BY <1>1, <1>7, RestFacts DEF RefreshPhase
<1>8. CASE CatalogPhase(t)
  BY <1>1, <1>8, RestFacts DEF CatalogPhase, Registering
<1>9. CASE ResyncPhase(t)
  BY <1>1, <1>9, RestFacts DEF ResyncPhase
<1> QED
  BY <1>1, <1>2, <1>3, <1>4, <1>5, <1>6, <1>7, <1>8, <1>9 DEF Phase

LEMMA AtQuota ==
  ASSUME IInv, NEW t \in Tasks, At(t, "quota")
  PROVE  /\ auth # NoAuth
         /\ task[t].op = "result"
         /\ task[t].rest = Result3 /\ After(task[t].rest) = Result4
         /\ (Alone(t) => InSync)
<1>1. First(task[t].rest) = "quota" /\ task[t].rest # <<>> /\ Phase(t)
  BY DEF At, First, IInv
<1>2. CASE IdlePhase(t)
  BY <1>1, <1>2 DEF IdlePhase
<1>3. CASE ResultPhase(t)
  BY <1>1, <1>3, RestFacts DEF ResultPhase
<1>4. CASE UpdatePhase(t)
  BY <1>1, <1>4, RestFacts DEF UpdatePhase, Registering
<1>5. CASE RemovePhase(t)
  BY <1>1, <1>5, RestFacts DEF RemovePhase
<1>6. CASE TogglePhase(t)
  BY <1>1, <1>6, RestFacts DEF TogglePhase
<1>7. CASE RefreshPhase(t)
  BY <1>1, <1>7, RestFacts DEF RefreshPhase
<1>8. CASE CatalogPhase(t)
  BY <1>1, <1>8, RestFacts DEF CatalogPhase, Registering
<1>9. CASE ResyncPhase(t)
  BY <1>1, <1>9, RestFacts DEF ResyncPhase
<1> QED
  BY <1>1, <1>2, <1>3, <1>4, <1>5, <1>6, <1>7, <1>8, <1>9 DEF Phase

LEMMA AtSuspend ==
  ASSUME IInv, NEW t \in Tasks, At(t, "suspend")
  PROVE  /\ auth # NoAuth
         /\ task[t].op = "result"
         /\ task[t].rest = Result4 /\ After(task[t].rest) = <<>>
         /\ (Alone(t) => InSync)
<1>1. First(task[t].rest) = "suspend" /\ task[t].rest # <<>> /\ Phase(t)
  BY DEF At, First, IInv
<1>2. CASE IdlePhase(t)
  BY <1>1, <1>2 DEF IdlePhase
<1>3. CASE ResultPhase(t)
  BY <1>1, <1>3, RestFacts DEF ResultPhase
<1>4. CASE UpdatePhase(t)
  BY <1>1, <1>4, RestFacts DEF UpdatePhase, Registering
<1>5. CASE RemovePhase(t)
  BY <1>1, <1>5, RestFacts DEF RemovePhase
<1>6. CASE TogglePhase(t)
  BY <1>1, <1>6, RestFacts DEF TogglePhase
<1>7. CASE RefreshPhase(t)
  BY <1>1, <1>7, RestFacts DEF RefreshPhase
<1>8. CASE CatalogPhase(t)
  BY <1>1, <1>8, RestFacts DEF CatalogPhase, Registering
<1>9. CASE ResyncPhase(t)
  BY <1>1, <1>9, RestFacts DEF ResyncPhase
<1> QED
  BY <1>1, <1>2, <1>3, <1>4, <1>5, <1>6, <1>7, <1>8, <1>9 DEF Phase

LEMMA AtUnbind ==
  ASSUME IInv, NEW t \in Tasks, At(t, "unbind")
  PROVE  /\ auth # NoAuth
         /\ \/ /\ task[t].op = "remove"
               /\ task[t].rest = RemoveSteps /\ After(task[t].rest) = ToggleSteps
            \/ /\ task[t].op = "catalog"
               /\ task[t].rest = UnbindSteps /\ After(task[t].rest) = ResyncSteps
               /\ (Alone(t) => auth.disabled)
<1>1. First(task[t].rest) = "unbind" /\ task[t].rest # <<>> /\ Phase(t)
  BY DEF At, First, IInv
<1>2. CASE IdlePhase(t)
  BY <1>1, <1>2 DEF IdlePhase
<1>3. CASE ResultPhase(t)
  BY <1>1, <1>3, RestFacts DEF ResultPhase
<1>4. CASE UpdatePhase(t)
  BY <1>1, <1>4, RestFacts DEF UpdatePhase, Registering
<1>5. CASE RemovePhase(t)
  BY <1>1, <1>5, RestFacts DEF RemovePhase
<1>6. CASE TogglePhase(t)
  BY <1>1, <1>6, RestFacts DEF TogglePhase
<1>7. CASE RefreshPhase(t)
  BY <1>1, <1>7, RestFacts DEF RefreshPhase
<1>8. CASE CatalogPhase(t)
  BY <1>1, <1>8, RestFacts DEF CatalogPhase, Registering
<1>9. CASE ResyncPhase(t)
  BY <1>1, <1>9, RestFacts DEF ResyncPhase
<1> QED
  BY <1>1, <1>2, <1>3, <1>4, <1>5, <1>6, <1>7, <1>8, <1>9 DEF Phase

LEMMA AtBind ==
  ASSUME IInv, NEW t \in Tasks, At(t, "bind")
  PROVE  /\ auth # NoAuth
         /\ \/ /\ task[t].op = "update" /\ task[t].target \in Auths
               /\ task[t].rest = ReapplySteps /\ After(task[t].rest) = Reapply2
               /\ Current(t)
            \/ /\ task[t].op = "catalog"
               /\ \/ task[t].rest = Catalog2 /\ After(task[t].rest) = Catalog3
                  \/ task[t].rest = ReapplySteps /\ After(task[t].rest) = Reapply2 /\ Current(t)
<1>1. First(task[t].rest) = "bind" /\ task[t].rest # <<>> /\ Phase(t)
  BY DEF At, First, IInv
<1>2. CASE IdlePhase(t)
  BY <1>1, <1>2 DEF IdlePhase
<1>3. CASE ResultPhase(t)
  BY <1>1, <1>3, RestFacts DEF ResultPhase
<1>4. CASE UpdatePhase(t)
  BY <1>1, <1>4, RestFacts DEF UpdatePhase, Registering
<1>5. CASE RemovePhase(t)
  BY <1>1, <1>5, RestFacts DEF RemovePhase
<1>6. CASE TogglePhase(t)
  BY <1>1, <1>6, RestFacts DEF TogglePhase
<1>7. CASE RefreshPhase(t)
  BY <1>1, <1>7, RestFacts DEF RefreshPhase
<1>8. CASE CatalogPhase(t)
  BY <1>1, <1>8, RestFacts DEF CatalogPhase, Registering
<1>9. CASE ResyncPhase(t)
  BY <1>1, <1>9, RestFacts DEF ResyncPhase
<1> QED
  BY <1>1, <1>2, <1>3, <1>4, <1>5, <1>6, <1>7, <1>8, <1>9 DEF Phase

LEMMA AtReadBound ==
  ASSUME IInv, NEW t \in Tasks, At(t, "readBound")
  PROVE  /\ auth # NoAuth
         /\ \/ /\ task[t].op = "update" /\ task[t].target \in Auths
               /\ task[t].rest = Reapply2 /\ After(task[t].rest) = Reapply3
               /\ (Alone(t) => Bound)
            \/ /\ task[t].op = "catalog"
               /\ \/ task[t].rest = Catalog3 /\ After(task[t].rest) = Catalog4
                  \/ task[t].rest = Reapply2 /\ After(task[t].rest) = Reapply3 /\ (Alone(t) => Bound)
<1>1. First(task[t].rest) = "readBound" /\ task[t].rest # <<>> /\ Phase(t)
  BY DEF At, First, IInv
<1>2. CASE IdlePhase(t)
  BY <1>1, <1>2 DEF IdlePhase
<1>3. CASE ResultPhase(t)
  BY <1>1, <1>3, RestFacts DEF ResultPhase
<1>4. CASE UpdatePhase(t)
  BY <1>1, <1>4, RestFacts DEF UpdatePhase, Registering
<1>5. CASE RemovePhase(t)
  BY <1>1, <1>5, RestFacts DEF RemovePhase
<1>6. CASE TogglePhase(t)
  BY <1>1, <1>6, RestFacts DEF TogglePhase
<1>7. CASE RefreshPhase(t)
  BY <1>1, <1>7, RestFacts DEF RefreshPhase
<1>8. CASE CatalogPhase(t)
  BY <1>1, <1>8, RestFacts DEF CatalogPhase, Registering
<1>9. CASE ResyncPhase(t)
  BY <1>1, <1>9, RestFacts DEF ResyncPhase
<1> QED
  BY <1>1, <1>2, <1>3, <1>4, <1>5, <1>6, <1>7, <1>8, <1>9 DEF Phase

LEMMA AtReconcile ==
  ASSUME IInv, NEW t \in Tasks, At(t, "reconcile")
  PROVE  /\ auth # NoAuth
         /\ \/ /\ task[t].op = "update" /\ task[t].target \in Auths
               /\ task[t].rest = Reapply3 /\ After(task[t].rest) = Reapply4
               /\ (Alone(t) => Bound)
            \/ /\ task[t].op = "catalog"
               /\ \/ task[t].rest = Catalog4 /\ After(task[t].rest) = Catalog5
                  \/ task[t].rest = Reapply3 /\ After(task[t].rest) = Reapply4 /\ (Alone(t) => Bound)
<1>1. First(task[t].rest) = "reconcile" /\ task[t].rest # <<>> /\ Phase(t)
  BY DEF At, First, IInv
<1>2. CASE IdlePhase(t)
  BY <1>1, <1>2 DEF IdlePhase
<1>3. CASE ResultPhase(t)
  BY <1>1, <1>3, RestFacts DEF ResultPhase
<1>4. CASE UpdatePhase(t)
  BY <1>1, <1>4, RestFacts DEF UpdatePhase, Registering
<1>5. CASE RemovePhase(t)
  BY <1>1, <1>5, RestFacts DEF RemovePhase
<1>6. CASE TogglePhase(t)
  BY <1>1, <1>6, RestFacts DEF TogglePhase
<1>7. CASE RefreshPhase(t)
  BY <1>1, <1>7, RestFacts DEF RefreshPhase
<1>8. CASE CatalogPhase(t)
  BY <1>1, <1>8, RestFacts DEF CatalogPhase, Registering
<1>9. CASE ResyncPhase(t)
  BY <1>1, <1>9, RestFacts DEF ResyncPhase
<1> QED
  BY <1>1, <1>2, <1>3, <1>4, <1>5, <1>6, <1>7, <1>8, <1>9 DEF Phase

LEMMA AtReadEnabled ==
  ASSUME IInv, NEW t \in Tasks, At(t, "readEnabled")
  PROVE  /\ auth # NoAuth
         /\ task[t].op = "catalog"
         /\ task[t].rest = CatalogSteps /\ After(task[t].rest) = Catalog2
<1>1. First(task[t].rest) = "readEnabled" /\ task[t].rest # <<>> /\ Phase(t)
  BY DEF At, First, IInv
<1>2. CASE IdlePhase(t)
  BY <1>1, <1>2 DEF IdlePhase
<1>3. CASE ResultPhase(t)
  BY <1>1, <1>3, RestFacts DEF ResultPhase
<1>4. CASE UpdatePhase(t)
  BY <1>1, <1>4, RestFacts DEF UpdatePhase, Registering
<1>5. CASE RemovePhase(t)
  BY <1>1, <1>5, RestFacts DEF RemovePhase
<1>6. CASE TogglePhase(t)
  BY <1>1, <1>6, RestFacts DEF TogglePhase
<1>7. CASE RefreshPhase(t)
  BY <1>1, <1>7, RestFacts DEF RefreshPhase
<1>8. CASE CatalogPhase(t)
  BY <1>1, <1>8, RestFacts DEF CatalogPhase, Registering
<1>9. CASE ResyncPhase(t)
  BY <1>1, <1>9, RestFacts DEF ResyncPhase
<1> QED
  BY <1>1, <1>2, <1>3, <1>4, <1>5, <1>6, <1>7, <1>8, <1>9 DEF Phase

LEMMA AtReadLatest ==
  ASSUME IInv, NEW t \in Tasks, At(t, "readLatest")
  PROVE  /\ auth # NoAuth
         /\ task[t].op = "catalog"
         /\ task[t].rest = Catalog6 /\ After(task[t].rest) = <<>>
<1>1. First(task[t].rest) = "readLatest" /\ task[t].rest # <<>> /\ Phase(t)
  BY DEF At, First, IInv
<1>2. CASE IdlePhase(t)
  BY <1>1, <1>2 DEF IdlePhase
<1>3. CASE ResultPhase(t)
  BY <1>1, <1>3, RestFacts DEF ResultPhase
<1>4. CASE UpdatePhase(t)
  BY <1>1, <1>4, RestFacts DEF UpdatePhase, Registering
<1>5. CASE RemovePhase(t)
  BY <1>1, <1>5, RestFacts DEF RemovePhase
<1>6. CASE TogglePhase(t)
  BY <1>1, <1>6, RestFacts DEF TogglePhase
<1>7. CASE RefreshPhase(t)
  BY <1>1, <1>7, RestFacts DEF RefreshPhase
<1>8. CASE CatalogPhase(t)
  BY <1>1, <1>8, RestFacts DEF CatalogPhase, Registering
<1>9. CASE ResyncPhase(t)
  BY <1>1, <1>9, RestFacts DEF ResyncPhase
<1> QED
  BY <1>1, <1>2, <1>3, <1>4, <1>5, <1>6, <1>7, <1>8, <1>9 DEF Phase

LEMMA AtRefreshed ==
  ASSUME IInv, NEW t \in Tasks, At(t, "refreshed")
  PROVE  /\ auth # NoAuth
         /\ task[t].op = "refresh"
         /\ task[t].rest = Refresh2 /\ After(task[t].rest) = Final
         /\ task[t].copy \in Auths
<1>1. First(task[t].rest) = "refreshed" /\ task[t].rest # <<>> /\ Phase(t)
  BY DEF At, First, IInv
<1>2. CASE IdlePhase(t)
  BY <1>1, <1>2 DEF IdlePhase
<1>3. CASE ResultPhase(t)
  BY <1>1, <1>3, RestFacts DEF ResultPhase
<1>4. CASE UpdatePhase(t)
  BY <1>1, <1>4, RestFacts DEF UpdatePhase, Registering
<1>5. CASE RemovePhase(t)
  BY <1>1, <1>5, RestFacts DEF RemovePhase
<1>6. CASE TogglePhase(t)
  BY <1>1, <1>6, RestFacts DEF TogglePhase
<1>7. CASE RefreshPhase(t)
  BY <1>1, <1>7, RestFacts DEF RefreshPhase
<1>8. CASE CatalogPhase(t)
  BY <1>1, <1>8, RestFacts DEF CatalogPhase, Registering
<1>9. CASE ResyncPhase(t)
  BY <1>1, <1>9, RestFacts DEF ResyncPhase
<1> QED
  BY <1>1, <1>2, <1>3, <1>4, <1>5, <1>6, <1>7, <1>8, <1>9 DEF Phase

LEMMA AtSnapshot ==
  ASSUME IInv, NEW t \in Tasks, At(t, "snapshot")
  PROVE  /\ auth # NoAuth
         /\ \/ /\ task[t].op = "update" /\ task[t].target \in Auths
               /\ task[t].rest = ResyncSteps /\ After(task[t].rest) = Final
               /\ (Alone(t) => Bound /\ Warm)
            \/ /\ task[t].op = "catalog"
               /\ task[t].rest = ResyncSteps /\ After(task[t].rest) = Final
               /\ (Alone(t) => Bound /\ Warm)
            \/ /\ task[t].op = "resync"
               /\ task[t].rest = ResyncSteps /\ After(task[t].rest) = Final
<1>1. First(task[t].rest) = "snapshot" /\ task[t].rest # <<>> /\ Phase(t)
  BY DEF At, First, IInv
<1>2. CASE IdlePhase(t)
  BY <1>1, <1>2 DEF IdlePhase
<1>3. CASE ResultPhase(t)
  BY <1>1, <1>3, RestFacts DEF ResultPhase
<1>4. CASE UpdatePhase(t)
  BY <1>1, <1>4, RestFacts DEF UpdatePhase, Registering
<1>5. CASE RemovePhase(t)
  BY <1>1, <1>5, RestFacts DEF RemovePhase
<1>6. CASE TogglePhase(t)
  BY <1>1, <1>6, RestFacts DEF TogglePhase
<1>7. CASE RefreshPhase(t)
  BY <1>1, <1>7, RestFacts DEF RefreshPhase
<1>8. CASE CatalogPhase(t)
  BY <1>1, <1>8, RestFacts DEF CatalogPhase, Registering
<1>9. CASE ResyncPhase(t)
  BY <1>1, <1>9, RestFacts DEF ResyncPhase
<1> QED
  BY <1>1, <1>2, <1>3, <1>4, <1>5, <1>6, <1>7, <1>8, <1>9 DEF Phase

LEMMA AtStore ==
  ASSUME IInv, NEW t \in Tasks, At(t, "store")
  PROVE  \/ /\ task[t].op = "update" /\ task[t].target \in Auths
            /\ task[t].rest = Update2 /\ After(task[t].rest) = Update3
         \/ /\ task[t].op = "remove" /\ auth # NoAuth
            /\ task[t].rest = Toggle2 /\ After(task[t].rest) = Final
            /\ task[t].copy \in Auths /\ (Alone(t) => ~reg.bound)
         \/ /\ task[t].op = "toggle" /\ auth # NoAuth
            /\ task[t].rest = Toggle2 /\ After(task[t].rest) = Final
            /\ task[t].copy \in Auths /\ task[t].target \in Auths
<1>1. First(task[t].rest) = "store" /\ task[t].rest # <<>> /\ Phase(t)
  BY DEF At, First, IInv
<1>2. CASE IdlePhase(t)
  BY <1>1, <1>2 DEF IdlePhase
<1>3. CASE ResultPhase(t)
  BY <1>1, <1>3, RestFacts DEF ResultPhase
<1>4. CASE UpdatePhase(t)
  BY <1>1, <1>4, RestFacts DEF UpdatePhase, Registering
<1>5. CASE RemovePhase(t)
  BY <1>1, <1>5, RestFacts DEF RemovePhase
<1>6. CASE TogglePhase(t)
  BY <1>1, <1>6, RestFacts DEF TogglePhase
<1>7. CASE RefreshPhase(t)
  BY <1>1, <1>7, RestFacts DEF RefreshPhase
<1>8. CASE CatalogPhase(t)
  BY <1>1, <1>8, RestFacts DEF CatalogPhase, Registering
<1>9. CASE ResyncPhase(t)
  BY <1>1, <1>9, RestFacts DEF ResyncPhase
<1> QED
  BY <1>1, <1>2, <1>3, <1>4, <1>5, <1>6, <1>7, <1>8, <1>9 DEF Phase

LEMMA AtRead ==
  ASSUME IInv, NEW t \in Tasks, At(t, "read")
  PROVE  \/ /\ task[t].op = "update" /\ task[t].target \in Auths
            /\ task[t].rest = UpdateSteps /\ After(task[t].rest) = Update2
         \/ /\ task[t].op = "remove" /\ auth # NoAuth
            /\ task[t].rest = ToggleSteps /\ After(task[t].rest) = Toggle2
            /\ (Alone(t) => ~reg.bound)
         \/ /\ task[t].op = "toggle" /\ auth # NoAuth
            /\ task[t].rest = ToggleSteps /\ After(task[t].rest) = Toggle2
            /\ task[t].target \in Auths
         \/ /\ task[t].op = "refresh" /\ auth # NoAuth
            /\ task[t].rest = RefreshSteps /\ After(task[t].rest) = Refresh2
<1>1. First(task[t].rest) = "read" /\ task[t].rest # <<>> /\ Phase(t)
  BY DEF At, First, IInv
<1>2. CASE IdlePhase(t)
  BY <1>1, <1>2 DEF IdlePhase
<1>3. CASE ResultPhase(t)
  BY <1>1, <1>3, RestFacts DEF ResultPhase
<1>4. CASE UpdatePhase(t)
  BY <1>1, <1>4, RestFacts DEF UpdatePhase, Registering
<1>5. CASE RemovePhase(t)
  BY <1>1, <1>5, RestFacts DEF RemovePhase
<1>6. CASE TogglePhase(t)
  BY <1>1, <1>6, RestFacts DEF TogglePhase
<1>7. CASE RefreshPhase(t)
  BY <1>1, <1>7, RestFacts DEF RefreshPhase
<1>8. CASE CatalogPhase(t)
  BY <1>1, <1>8, RestFacts DEF CatalogPhase, Registering
<1>9. CASE ResyncPhase(t)
  BY <1>1, <1>9, RestFacts DEF ResyncPhase
<1> QED
  BY <1>1, <1>2, <1>3, <1>4, <1>5, <1>6, <1>7, <1>8, <1>9 DEF Phase

-----------------------------------------------------------------------------
(* The steps, one lemma each.                                              *)
LEMMA UpsertStep == ASSUME IInv, NEW t \in Tasks, Upsert(t) PROVE IInv'
<1> DEFINE rest == After(task[t].rest)
           moved == [task EXCEPT ![t].live = FALSE]
<1>1. At(t, "upsert")
  BY DEF Upsert
<1>2. rest \in Rests /\ task[t].rest # <<>> /\ auth # NoAuth
  BY <1>1, AtUpsert DEF At, Rests
<1>3. moved \in [Tasks -> TaskRecords]
  BY DEF IInv, Types, TaskRecords
<1>4. /\ task' = [moved EXCEPT ![t] = IF rest = <<>> THEN Idle ELSE [@ EXCEPT !.rest = rest]]
      /\ settled' = IF rest = <<>> /\ Alone(t) THEN task[t].op ELSE settled
  BY DEF IInv, Types, TaskRecords, Upsert, Continue, Goto, After, Alone
<1>5. /\ sched' = Entry(task[t].copy, task[t].live)
      /\ UNCHANGED <<auth, reg, inFlight, ops>>
  BY DEF Upsert
<1> HIDE DEF moved
<1>6. /\ task' \in [Tasks -> TaskRecords]
      /\ \A u \in Tasks : u # t => task'[u] = moved[u]
      /\ rest = <<>> =>
            /\ task'[t].op = "idle" /\ task'[t].rest = <<>>
            /\ ~task'[t].live /\ ~task'[t].alone
      /\ rest # <<>> =>
            /\ task'[t].op = moved[t].op /\ task'[t].rest = rest
            /\ task'[t].copy = moved[t].copy /\ task'[t].live = moved[t].live
            /\ task'[t].target = moved[t].target /\ task'[t].alone = moved[t].alone
  BY <1>2, <1>3, <1>4, Advanced
<1>7. /\ \A u \in Tasks : u # t => moved[u] = task[u]
      /\ moved[t].op = task[t].op /\ moved[t].copy = task[t].copy /\ ~moved[t].live
      /\ moved[t].target = task[t].target /\ moved[t].alone = task[t].alone
  BY DEF IInv, Types, TaskRecords, moved
<1>8. Types'
  BY <1>5, <1>6, <1>7 DEF IInv, Types, Entry, NoEntry, Entries, TaskRecords, MaybeAuth, Marks
<1>9. Shared' /\ Absent'
  BY <1>2, <1>5, <1>6, <1>7 DEF IInv, Shared, Absent, Entry, NoEntry
<1>10. Current(t) /\ Alone(t) => InSync'
  BY <1>5 DEF Current, InSync, Entry, NoEntry
<1>11. Phase(t)'
  <2>1. CASE rest = <<>>
    BY <1>6, <1>7, <2>1 DEF Phase, IdlePhase, Alone
  <2>2. CASE rest # <<>>
    <3>1. (Alone(t) <=> Alone(t)') /\ (Bound => Bound') /\ (Warm => Warm')
          /\ (Current(t) => Current(t)')
      BY <1>5, <1>6, <1>7, <2>2 DEF Alone, Bound, Warm, Current
    <3> QED
      BY <1>1, <1>2, <1>5, <1>6, <1>7, <1>10, <2>2, <3>1, AtUpsert
      DEF Phase, ResultPhase, UpdatePhase, CatalogPhase, Registering
  <2> QED
    BY <2>1, <2>2
<1>12. \/ settled' = settled
       \/ /\ Alone(t) /\ task'[t].op = "idle"
          /\ SchedulerRepaired' /\ BindingRepaired' /\ CooldownReconciled'
  <2>1. CASE rest = <<>> /\ Alone(t)
    <3>1. Current(t) /\ settled' = task[t].op
      BY <1>1, <1>4, <2>1, RestFacts, AtUpsert
    <3>2. SchedulerRepaired'
      BY <1>10, <2>1, <3>1 DEF SchedulerRepaired
    <3>3. BindingRepaired'
      BY <1>1, <1>5, <2>1, <3>1, RestFacts, AtUpsert DEF BindingRepaired, Bound
    <3>4. CooldownReconciled'
      BY <1>1, <1>5, <2>1, <3>1, RestFacts, AtUpsert DEF CooldownReconciled, Warm
    <3> QED
      BY <1>6, <1>7, <2>1, <3>2, <3>3, <3>4
  <2>2. CASE ~(rest = <<>> /\ Alone(t))
    BY <1>4, <2>2
  <2> QED
    BY <2>1, <2>2
<1>13. task'[t].alone => task[t].alone
  BY <1>6, <1>7
<1> QED
  BY <1>2, <1>5, <1>6, <1>7, <1>8, <1>9, <1>11, <1>12, <1>13, Moved DEF IInv

LEMMA MarkQuotaStep == ASSUME IInv, NEW t \in Tasks, MarkQuota(t) PROVE IInv'
<1> DEFINE rest == After(task[t].rest)
           moved == task
<1>1. At(t, "quota")
  BY DEF MarkQuota
<1>2. rest \in Rests /\ rest # <<>> /\ task[t].rest # <<>> /\ auth # NoAuth
  BY <1>1, AtQuota, RestFacts DEF At, Rests
<1>3. moved \in [Tasks -> TaskRecords]
  BY DEF IInv, Types, TaskRecords
<1>4. /\ task' = [moved EXCEPT ![t] = IF rest = <<>> THEN Idle ELSE [@ EXCEPT !.rest = rest]]
      /\ settled' = settled
  BY <1>2 DEF IInv, Types, TaskRecords, MarkQuota, Continue, Goto, After
<1>5. /\ reg' \in Marks /\ reg'.bound = reg.bound
      /\ UNCHANGED <<auth, sched, inFlight, ops>>
  BY DEF IInv, Types, Marks, MarkQuota
<1> HIDE DEF moved
<1>6. /\ task' \in [Tasks -> TaskRecords]
      /\ \A u \in Tasks : u # t => task'[u] = moved[u]
      /\ task'[t].op = moved[t].op /\ task'[t].rest = rest
      /\ task'[t].copy = moved[t].copy /\ task'[t].live = moved[t].live
      /\ task'[t].target = moved[t].target /\ task'[t].alone = moved[t].alone
  BY <1>2, <1>3, <1>4, Advanced
<1>7. /\ \A u \in Tasks : u # t => moved[u] = task[u]
      /\ moved[t].op = task[t].op /\ moved[t].target = task[t].target
      /\ moved[t].alone = task[t].alone
      /\ moved[t].copy = task[t].copy /\ moved[t].live = task[t].live
  BY DEF IInv, Types, TaskRecords, moved
<1>8. Types'
  BY <1>5, <1>6 DEF IInv, Types
<1>9. Shared' /\ Absent'
  BY <1>2, <1>5, <1>6, <1>7 DEF IInv, Shared, Absent
<1>10. Phase(t)'
  BY <1>1, <1>2, <1>5, <1>6, <1>7, AtQuota DEF Phase, ResultPhase, InSync, Alone, Current
<1>11. auth # NoAuth => auth' # NoAuth
  BY <1>5
<1> QED
  BY <1>2, <1>4, <1>6, <1>7, <1>8, <1>9, <1>10, <1>11, Moved DEF IInv

LEMMA UnbindStep == ASSUME IInv, NEW t \in Tasks, Unbind(t) PROVE IInv'
<1> DEFINE rest == After(task[t].rest)
           moved == task
<1>1. At(t, "unbind")
  BY DEF Unbind
<1>2. rest \in Rests /\ rest # <<>> /\ task[t].rest # <<>> /\ auth # NoAuth
  BY <1>1, AtUnbind, RestFacts DEF At, Rests
<1>3. moved \in [Tasks -> TaskRecords]
  BY DEF IInv, Types, TaskRecords
<1>4. /\ task' = [moved EXCEPT ![t] = IF rest = <<>> THEN Idle ELSE [@ EXCEPT !.rest = rest]]
      /\ settled' = settled
  BY <1>2 DEF IInv, Types, TaskRecords, Unbind, Continue, Goto, After
<1>5. /\ reg' \in Marks /\ ~reg'.bound
      /\ UNCHANGED <<auth, sched, inFlight, ops>>
  BY DEF IInv, Types, Marks, Unbind, Unregistered
<1> HIDE DEF moved
<1>6. /\ task' \in [Tasks -> TaskRecords]
      /\ \A u \in Tasks : u # t => task'[u] = moved[u]
      /\ task'[t].op = moved[t].op /\ task'[t].rest = rest
      /\ task'[t].copy = moved[t].copy /\ task'[t].live = moved[t].live
      /\ task'[t].target = moved[t].target /\ task'[t].alone = moved[t].alone
  BY <1>2, <1>3, <1>4, Advanced
<1>7. /\ \A u \in Tasks : u # t => moved[u] = task[u]
      /\ moved[t].op = task[t].op /\ moved[t].target = task[t].target
      /\ moved[t].alone = task[t].alone
      /\ moved[t].copy = task[t].copy /\ moved[t].live = task[t].live
  BY DEF IInv, Types, TaskRecords, moved
<1>8. Types'
  BY <1>5, <1>6 DEF IInv, Types
<1>9. Shared' /\ Absent'
  BY <1>2, <1>5, <1>6, <1>7 DEF IInv, Shared, Absent
<1>10. Phase(t)'
  BY <1>1, <1>2, <1>5, <1>6, <1>7, AtUnbind DEF Phase, RemovePhase, CatalogPhase, Registering, Bound, Warm, Alone, Current
<1>11. auth # NoAuth => auth' # NoAuth
  BY <1>5
<1> QED
  BY <1>2, <1>4, <1>6, <1>7, <1>8, <1>9, <1>10, <1>11, Moved DEF IInv

LEMMA BindStep == ASSUME IInv, NEW t \in Tasks, Bind(t) PROVE IInv'
<1> DEFINE rest == After(task[t].rest)
           moved == task
<1>1. At(t, "bind")
  BY DEF Bind
<1>2. rest \in Rests /\ rest # <<>> /\ task[t].rest # <<>> /\ auth # NoAuth
  BY <1>1, AtBind, RestFacts DEF At, Rests
<1>3. moved \in [Tasks -> TaskRecords]
  BY DEF IInv, Types, TaskRecords
<1>4. /\ task' = [moved EXCEPT ![t] = IF rest = <<>> THEN Idle ELSE [@ EXCEPT !.rest = rest]]
      /\ settled' = settled
  BY <1>2 DEF IInv, Types, TaskRecords, Bind, Continue, Goto, After
<1>5. /\ reg' \in Marks /\ (reg'.bound <=> ~task[t].copy.disabled)
      /\ UNCHANGED <<auth, sched, inFlight, ops>>
  BY DEF IInv, Types, Marks, Bind, Unregistered, Registered
<1> HIDE DEF moved
<1>6. /\ task' \in [Tasks -> TaskRecords]
      /\ \A u \in Tasks : u # t => task'[u] = moved[u]
      /\ task'[t].op = moved[t].op /\ task'[t].rest = rest
      /\ task'[t].copy = moved[t].copy /\ task'[t].live = moved[t].live
      /\ task'[t].target = moved[t].target /\ task'[t].alone = moved[t].alone
  BY <1>2, <1>3, <1>4, Advanced
<1>7. /\ \A u \in Tasks : u # t => moved[u] = task[u]
      /\ moved[t].op = task[t].op /\ moved[t].target = task[t].target
      /\ moved[t].alone = task[t].alone
      /\ moved[t].copy = task[t].copy /\ moved[t].live = task[t].live
  BY DEF IInv, Types, TaskRecords, moved
<1>8. Types'
  BY <1>5, <1>6 DEF IInv, Types
<1>9. Shared' /\ Absent'
  BY <1>2, <1>5, <1>6, <1>7 DEF IInv, Shared, Absent
<1>10. Phase(t)'
  BY <1>1, <1>2, <1>5, <1>6, <1>7, AtBind DEF Phase, UpdatePhase, CatalogPhase, Registering, Bound, Alone, Current
<1>11. auth # NoAuth => auth' # NoAuth
  BY <1>5
<1> QED
  BY <1>2, <1>4, <1>6, <1>7, <1>8, <1>9, <1>10, <1>11, Moved DEF IInv

LEMMA ReadBoundStep == ASSUME IInv, NEW t \in Tasks, ReadBound(t) PROVE IInv'
<1> DEFINE rest == After(task[t].rest)
           moved == [task EXCEPT ![t].bound = reg.bound]
<1>1. At(t, "readBound")
  BY DEF ReadBound
<1>2. rest \in Rests /\ rest # <<>> /\ task[t].rest # <<>> /\ auth # NoAuth
  BY <1>1, AtReadBound, RestFacts DEF At, Rests
<1>3. moved \in [Tasks -> TaskRecords]
  BY DEF IInv, Types, TaskRecords, Marks
<1>4. /\ task' = [moved EXCEPT ![t] = IF rest = <<>> THEN Idle ELSE [@ EXCEPT !.rest = rest]]
      /\ settled' = settled
  BY <1>2 DEF IInv, Types, TaskRecords, ReadBound, Continue, Goto, After
<1>5. UNCHANGED <<auth, sched, reg, inFlight, ops>>
  BY DEF ReadBound
<1> HIDE DEF moved
<1>6. /\ task' \in [Tasks -> TaskRecords]
      /\ \A u \in Tasks : u # t => task'[u] = moved[u]
      /\ task'[t].op = moved[t].op /\ task'[t].rest = rest
      /\ task'[t].copy = moved[t].copy /\ task'[t].live = moved[t].live
      /\ task'[t].target = moved[t].target /\ task'[t].alone = moved[t].alone
  BY <1>2, <1>3, <1>4, Advanced
<1>7. /\ \A u \in Tasks : u # t => moved[u] = task[u]
      /\ moved[t].op = task[t].op /\ moved[t].target = task[t].target
      /\ moved[t].alone = task[t].alone
      /\ moved[t].copy = task[t].copy /\ moved[t].live = task[t].live
  BY DEF IInv, Types, TaskRecords, moved
<1>8. Types'
  BY <1>5, <1>6 DEF IInv, Types
<1>9. Shared' /\ Absent'
  BY <1>2, <1>5, <1>6, <1>7 DEF IInv, Shared, Absent
<1>10. Phase(t)'
  BY <1>1, <1>2, <1>5, <1>6, <1>7, AtReadBound DEF Phase, UpdatePhase, CatalogPhase, Registering, Bound, Alone, Current
<1>11. auth # NoAuth => auth' # NoAuth
  BY <1>5
<1> QED
  BY <1>2, <1>4, <1>6, <1>7, <1>8, <1>9, <1>10, <1>11, Moved DEF IInv

LEMMA MarkStep == ASSUME IInv, NEW t \in Tasks, Mark(t) PROVE IInv'
<1> DEFINE rest == After(task[t].rest)
<1>1. At(t, "mark")
  BY DEF Mark
<1>2. rest \in Rests /\ rest # <<>> /\ task[t].rest # <<>> /\ auth # NoAuth
  BY <1>1, AtMark, RestFacts DEF At, Rests
<1>3. PICK state \in {"clean", "cooling"} :
        /\ Mutate([auth EXCEPT !.state = state])
        /\ Continue(t, [Seeing([auth EXCEPT !.state = state])
                          EXCEPT ![t].copy = [auth EXCEPT !.state = state]])
  BY DEF Mark
<1> DEFINE new == [auth EXCEPT !.state = state]
           moved == [Seeing(new) EXCEPT ![t].copy = new]
<1>4. new \in Auths
  BY <1>2 DEF IInv, Types, MaybeAuth, Auths, ModelStates
<1> HIDE DEF new
<1>5. /\ Seeing(new) \in [Tasks -> TaskRecords]
      /\ \A u \in Tasks :
            /\ Seeing(new)[u].op = task[u].op /\ Seeing(new)[u].rest = task[u].rest
            /\ Seeing(new)[u].target = task[u].target
            /\ Seeing(new)[u].alone = task[u].alone /\ Seeing(new)[u].live = task[u].live
            /\ Seeing(new)[u].copy = IF task[u].live THEN new ELSE task[u].copy
  BY <1>4 DEF IInv, Types, TaskRecords, MaybeAuth, Seeing
<1>6. moved \in [Tasks -> TaskRecords]
  BY <1>4, <1>5 DEF TaskRecords, MaybeAuth
<1>7. /\ task' = [moved EXCEPT ![t] = IF rest = <<>> THEN Idle ELSE [@ EXCEPT !.rest = rest]]
      /\ settled' = settled
  BY <1>2, <1>3 DEF Continue, Goto, After, new
<1>8. /\ auth' = new
      /\ sched' = IF sched.live THEN [sched EXCEPT !.auth = new] ELSE sched
      /\ UNCHANGED <<reg, inFlight, ops>>
  BY <1>3 DEF Mark, Mutate, new
<1>9. new # NoAuth
  BY <1>4, AuthSyncAssumption
<1> HIDE DEF moved
<1>10. /\ task' \in [Tasks -> TaskRecords]
       /\ \A u \in Tasks : u # t => task'[u] = moved[u]
       /\ task'[t].op = moved[t].op /\ task'[t].rest = rest
       /\ task'[t].copy = moved[t].copy /\ task'[t].live = moved[t].live
       /\ task'[t].target = moved[t].target /\ task'[t].alone = moved[t].alone
  BY <1>2, <1>6, <1>7, Advanced
<1>11. /\ \A u \in Tasks : u # t => moved[u] = Seeing(new)[u]
       /\ moved[t].op = task[t].op /\ moved[t].target = task[t].target
       /\ moved[t].alone = task[t].alone /\ moved[t].copy = new
  BY <1>5 DEF TaskRecords, moved
<1>12. Types'
  BY <1>4, <1>8, <1>10 DEF IInv, Types, Entries, MaybeAuth
<1>13. sched'.live => sched'.auth = auth'
  BY <1>8 DEF IInv, Types, Entries
<1>14. sched'.entry = sched.entry
  BY <1>8 DEF IInv, Types, Entries
<1>15. Shared' /\ Absent'
  BY <1>5, <1>8, <1>9, <1>10, <1>11, <1>13, <1>14 DEF IInv, Shared, Absent
<1>16. Phase(t)'
  BY <1>1, <1>8, <1>9, <1>10, <1>11, AtMark DEF Phase, ResultPhase, Current, Alone
<1>17. \A u \in Tasks : u # t =>
          /\ task'[u].op = task[u].op /\ task'[u].rest = task[u].rest
          /\ task'[u].target = task[u].target /\ task'[u].alone = task[u].alone
          /\ task[u].copy \in Auths => task'[u].copy \in Auths
  BY <1>4, <1>5, <1>10, <1>11
<1> QED
  BY <1>2, <1>7, <1>8, <1>9, <1>10, <1>11, <1>12, <1>15, <1>16, <1>17, Moved DEF IInv

(* What a store puts into the manager's record.                            *)
LEMMA StoredFacts ==
  ASSUME IInv, NEW t \in Tasks, At(t, "store") \/ At(t, "refreshed")
  PROVE  /\ Stored(t) \in Auths /\ Stored(t) # NoAuth
         /\ task[t].op = "remove" => Stored(t).disabled
<1>1. ASSUME NEW new \in Auths, NEW old \in MaybeAuth
      PROVE  Inherit(new, old) \in Auths /\ Inherit(new, old).disabled = new.disabled
  BY <1>1 DEF Inherit, Auths, MaybeAuth
<1>2. /\ task[t].copy = NoAuth => task[t].target \in Auths /\ task[t].op = "update"
      /\ task[t].copy # NoAuth => Replacement(t) \in Auths
      /\ task[t].op = "remove" => Replacement(t).disabled
  <2>1. task[t].copy \in MaybeAuth /\ NoAuth \notin Auths
    BY AuthSyncAssumption DEF IInv, Types, TaskRecords
  <2>2. CASE task[t].op = "update" /\ task[t].target \in Auths
    BY <1>1, <2>1, <2>2 DEF Replacement
  <2>3. CASE task[t].op = "remove" /\ task[t].copy \in Auths
    BY <2>1, <2>3 DEF Replacement, Auths
  <2>4. CASE task[t].op = "toggle" /\ task[t].copy \in Auths /\ task[t].target \in Auths
    BY <2>1, <2>4 DEF Replacement, Auths
  <2>5. CASE task[t].op = "refresh" /\ task[t].copy \in Auths
    BY <2>1, <2>5 DEF Replacement
  <2> QED
    BY <2>2, <2>3, <2>4, <2>5, AtStore, AtRefreshed
<1>3. auth \in MaybeAuth
  BY DEF IInv, Types
<1>4. CASE task[t].copy = NoAuth
  BY <1>2, <1>4, AuthSyncAssumption DEF Stored
<1>5. CASE task[t].copy # NoAuth
  BY <1>1, <1>2, <1>3, <1>5, AuthSyncAssumption DEF Stored
<1> QED
  BY <1>4, <1>5

LEMMA StoreStep ==
  ASSUME IInv, NEW t \in Tasks, At(t, "store") \/ At(t, "refreshed"), Store(t)
  PROVE  IInv'
<1> DEFINE rest == After(task[t].rest)
           new == Stored(t)
           moved == [u \in Tasks |-> IF u = t
                                     THEN [task[u] EXCEPT !.copy = new, !.live = TRUE]
                                     ELSE [task[u] EXCEPT !.live = FALSE]]
<1>1. /\ rest \in Rests /\ rest # <<>> /\ task[t].rest # <<>>
      /\ \/ task[t].op = "update" /\ task[t].target \in Auths /\ rest = Update3
         \/ task[t].op = "remove" /\ rest = Final /\ (Alone(t) => ~reg.bound)
         \/ task[t].op = "toggle" /\ rest = Final /\ task[t].target \in Auths
         \/ task[t].op = "refresh" /\ rest = Final
  BY AtStore, AtRefreshed, RestFacts DEF At, Rests
<1>2. new \in Auths /\ new # NoAuth /\ (task[t].op = "remove" => new.disabled)
  BY StoredFacts
<1>3. /\ task' = [moved EXCEPT ![t] = IF rest = <<>> THEN Idle ELSE [@ EXCEPT !.rest = rest]]
      /\ settled' = settled
  BY <1>1 DEF Store, Continue, Goto, After
<1>4. /\ auth' = new /\ sched' = [sched EXCEPT !.live = FALSE]
      /\ UNCHANGED <<reg, inFlight, ops>>
  BY DEF Store
<1> HIDE DEF new
<1>5. moved \in [Tasks -> TaskRecords]
  BY <1>2 DEF IInv, Types, TaskRecords, MaybeAuth
<1>6. rest \in Rests /\ rest # <<>>
  BY <1>1
<1>7. /\ \A u \in Tasks : u # t =>
            /\ moved[u].op = task[u].op /\ moved[u].rest = task[u].rest
            /\ moved[u].target = task[u].target /\ moved[u].alone = task[u].alone
            /\ moved[u].copy = task[u].copy /\ ~moved[u].live
      /\ moved[t].op = task[t].op /\ moved[t].target = task[t].target
      /\ moved[t].alone = task[t].alone /\ moved[t].copy = new
  BY DEF IInv, Types, TaskRecords
<1> HIDE DEF moved
<1>8. /\ task' \in [Tasks -> TaskRecords]
      /\ \A u \in Tasks : u # t => task'[u] = moved[u]
      /\ task'[t].op = moved[t].op /\ task'[t].rest = rest
      /\ task'[t].copy = moved[t].copy
      /\ task'[t].target = moved[t].target /\ task'[t].alone = moved[t].alone
  <2>1. task' = [moved EXCEPT ![t] = IF rest = <<>> THEN Idle ELSE [@ EXCEPT !.rest = rest]]
    BY <1>3
  <2> HIDE DEF rest
  <2> QED
    BY <1>5, <1>6, <2>1, Advanced
<1>9. Types'
  BY <1>2, <1>4, <1>8 DEF IInv, Types, Entries, MaybeAuth
<1>10. ~sched'.live
  BY <1>4 DEF IInv, Types, Entries
<1>11. Shared' /\ Absent'
  BY <1>2, <1>4, <1>7, <1>8, <1>10 DEF Shared, Absent
<1>12. Phase(t)'
  BY <1>1, <1>2, <1>4, <1>7, <1>8
  DEF Phase, UpdatePhase, RemovePhase, TogglePhase, RefreshPhase, Current, Alone
<1> QED
  BY <1>1, <1>2, <1>3, <1>4, <1>7, <1>8, <1>9, <1>11, <1>12, Moved DEF IInv

LEMMA ReadStep == ASSUME IInv, NEW t \in Tasks, Read(t) PROVE IInv'
<1> DEFINE rest == After(task[t].rest)
           moved == [task EXCEPT ![t].copy = auth, ![t].live = FALSE]
<1>1. /\ rest \in Rests /\ rest # <<>> /\ task[t].rest # <<>>
      /\ \/ task[t].op = "update" /\ task[t].target \in Auths /\ rest = Update2
         \/ /\ auth # NoAuth
            /\ \/ task[t].op = "remove" /\ rest = Toggle2 /\ (Alone(t) => ~reg.bound)
               \/ task[t].op = "toggle" /\ rest = Toggle2 /\ task[t].target \in Auths
               \/ task[t].op = "refresh" /\ rest = Refresh2
               \/ /\ task[t].op = "update" /\ task[t].target \in Auths
                  /\ rest = Final /\ (Alone(t) => Bound /\ Warm)
               \/ task[t].op = "catalog" /\ rest = Final /\ (Alone(t) => Bound /\ Warm)
               \/ task[t].op = "resync" /\ rest = Final
  BY AtRead, AtSnapshot, RestFacts DEF Read, At, Rests
<1>2. moved \in [Tasks -> TaskRecords]
  BY ZenonT(60) DEF IInv, Types, TaskRecords
<1>3. /\ task' = [moved EXCEPT ![t] = IF rest = <<>> THEN Idle ELSE [@ EXCEPT !.rest = rest]]
      /\ settled' = settled
      /\ UNCHANGED <<auth, sched, reg, inFlight, ops>>
  BY <1>1 DEF Read, Continue, Goto, After
<1>4. /\ \A u \in Tasks : u # t => moved[u] = task[u]
      /\ moved[t].op = task[t].op /\ moved[t].target = task[t].target
      /\ moved[t].alone = task[t].alone /\ moved[t].copy = auth /\ ~moved[t].live
  BY DEF IInv, Types, TaskRecords
<1> HIDE DEF moved
<1>5. /\ task' \in [Tasks -> TaskRecords]
      /\ \A u \in Tasks : u # t => task'[u] = moved[u]
      /\ task'[t].op = moved[t].op /\ task'[t].rest = rest
      /\ task'[t].copy = moved[t].copy /\ task'[t].live = moved[t].live
      /\ task'[t].target = moved[t].target /\ task'[t].alone = moved[t].alone
  BY <1>1, <1>2, <1>3, Advanced
<1>6. Types'
  BY <1>3, <1>5 DEF IInv, Types
<1>7. Shared' /\ Absent'
  BY <1>3, <1>4, <1>5 DEF IInv, Shared, Absent
<1>8. (Bound => Bound') /\ (Warm => Warm') /\ (Alone(t)' <=> Alone(t))
  BY <1>3, <1>4, <1>5 DEF Bound, Warm, Alone
<1>9. auth # NoAuth => auth \in Auths
  BY DEF IInv, Types, MaybeAuth
<1>10. Phase(t)'
  BY <1>1, <1>3, <1>4, <1>5, <1>8, <1>9
  DEF Phase, UpdatePhase, RemovePhase, TogglePhase, RefreshPhase, CatalogPhase, ResyncPhase,
      Registering, Current
<1> QED
  BY <1>1, <1>3, <1>4, <1>5, <1>6, <1>7, <1>10, Moved DEF IInv

(* A task that ends with a step that leaves the scheduler in line.         *)
LEMMA Ended ==
  ASSUME IInv, NEW t \in Tasks, task[t].op \in {"result", "refresh"}, task[t].rest # <<>>,
         auth # NoAuth, Goto(t, task, <<>>), UNCHANGED <<auth, inFlight, ops>>,
         sched' \in Entries, sched'.live => sched'.auth = auth, reg' \in Marks,
         Alone(t) => InSync'
  PROVE  IInv'
<1> DEFINE moved == task
<1>1. moved \in [Tasks -> TaskRecords] /\ <<>> \in Rests
  BY DEF IInv, Types, Rests
<1>2. task' = [moved EXCEPT ![t] = IF <<>> = <<>> THEN Idle ELSE [@ EXCEPT !.rest = <<>>]]
  BY DEF Goto
<1>3. settled' = IF Alone(t) THEN task[t].op ELSE settled
  BY DEF Goto, Alone
<1> HIDE DEF moved
<1>4. /\ task' \in [Tasks -> TaskRecords]
      /\ \A u \in Tasks : u # t => task'[u] = moved[u]
      /\ task'[t].op = "idle" /\ task'[t].rest = <<>>
      /\ ~task'[t].live /\ ~task'[t].alone
  BY <1>1, <1>2, Advanced
<1>5. \A u \in Tasks : u # t => task'[u] = task[u]
  BY <1>4 DEF moved
<1>6. Types' /\ Shared' /\ Absent'
  BY <1>4, <1>5 DEF IInv, Types, Shared, Absent
<1>7. Phase(t)'
  BY <1>4 DEF Phase, IdlePhase, Alone
<1>8. \/ settled' = settled
      \/ /\ Alone(t) /\ task'[t].op = "idle"
         /\ SchedulerRepaired' /\ BindingRepaired' /\ CooldownReconciled'
  <2>1. CASE Alone(t)
    BY <1>3, <1>4, <2>1 DEF SchedulerRepaired, BindingRepaired, CooldownReconciled
  <2> QED
    BY <1>3, <2>1
<1> QED
  BY <1>4, <1>5, <1>6, <1>7, <1>8, Moved DEF IInv

(* A task that gives up.                                                   *)
LEMMA Stopped ==
  ASSUME IInv, NEW t \in Tasks, task[t].rest # <<>>, Stop(t),
         UNCHANGED <<auth, sched, reg, inFlight, ops>>
  PROVE  IInv'
<1>1. Idle \in TaskRecords
  BY DEF Idle, TaskRecords, Rests, MaybeAuth
<1>2. task' = [task EXCEPT ![t] = Idle] /\ task \in [Tasks -> TaskRecords] /\ settled' = settled
  BY DEF Stop, IInv, Types
<1>3. /\ task' \in [Tasks -> TaskRecords]
      /\ \A u \in Tasks : u # t => task'[u] = task[u]
      /\ task'[t] = Idle
  BY <1>1, <1>2
<1>4. /\ task'[t].op = "idle" /\ task'[t].rest = <<>>
      /\ ~task'[t].live /\ ~task'[t].alone
  BY <1>3 DEF Idle
<1>5. Types' /\ Shared' /\ Absent'
  BY <1>3, <1>4 DEF IInv, Types, Shared, Absent
<1>6. Phase(t)'
  BY <1>4 DEF Phase, IdlePhase, Alone
<1> QED
  BY <1>2, <1>3, <1>4, <1>5, <1>6, Moved DEF IInv

LEMMA RefreshFailsStep == ASSUME IInv, NEW t \in Tasks, RefreshFails(t) PROVE IInv'
<1>1. task[t].op = "refresh" /\ task[t].rest # <<>> /\ auth \in Auths
  BY AtRefreshed DEF RefreshFails, At, IInv, Types, MaybeAuth
<1>2. /\ Goto(t, task, <<>>) /\ sched' = Entry(auth, FALSE)
      /\ UNCHANGED <<auth, reg, inFlight, ops>>
  BY DEF RefreshFails
<1>3. sched' \in Entries /\ ~sched'.live /\ reg' \in Marks
  BY <1>1, <1>2 DEF IInv, Types, Marks, Entries, MaybeAuth, Entry, NoEntry
<1>4. InSync'
  BY <1>2 DEF InSync, Entry, NoEntry
<1> QED
  BY <1>1, <1>2, <1>3, <1>4, AuthSyncAssumption, Ended

LEMMA MarkSuspendedStep == ASSUME IInv, NEW t \in Tasks, MarkSuspended(t) PROVE IInv'
<1>1. /\ task[t].op = "result" /\ task[t].rest # <<>> /\ auth # NoAuth
      /\ After(task[t].rest) = <<>> /\ (Alone(t) => InSync)
  BY AtSuspend DEF MarkSuspended, At
<1>2. Goto(t, task, <<>>) /\ UNCHANGED <<auth, sched, inFlight, ops>>
  BY <1>1 DEF MarkSuspended, Continue, After
<1>3. reg' \in Marks /\ reg'.bound = reg.bound
  BY DEF IInv, Types, Marks, MarkSuspended
<1>4. sched' \in Entries /\ (sched'.live => sched'.auth = auth)
  BY <1>2 DEF IInv, Types, Shared
<1>5. Alone(t) => InSync'
  BY <1>1, <1>2, <1>3 DEF InSync
<1> QED
  BY <1>1, <1>2, <1>3, <1>4, <1>5, Ended

LEMMA RefreshCancelledStep == ASSUME IInv, NEW t \in Tasks, RefreshCancelled(t) PROVE IInv'
  BY Stopped DEF RefreshCancelled, At

(* The catalog callback reads the manager's record.                        *)
LEMMA Refetched ==
  ASSUME IInv, NEW t \in Tasks, task[t].op = "catalog", task[t].rest # <<>>, auth # NoAuth,
         NEW rest \in Rests, rest # <<>>, Goto(t, [task EXCEPT ![t].copy = auth], rest),
         UNCHANGED <<auth, sched, reg, inFlight, ops>>,
         rest = Catalog2 \/ rest = ReapplySteps \/ (rest = UnbindSteps /\ auth.disabled)
  PROVE  IInv'
<1> DEFINE moved == [task EXCEPT ![t].copy = auth]
<1>1. moved \in [Tasks -> TaskRecords]
  BY DEF IInv, Types, TaskRecords
<1>2. /\ task' = [moved EXCEPT ![t] = IF rest = <<>> THEN Idle ELSE [@ EXCEPT !.rest = rest]]
      /\ settled' = settled
  BY DEF Goto
<1>3. /\ \A u \in Tasks : u # t => moved[u] = task[u]
      /\ moved[t].op = task[t].op /\ moved[t].target = task[t].target
      /\ moved[t].alone = task[t].alone /\ moved[t].copy = auth
  BY DEF IInv, Types, TaskRecords
<1> HIDE DEF moved
<1>4. /\ task' \in [Tasks -> TaskRecords]
      /\ \A u \in Tasks : u # t => task'[u] = moved[u]
      /\ task'[t].op = moved[t].op /\ task'[t].rest = rest
      /\ task'[t].copy = moved[t].copy /\ task'[t].live = moved[t].live
      /\ task'[t].target = moved[t].target /\ task'[t].alone = moved[t].alone
  BY <1>1, <1>2, Advanced
<1>5. Types' /\ Shared' /\ Absent'
  BY <1>3, <1>4 DEF IInv, Types, Shared, Absent
<1>6. Phase(t)'
  BY <1>3, <1>4 DEF Phase, CatalogPhase, Current, Alone
<1> QED
  BY <1>2, <1>3, <1>4, <1>5, <1>6, Moved DEF IInv

LEMMA ReadEnabledStep == ASSUME IInv, NEW t \in Tasks, ReadEnabled(t) PROVE IInv'
<1>1. /\ task[t].op = "catalog" /\ task[t].rest # <<>> /\ auth # NoAuth
      /\ After(task[t].rest) = Catalog2
  BY AtReadEnabled DEF ReadEnabled, At
<1>2. UNCHANGED <<auth, sched, reg, inFlight, ops>>
  BY DEF ReadEnabled
<1>3. CASE auth.disabled
  BY <1>1, <1>2, <1>3, Stopped DEF ReadEnabled
<1>4. CASE ~auth.disabled
  <2>1. Goto(t, [task EXCEPT ![t].copy = auth], Catalog2)
    BY <1>1, <1>4 DEF ReadEnabled, Continue, After
  <2>2. Catalog2 \in Rests /\ Catalog2 # <<>>
    BY RestFacts DEF Rests
  <2> QED
    BY <1>1, <1>2, <2>1, <2>2, Refetched
<1> QED
  BY <1>3, <1>4

LEMMA ReadLatestStep == ASSUME IInv, NEW t \in Tasks, ReadLatest(t) PROVE IInv'
<1>1. task[t].op = "catalog" /\ task[t].rest # <<>> /\ auth # NoAuth
  BY AtReadLatest DEF ReadLatest, At
<1>2. UNCHANGED <<auth, sched, reg, inFlight, ops>>
  BY DEF ReadLatest
<1>3. /\ UnbindSteps \in Rests /\ UnbindSteps # <<>>
      /\ ReapplySteps \in Rests /\ ReapplySteps # <<>>
  BY RestFacts DEF Rests
<1>4. CASE auth.disabled
  <2>1. Goto(t, [task EXCEPT ![t].copy = auth], UnbindSteps)
    BY <1>4 DEF ReadLatest
  <2> QED
    BY <1>1, <1>2, <1>3, <1>4, <2>1, Refetched
<1>5. CASE ~auth.disabled
  <2>1. Goto(t, [task EXCEPT ![t].copy = auth], ReapplySteps)
    BY <1>5 DEF ReadLatest
  <2> QED
    BY <1>1, <1>2, <1>3, <2>1, Refetched
<1> QED
  BY <1>4, <1>5

LEMMA ReconcileStep == ASSUME IInv, NEW t \in Tasks, Reconcile(t) PROVE IInv'
<1> DEFINE new == Reconciled(t)
<1>1. At(t, "reconcile") /\ Mutate(new) /\ UNCHANGED <<reg, inFlight, ops>>
  BY DEF Reconcile
<1>2. /\ auth \in Auths /\ task[t].rest # <<>>
      /\ \/ /\ task[t].op = "update" /\ task[t].target \in Auths /\ (Alone(t) => Bound)
            /\ After(task[t].rest) = Reapply4
         \/ /\ task[t].op = "catalog" /\ After(task[t].rest) = Catalog5
         \/ /\ task[t].op = "catalog" /\ (Alone(t) => Bound)
            /\ After(task[t].rest) = Reapply4
  BY <1>1, AtReconcile DEF At, IInv, Types, MaybeAuth
<1>3. new \in Auths /\ new.disabled = auth.disabled /\ new.state # "cooling"
  BY <1>2 DEF Reconciled, Auths, ModelStates
<1>4. new # NoAuth
  BY <1>3, AuthSyncAssumption
<1>5. \/ new # auth /\ Goto(t, [Seeing(new) EXCEPT ![t].copy = new], After(task[t].rest))
      \/ new = auth /\ Goto(t, task, After(After(task[t].rest)))
  BY DEF Reconcile, After
<1> HIDE DEF new
<1>6. /\ auth' = new
      /\ sched' = IF sched.live THEN [sched EXCEPT !.auth = new] ELSE sched
  BY <1>1 DEF Mutate
<1>7. sched' \in Entries /\ sched'.entry = sched.entry /\ (sched'.live => sched'.auth = auth')
  BY <1>3, <1>6 DEF IInv, Types, Entries, MaybeAuth, Shared
<1>8. (Bound => Bound') /\ Warm'
  BY <1>1, <1>3, <1>6 DEF Bound, Warm
<1>9. CASE new # auth
  <2> DEFINE rest == After(task[t].rest)
             moved == [Seeing(new) EXCEPT ![t].copy = new]
  <2>1. /\ Seeing(new) \in [Tasks -> TaskRecords]
        /\ \A u \in Tasks :
              /\ Seeing(new)[u].op = task[u].op /\ Seeing(new)[u].rest = task[u].rest
              /\ Seeing(new)[u].target = task[u].target
              /\ Seeing(new)[u].alone = task[u].alone /\ Seeing(new)[u].live = task[u].live
              /\ Seeing(new)[u].copy = IF task[u].live THEN new ELSE task[u].copy
    BY <1>3 DEF IInv, Types, TaskRecords, MaybeAuth, Seeing
  <2>2. moved \in [Tasks -> TaskRecords]
    BY <1>3, <2>1 DEF TaskRecords, MaybeAuth
  <2>3. rest \in Rests /\ rest # <<>>
    BY <1>2, RestFacts DEF Rests
  <2>4. /\ task' = [moved EXCEPT ![t] = IF rest = <<>> THEN Idle ELSE [@ EXCEPT !.rest = rest]]
        /\ settled' = settled
    BY <1>5, <1>9, <2>3 DEF Goto
  <2>5. /\ \A u \in Tasks : u # t => moved[u] = Seeing(new)[u]
        /\ moved[t].op = task[t].op /\ moved[t].target = task[t].target
        /\ moved[t].alone = task[t].alone /\ moved[t].copy = new
    BY <2>1 DEF TaskRecords
  <2> HIDE DEF moved
  <2>6. /\ task' \in [Tasks -> TaskRecords]
        /\ \A u \in Tasks : u # t => task'[u] = moved[u]
        /\ task'[t].op = moved[t].op /\ task'[t].rest = rest
        /\ task'[t].copy = moved[t].copy /\ task'[t].live = moved[t].live
        /\ task'[t].target = moved[t].target /\ task'[t].alone = moved[t].alone
    BY <2>2, <2>3, <2>4, Advanced
  <2>7. Types' /\ Shared' /\ Absent'
    BY <1>1, <1>3, <1>4, <1>6, <1>7, <2>1, <2>5, <2>6 DEF IInv, Types, Shared, Absent, MaybeAuth
  <2>8. Phase(t)'
    BY <1>2, <1>4, <1>6, <1>8, <2>5, <2>6
    DEF Phase, UpdatePhase, CatalogPhase, Registering, Alone
  <2>9. \A u \in Tasks : u # t =>
            /\ task'[u].op = task[u].op /\ task'[u].rest = task[u].rest
            /\ task'[u].target = task[u].target /\ task'[u].alone = task[u].alone
            /\ task[u].copy \in Auths => task'[u].copy \in Auths
    BY <1>3, <2>1, <2>5, <2>6
  <2> QED
    BY <1>2, <1>4, <1>6, <2>4, <2>5, <2>6, <2>7, <2>8, <2>9, Moved DEF IInv
<1>10. CASE new = auth
  <2> DEFINE rest == After(After(task[t].rest))
             moved == task
  <2>1. moved \in [Tasks -> TaskRecords]
    BY DEF IInv, Types
  <2>2. rest \in Rests /\ rest # <<>>
    BY <1>2, RestFacts DEF Rests
  <2>3. /\ task' = [moved EXCEPT ![t] = IF rest = <<>> THEN Idle ELSE [@ EXCEPT !.rest = rest]]
        /\ settled' = settled
    BY <1>5, <1>10, <2>2 DEF Goto
  <2> HIDE DEF moved
  <2>4. /\ task' \in [Tasks -> TaskRecords]
        /\ \A u \in Tasks : u # t => task'[u] = moved[u]
        /\ task'[t].op = moved[t].op /\ task'[t].rest = rest
        /\ task'[t].copy = moved[t].copy /\ task'[t].live = moved[t].live
        /\ task'[t].target = moved[t].target /\ task'[t].alone = moved[t].alone
    BY <2>1, <2>2, <2>3, Advanced
  <2>5. Types' /\ Shared' /\ Absent'
    BY <1>1, <1>6, <1>7, <1>10, <2>4 DEF IInv, Types, Shared, Absent, moved
  <2>6. Phase(t)'
    BY <1>2, <1>4, <1>6, <1>8, <2>4, RestFacts
    DEF Phase, UpdatePhase, CatalogPhase, Registering, Alone, moved
  <2> QED
    BY <1>2, <1>4, <1>6, <2>3, <2>4, <2>5, <2>6, Moved DEF IInv, moved
<1> QED
  BY <1>9, <1>10

LEMMA StepPreserves == ASSUME IInv, NEW t \in Tasks, Step(t) PROVE IInv'
<1>1. StoreCopy(t) \/ RefreshSucceeds(t) => IInv'
  BY StoreStep DEF StoreCopy, RefreshSucceeds
<1> QED
  BY <1>1, MarkStep, RefreshFailsStep, RefreshCancelledStep, ReadStep, ReadEnabledStep,
     ReadLatestStep, BindStep, UnbindStep, ReadBoundStep, ReconcileStep, UpsertStep,
     MarkQuotaStep, MarkSuspendedStep DEF Step

-----------------------------------------------------------------------------
(* Starting an operation ends the time that others ran alone.              *)
LEMMA StartedStep ==
  ASSUME IInv, NEW t \in Tasks, NEW op \in Kinds \cup {"resync"}, NEW target \in MaybeAuth,
         Started(t, op, target), op = "update" \/ auth # NoAuth,
         op \in {"update", "toggle"} => target \in Auths,
         UNCHANGED <<auth, sched, reg>>,
         inFlight' \in 0 .. inFlight, ops' \in 0 .. MaxOps
  PROVE  IInv'
<1>1. \/ op = "result" /\ Steps(op) = ResultSteps
      \/ op = "update" /\ Steps(op) = UpdateSteps
      \/ op = "remove" /\ Steps(op) = RemoveSteps
      \/ op = "toggle" /\ Steps(op) = ToggleSteps
      \/ op = "refresh" /\ Steps(op) = RefreshSteps
      \/ op = "catalog" /\ Steps(op) = CatalogSteps
      \/ op = "resync" /\ Steps(op) = ResyncSteps
  BY AuthSyncAssumption DEF Steps, Operations
<1>2. Steps(op) \in Rests
  BY <1>1 DEF Rests
<1> DEFINE started == [Idle EXCEPT !.op = op, !.rest = Steps(op), !.target = target,
                                   !.alone = Busy(task) = {}]
<1>3. /\ started \in TaskRecords
      /\ started.op = op /\ started.rest = Steps(op) /\ started.target = target
      /\ ~started.live /\ (started.alone <=> Busy(task) = {})
  BY ZenonT(60), <1>2 DEF Idle, TaskRecords, Rests, MaybeAuth
<1>4. /\ task' = [u \in Tasks |-> IF u = t THEN started ELSE [task[u] EXCEPT !.alone = FALSE]]
      /\ settled' = None
  BY DEF Started
<1> HIDE DEF started
<1>5. /\ task' \in [Tasks -> TaskRecords]
      /\ task'[t] = started
      /\ \A u \in Tasks : u # t =>
            /\ task'[u].op = task[u].op /\ task'[u].rest = task[u].rest
            /\ task'[u].target = task[u].target /\ ~task'[u].alone
            /\ task'[u].copy = task[u].copy /\ task'[u].live = task[u].live
  BY <1>3, <1>4 DEF IInv, Types, TaskRecords
<1>6. inFlight' \in 0 .. MaxInFlight
  BY AuthSyncAssumption DEF IInv, Types
<1>7. auth = NoAuth => inFlight' = 0
  BY DEF IInv, Types, Absent
<1>8. Types' /\ Shared' /\ Absent'
  BY <1>3, <1>5, <1>6, <1>7 DEF IInv, Types, Shared, Absent
<1>9. ASSUME NEW u \in Tasks PROVE Phase(u)'
  <2>1. CASE u # t
    BY <1>5, <2>1, OtherPhase DEF IInv
  <2>2. CASE u = t
    BY <1>1, <1>3, <1>5, <2>2, AuthSyncAssumption
    DEF Phase, ResultPhase, UpdatePhase, RemovePhase, TogglePhase, RefreshPhase,
        CatalogPhase, ResyncPhase
  <2> QED
    BY <2>1, <2>2
<1>10. Solitary'
  BY <1>3, <1>5 DEF Solitary, Alone, Busy
<1>11. Settled'
  BY <1>4 DEF Settled
<1> QED
  BY <1>8, <1>9, <1>10, <1>11 DEF IInv

(* Pick and Abandon only count requests.                                   *)
LEMMA Counted ==
  ASSUME IInv, inFlight' \in 0 .. MaxInFlight, auth = NoAuth => inFlight' = 0,
         UNCHANGED <<auth, sched, reg, task, ops, settled>>
  PROVE  IInv'
<1>1. Types' /\ Shared' /\ Absent'
  BY DEF IInv, Types, Shared, Absent
<1>2. ASSUME NEW u \in Tasks PROVE Phase(u)'
  <2>1. Phase(u)
    BY DEF IInv
  <2> QED
    BY <2>1 DEF Phase, IdlePhase, ResultPhase, UpdatePhase, RemovePhase, TogglePhase,
                RefreshPhase, CatalogPhase, ResyncPhase, Registering, Current, Alone,
                Bound, Warm, InSync
<1>3. Solitary' /\ Settled'
  BY DEF IInv, Solitary, Alone, Settled, SchedulerRepaired, BindingRepaired,
         CooldownReconciled, InSync
<1> QED
  BY <1>1, <1>2, <1>3 DEF IInv

LEMMA StartPreserves == ASSUME IInv, NEW t \in Tasks, Start(t) \/ StartResync(t) PROVE IInv'
<1>1. /\ NoAuth \in MaybeAuth /\ auth \in MaybeAuth /\ inFlight \in Nat
      /\ inFlight \in 0 .. inFlight /\ ops \in 0 .. MaxOps
  BY AuthSyncAssumption DEF IInv, Types, MaybeAuth
<1>2. ops < MaxOps => ops + 1 \in 0 .. MaxOps
  BY AuthSyncAssumption DEF IInv, Types
<1>3. CASE StartResult(t)
  <2>1. /\ Started(t, "result", NoAuth) /\ "result" \in Kinds
        /\ inFlight > 0 /\ inFlight' = inFlight - 1 /\ ops' \in 0 .. MaxOps
        /\ UNCHANGED <<auth, sched, reg>>
    BY <1>2, <1>3 DEF StartResult
  <2>2. inFlight' \in 0 .. inFlight
    BY <1>1, <2>1
  <2>3. auth # NoAuth
    BY <1>1, <2>1 DEF IInv, Absent
  <2> QED
    BY <1>1, <2>1, <2>2, <2>3, StartedStep
<1>4. CASE StartUpdate(t)
  <2>1. PICK disabled \in BOOLEAN, conf \in Configurations :
          Started(t, "update", [disabled |-> disabled, state |-> "none", conf |-> conf])
    BY <1>4 DEF StartUpdate
  <2> DEFINE target == [disabled |-> disabled, state |-> "none", conf |-> conf]
  <2>2. target \in Auths /\ target \in MaybeAuth
    BY DEF Auths, MaybeAuth, ModelStates
  <2>3. /\ "update" \in Kinds /\ ops' \in 0 .. MaxOps /\ inFlight' \in 0 .. inFlight
        /\ UNCHANGED <<auth, sched, reg>>
    BY <1>1, <1>2, <1>4 DEF StartUpdate
  <2> HIDE DEF target
  <2>4. Started(t, "update", target)
    BY <2>1 DEF target
  <2> QED
    BY <2>2, <2>3, <2>4, StartedStep
<1>5. CASE StartToggle(t)
  <2>1. PICK disabled \in BOOLEAN : Started(t, "toggle", [auth EXCEPT !.disabled = disabled])
    BY <1>5 DEF StartToggle
  <2> DEFINE target == [auth EXCEPT !.disabled = disabled]
  <2>2. /\ "toggle" \in Kinds /\ auth # NoAuth
        /\ ops' \in 0 .. MaxOps /\ inFlight' \in 0 .. inFlight
        /\ UNCHANGED <<auth, sched, reg>>
    BY <1>1, <1>2, <1>5 DEF StartToggle
  <2>3. target \in Auths /\ target \in MaybeAuth
    BY <1>1, <2>2 DEF Auths, MaybeAuth
  <2> HIDE DEF target
  <2>4. Started(t, "toggle", target)
    BY <2>1 DEF target
  <2> QED
    BY <2>2, <2>3, <2>4, StartedStep
<1>6. CASE \E op \in {"remove", "refresh", "catalog"} : StartOther(t, op)
  <2>1. PICK op \in {"remove", "refresh", "catalog"} : StartOther(t, op)
    BY <1>6
  <2>2. /\ op \in Kinds /\ auth # NoAuth /\ Started(t, op, NoAuth)
        /\ ops' \in 0 .. MaxOps /\ inFlight' \in 0 .. inFlight
        /\ UNCHANGED <<auth, sched, reg>>
    BY <1>1, <1>2, <2>1 DEF StartOther
  <2> QED
    BY <1>1, <2>1, <2>2, StartedStep
<1>7. CASE StartResync(t)
  <2>1. /\ auth # NoAuth /\ Started(t, "resync", NoAuth)
        /\ ops' \in 0 .. MaxOps /\ inFlight' \in 0 .. inFlight
        /\ UNCHANGED <<auth, sched, reg>>
    BY <1>1, <1>7 DEF StartResync
  <2> QED
    BY <1>1, <2>1, StartedStep
<1> QED
  BY <1>3, <1>4, <1>5, <1>6, <1>7 DEF Start

-----------------------------------------------------------------------------
LEMMA InitEstablishes == ASSUME Init PROVE IInv
<1>1. Idle \in TaskRecords /\ Idle.op = "idle" /\ Idle.rest = <<>> /\ ~Idle.live /\ ~Idle.alone
  BY DEF Idle, TaskRecords, Rests, MaybeAuth
<1>2. Types
  BY <1>1, AuthSyncAssumption DEF Init, Types, MaybeAuth, NoEntry, Entries, Marks
<1>3. \A t \in Tasks : task[t] = Idle
  BY DEF Init
<1>4. Shared /\ Absent
  BY <1>1, <1>3 DEF Init, Shared, Absent, NoEntry
<1>5. \A t \in Tasks : Phase(t)
  BY <1>1, <1>3 DEF Phase, IdlePhase, Alone
<1>6. Solitary /\ Settled
  BY <1>1, <1>3 DEF Init, Solitary, Settled, Alone
<1> QED
  BY <1>2, <1>4, <1>5, <1>6 DEF IInv

LEMMA NextPreserves == ASSUME IInv, [Next]_vars PROVE IInv'
<1>1. CASE Pick
  <2>1. auth # NoAuth
    BY <1>1 DEF Pick, Pickable, IInv, Absent
  <2>2. inFlight' \in 0 .. MaxInFlight
    BY <1>1, AuthSyncAssumption DEF Pick, IInv, Types
  <2> QED
    BY <1>1, <2>1, <2>2, Counted DEF Pick
<1>2. CASE Abandon
  <2>1. inFlight' \in 0 .. MaxInFlight /\ (auth = NoAuth => inFlight' = 0)
    BY <1>2, AuthSyncAssumption DEF Abandon, IInv, Types, Absent
  <2> QED
    BY <1>2, <2>1, Counted DEF Abandon
<1>3. CASE \E t \in Tasks : Start(t) \/ StartResync(t) \/ Step(t)
  BY <1>3, StartPreserves, StepPreserves
<1>4. CASE UNCHANGED vars
  <2>1. inFlight' \in 0 .. MaxInFlight /\ (auth = NoAuth => inFlight' = 0)
    BY <1>4 DEF vars, IInv, Types, Absent
  <2> QED
    BY <1>4, <2>1, Counted DEF vars
<1> QED
  BY <1>1, <1>2, <1>3, <1>4 DEF Next

(* What every reachable state satisfies: each program is where its phase   *)
(* says, and what a task that runs alone has done so far is in place.      *)
THEOREM AuthSyncInvariant == Spec => []IInv
  BY InitEstablishes, NextPreserves, PTL DEF Spec

(* The manager's record, the scheduler's entry and what each goroutine     *)
(* holds are well formed, and an object that two of them share has one     *)
(* content.                                                                *)
THEOREM AuthSyncTypeCorrect == Spec => []TypeOK
<1>1. IInv => TypeOK
  BY DEF IInv, Types, Shared, TypeOK, MaybeAuth, TaskRecords, Entries, Marks
<1> QED
  BY <1>1, AuthSyncInvariant, PTL

(* An operation that runs alone leaves the scheduler with what the manager *)
(* and the registry hold, whatever races happened before it.               *)
THEOREM SchedulerAlwaysRepaired == Spec => []SchedulerRepaired
<1>1. IInv => SchedulerRepaired
  BY DEF IInv, Settled, SchedulerRepaired
<1> QED
  BY <1>1, AuthSyncInvariant, PTL

(* A load, removal or catalog registration that runs alone leaves the      *)
(* credential registered if and only if it is enabled.                     *)
THEOREM BindingAlwaysRepaired == Spec => []BindingRepaired
<1>1. IInv => BindingRepaired
  BY DEF IInv, Settled, BindingRepaired, None
<1> QED
  BY <1>1, AuthSyncInvariant, PTL

(* A load or catalog registration that runs alone ends the cooldown of the *)
(* model it registered.                                                    *)
THEOREM CooldownAlwaysReconciled == Spec => []CooldownReconciled
<1>1. IInv => CooldownReconciled
  BY DEF IInv, Settled, CooldownReconciled, None
<1> QED
  BY <1>1, AuthSyncInvariant, PTL
=============================================================================
