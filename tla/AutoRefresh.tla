---------------------------- MODULE AutoRefresh ----------------------------
(***************************************************************************)
(* The loop that refreshes tokens before they expire                       *)
(* (auto_refresh_loop.go) with its workers, next to the goroutines that    *)
(* change credentials.  The loop keeps a queue of instants at which to     *)
(* look at a credential again; others tell it of a change through a dirty  *)
(* set and a wake channel of one token; due credentials go to the workers  *)
(* through a bounded channel.                                              *)
(*                                                                         *)
(* An instant is stored as the time left until it, which passing time      *)
(* decreases: negative means past, and nothing is further past than -Lag.  *)
(* The loop reads the clock once per round and may be blocked during it:   *)
(* loop.lag is the time since, so its "now" is the instant -loop.lag.      *)
(***************************************************************************)
EXTENDS Integers, Sequences, FiniteSets

CONSTANTS
    Credentials,
    Workers,        \* goroutines that refresh
    Callers,        \* goroutines that register and update credentials
    JobBuffer,      \* capacity of the jobs channel
    PendingHold,    \* refreshPendingBackoff
    FailureHold,    \* refreshFailureBackoff
    IneffectiveHold,\* refreshIneffectiveBackoff
    Interval,       \* authAutoRefreshLoop.interval
    Lifetime,       \* time from a fresh token until it has to be refreshed
    Lag,            \* bound: time that passes during one round of the loop
    MaxChanges      \* bound: registrations, updates, errors set and cleared by results

ASSUME AutoRefreshAssumption ==
    /\ IsFiniteSet(Credentials)
    /\ Workers \cap Callers = {}
    /\ JobBuffer \in Nat \ {0}
    /\ PendingHold \in Nat \ {0} /\ FailureHold \in Nat \ {0}
    /\ IneffectiveHold \in Nat \ {0} /\ Interval \in Nat \ {0}
    /\ Lifetime \in Nat \ {0}
    /\ Lag \in Nat /\ MaxChanges \in Nat

VARIABLES
    auths,      \* m.auths: what decides when to refresh each credential
    executor,   \* is an executor registered for their provider?
    queue,      \* l.queue and l.index: when to look at a credential again
    dirty,      \* l.dirty
    wake,       \* is there a token in l.wakeCh?
    loop,       \* where the loop is and what it has in hand
    jobs,       \* l.jobs
    task,       \* what each worker and each caller has still to do
    changes,    \* what MaxChanges bounds, so far
    forgotten   \* history: off the queue for an error that a result cleared

vars == <<auths, executor, queue, dirty, wake, loop, jobs, task, changes, forgotten>>

Past == -Lag
Instants == Past .. PendingHold + FailureHold + IneffectiveHold + Interval + Lifetime

(* unauthorized: LastError is a 401.  expires: the instant from which      *)
(* shouldRefresh asks for a refresh, the expiry minus the provider's lead. *)
Auths == [known : BOOLEAN, unauthorized : BOOLEAN, nextRefreshAfter : Instants,
          expires : Instants]

Resting == [at |-> "idle", due |-> <<>>, batch |-> {}, lag |-> 0]
Free == [at |-> "idle", auth |-> {}, calls |-> 0]

(* StartAutoRefresh has published the loop and has not filled its queue.   *)
Init ==
    /\ auths \in [Credentials ->
          {[known |-> k, unauthorized |-> FALSE, nextRefreshAfter |-> Past, expires |-> e] :
              k \in BOOLEAN, e \in {Past, Lifetime}}]
    /\ executor \in BOOLEAN
    /\ queue = [c \in {} |-> 0]
    /\ dirty = {} /\ wake = FALSE
    /\ loop = [Resting EXCEPT !.at = "rebuild"]
    /\ jobs = <<>>
    /\ task = [g \in Workers \cup Callers |-> Free]
    /\ changes = 0
    /\ forgotten = {}

-----------------------------------------------------------------------------
(* nextRefreshCheckAt and shouldRefresh, at the instant -lag.              *)

Schedulable(a) == a.known /\ ~a.unauthorized

NextCheck(a, lag) ==
    IF a.nextRefreshAfter > -lag THEN a.nextRefreshAfter
    ELSE IF a.expires > -lag THEN a.expires ELSE -lag

(* time.Until reads the clock again, so the expiry is compared with 0.     *)
ShouldRefresh(a, lag) ==
    /\ Schedulable(a)
    /\ a.nextRefreshAfter <= -lag
    /\ a.expires <= 0

With(f, c, v) == [x \in DOMAIN f \cup {c} |-> IF x = c THEN v ELSE f[x]]
Without(f, S) == [x \in DOMAIN f \ S |-> f[x]]

Upsert(c, at) ==
    /\ queue' = With(queue, c, at)
    /\ forgotten' = forgotten \ {c}

Remove(c) ==
    /\ queue' = Without(queue, {c})
    /\ UNCHANGED forgotten

\* Mutant: a credential that is already queued keeps its instant.
RescheduleNew(c) ==
    IF Schedulable(auths[c])
    THEN IF c \in DOMAIN queue THEN UNCHANGED <<queue, forgotten>>
                               ELSE Upsert(c, NextCheck(auths[c], loop.lag))
    ELSE Remove(c)

(* The queue belongs to the loop: reading the record under the manager's   *)
(* mutex and changing the queue under the loop's commute with whatever     *)
(* others do in between, so they are one step.                             *)
Reschedule(c) ==
    IF Schedulable(auths[c]) THEN Upsert(c, NextCheck(auths[c], loop.lag)) ELSE Remove(c)

-----------------------------------------------------------------------------
(* The loop.                                                               *)

Rebuild ==
    /\ loop.at = "rebuild"
    /\ queue' = [c \in {x \in Credentials : Schedulable(auths[x])} |-> NextCheck(auths[c], 0)]
    /\ loop' = Resting
    /\ forgotten' = {}
    /\ UNCHANGED <<auths, executor, dirty, wake, jobs, task, changes>>

ReceiveWake ==
    /\ loop.at = "idle" /\ wake
    /\ wake' = FALSE
    /\ loop' = [loop EXCEPT !.at = "drain"]
    /\ UNCHANGED <<auths, executor, queue, dirty, jobs, task, changes, forgotten>>

Due == {c \in DOMAIN queue : queue[c] <= 0}

(* The orders in which the heap may give up the credentials that are due.  *)
DueOrders ==
    {s \in [1 .. Cardinality(Due) -> Due] :
        /\ \A c \in Due : \E i \in DOMAIN s : s[i] = c
        /\ \A i, j \in DOMAIN s : i < j => queue[s[i]] <= queue[s[j]]}

(* The timer is set to the first instant of the queue after every round.   *)
FireTimer ==
    /\ loop.at = "idle" /\ Due # {}
    /\ \E order \in DueOrders : loop' = [loop EXCEPT !.at = "due", !.due = order]
    /\ queue' = Without(queue, Due)
    /\ UNCHANGED <<auths, executor, dirty, wake, jobs, task, changes, forgotten>>

(* The round goes on with the next credential, or with applyDirty.         *)
GoOn ==
    loop' = [loop EXCEPT !.at = IF Len(loop.due) = 1 THEN "drain" ELSE "due",
                         !.due = Tail(@)]

Now == -loop.lag

\* Mutant: a credential without an executor is dropped.
LookDropping(c) ==
    /\ loop.at = "due" /\ c = Head(loop.due)
    /\ IF ShouldRefresh(auths[c], loop.lag)
       THEN IF executor
            THEN /\ loop' = [loop EXCEPT !.at = "pend"]
                 /\ UNCHANGED <<queue, forgotten>>
            ELSE Remove(c) /\ GoOn
       ELSE Reschedule(c) /\ GoOn
    /\ UNCHANGED <<auths, executor, dirty, wake, jobs, task, changes>>

(* handleDueAuth up to its second critical section.                        *)
Look(c) ==
    /\ loop.at = "due" /\ c = Head(loop.due)
    /\ IF ShouldRefresh(auths[c], loop.lag)
       THEN IF executor
            THEN /\ loop' = [loop EXCEPT !.at = "pend"]
                 /\ UNCHANGED <<queue, forgotten>>
            ELSE Upsert(c, Now + Interval) /\ GoOn
       ELSE Reschedule(c) /\ GoOn
    /\ UNCHANGED <<auths, executor, dirty, wake, jobs, task, changes>>

(* markRefreshPending, with the loop's clock.  Only the loop takes from    *)
(* the dirty set and the channel, so it may add to both in one step.       *)
MarkPending(c) ==
    /\ loop.at = "pend" /\ c = Head(loop.due)
    /\ IF auths[c].nextRefreshAfter > Now
       THEN /\ loop' = [loop EXCEPT !.at = "again"]
            /\ UNCHANGED <<auths, dirty, wake>>
       ELSE /\ auths' = [auths EXCEPT ![c].nextRefreshAfter = Now + PendingHold]
            /\ dirty' = dirty \cup {c} /\ wake' = TRUE
            /\ loop' = [loop EXCEPT !.at = "send"]
    /\ UNCHANGED <<executor, queue, jobs, task, changes, forgotten>>

LookAgain(c) ==
    /\ loop.at = "again" /\ c = Head(loop.due)
    /\ Reschedule(c) /\ GoOn
    /\ UNCHANGED <<auths, executor, dirty, wake, jobs, task, changes>>

\* Mutant: the channel takes any number of jobs.
SendUnbounded(c) ==
    /\ loop.at = "send" /\ c = Head(loop.due)
    /\ jobs' = Append(jobs, c)
    /\ GoOn
    /\ UNCHANGED <<auths, executor, queue, dirty, wake, task, changes, forgotten>>

(* Blocks while the channel is full.                                       *)
Send(c) ==
    /\ loop.at = "send" /\ c = Head(loop.due)
    /\ Len(jobs) < JobBuffer
    /\ jobs' = Append(jobs, c)
    /\ GoOn
    /\ UNCHANGED <<auths, executor, queue, dirty, wake, task, changes, forgotten>>

DrainDirty ==
    /\ loop.at = "drain"
    /\ loop' = IF dirty = {} THEN Resting ELSE [loop EXCEPT !.at = "apply", !.batch = dirty]
    /\ dirty' = {}
    /\ UNCHANGED <<auths, executor, queue, wake, jobs, task, changes, forgotten>>

ApplyDirty(c) ==
    /\ loop.at = "apply" /\ c \in loop.batch
    /\ Reschedule(c)
    /\ loop' = IF loop.batch = {c} THEN Resting ELSE [loop EXCEPT !.batch = @ \ {c}]
    /\ UNCHANGED <<auths, executor, dirty, wake, jobs, task, changes>>

LoopStep ==
    \/ Rebuild \/ ReceiveWake \/ FireTimer \/ DrainDirty
    \/ \E c \in Credentials :
          Look(c) \/ MarkPending(c) \/ LookAgain(c) \/ Send(c) \/ ApplyDirty(c)

-----------------------------------------------------------------------------
(* The workers and the callers.                                            *)

(* g has changed the record of c, or has seen no need to, and goes on to   *)
(* call queueReschedule as often as that.                                  *)
Then(g, c, calls) ==
    task' = [task EXCEPT ![g] = [at |-> "mark", auth |-> {c}, calls |-> calls]]

(* A worker takes a job and reads the record.                              *)
Take(w) ==
    /\ task[w].at = "idle" /\ jobs # <<>>
    /\ jobs' = Tail(jobs)
    /\ LET c == Head(jobs) IN
          IF executor
          THEN task' = [task EXCEPT ![w] = [at |-> "refresh", auth |-> {c}, calls |-> 0]]
          ELSE Then(w, c, 1)
    /\ UNCHANGED <<auths, executor, queue, dirty, wake, loop, changes, forgotten>>

(* The record after a refresh that succeeded: with a fresh token, or, when *)
(* the token is still due, held back for a while.                          *)
Refreshed(a) ==
    {[a EXCEPT !.unauthorized = FALSE, !.nextRefreshAfter = Past, !.expires = Lifetime],
     [a EXCEPT !.unauthorized = FALSE, !.nextRefreshAfter = IneffectiveHold,
               !.expires = Past]}

(* A refresh that failed for good, and one that may be tried again.        *)
RefreshFailed(a) ==
    {[a EXCEPT !.unauthorized = TRUE, !.nextRefreshAfter = Past],
     [a EXCEPT !.unauthorized = FALSE, !.nextRefreshAfter = FailureHold]}

(* The upstream answers: Update, or the failure's own critical section,    *)
(* each with a reschedule of its own before the worker's.                  *)
Answer(w) ==
    /\ task[w].at = "refresh"
    /\ \E c \in task[w].auth :
          \/ /\ \E a \in Refreshed(auths[c]) \cup RefreshFailed(auths[c]) :
                   auths' = [auths EXCEPT ![c] = a]
             /\ Then(w, c, 2)
          \/ UNCHANGED auths /\ Then(w, c, 1)     \* canceled
    /\ UNCHANGED <<executor, queue, dirty, wake, loop, jobs, changes, forgotten>>

(* queueReschedule: the dirty set under the mutex, then the channel.       *)
MarkDirty(g) ==
    /\ task[g].at = "mark"
    /\ dirty' = dirty \cup task[g].auth
    /\ task' = [task EXCEPT ![g].at = "wake"]
    /\ UNCHANGED <<auths, executor, queue, wake, loop, jobs, changes, forgotten>>

(* A goroutine with task t has returned from queueReschedule.              *)
Called(t) ==
    IF t.calls = 1 THEN Free
    ELSE [at |-> "mark", auth |-> t.auth, calls |-> t.calls - 1]

\* Mutant: a wake channel without buffer, whose token only a waiting loop takes.
SendWakeUnbuffered(g) ==
    /\ task[g].at = "wake"
    /\ wake' = (wake \/ loop.at = "idle")
    /\ task' = [task EXCEPT ![g] = Called(@)]
    /\ UNCHANGED <<auths, executor, queue, dirty, loop, jobs, changes, forgotten>>

SendWake(g) ==
    /\ task[g].at = "wake"
    /\ wake' = TRUE
    /\ task' = [task EXCEPT ![g] = Called(@)]
    /\ UNCHANGED <<auths, executor, queue, dirty, loop, jobs, changes, forgotten>>

(* Register, and Update by the service or by an operator: new content with *)
(* the old backoff or, from or to a disabled credential, without it; or    *)
(* an edit of other fields.                                                *)
Change(u, c) ==
    /\ task[u].at = "idle" /\ changes < MaxChanges
    /\ changes' = changes + 1
    /\ \/ \E e \in {Past, Lifetime}, n \in {Past, auths[c].nextRefreshAfter} :
             auths' = [auths EXCEPT ![c] = [known |-> TRUE, unauthorized |-> FALSE,
                                            nextRefreshAfter |-> n, expires |-> e]]
       \/ auths[c].known /\ UNCHANGED auths
    /\ Then(u, c, 1)
    /\ UNCHANGED <<executor, queue, dirty, wake, loop, jobs, forgotten>>

(* MarkResult and ReconcileRegistryModelStates set and clear LastError in  *)
(* place, and tell the loop nothing.                                       *)
ReportResult(c) ==
    /\ auths[c].known /\ changes < MaxChanges
    /\ changes' = changes + 1
    /\ auths' = [auths EXCEPT ![c].unauthorized = ~@]
    /\ forgotten' = IF auths[c].unauthorized /\ c \notin DOMAIN queue
                    THEN forgotten \cup {c} ELSE forgotten
    /\ UNCHANGED <<executor, queue, dirty, wake, loop, jobs, task>>

RegisterExecutor ==
    /\ ~executor /\ executor' = TRUE
    /\ UNCHANGED <<auths, queue, dirty, wake, loop, jobs, task, changes, forgotten>>

-----------------------------------------------------------------------------
Earlier(i) == IF i > Past THEN i - 1 ELSE i

InRound == loop.at \notin {"rebuild", "idle"}

Tick ==
    /\ InRound => loop.lag < Lag
    /\ auths' = [c \in Credentials |->
                    [auths[c] EXCEPT !.nextRefreshAfter = Earlier(@), !.expires = Earlier(@)]]
    /\ queue' = [c \in DOMAIN queue |-> Earlier(queue[c])]
    /\ loop' = [loop EXCEPT !.lag = IF InRound THEN @ + 1 ELSE @]
    /\ UNCHANGED <<executor, dirty, wake, jobs, task, changes, forgotten>>

Next ==
    \/ LoopStep \/ Tick \/ RegisterExecutor
    \/ \E w \in Workers : Take(w) \/ Answer(w)
    \/ \E g \in Workers \cup Callers : MarkDirty(g) \/ SendWake(g)
    \/ \E u \in Callers, c \in Credentials : Change(u, c)
    \/ \E c \in Credentials : ReportResult(c)

Spec == Init /\ [][Next]_vars

(* The loop and the workers run, time passes, and the upstream answers.    *)
Fairness ==
    /\ WF_vars(LoopStep) /\ WF_vars(Tick)
    /\ \A w \in Workers : WF_vars(Take(w)) /\ WF_vars(Answer(w))
    /\ \A g \in Workers \cup Callers : WF_vars(MarkDirty(g)) /\ WF_vars(SendWake(g))

FairSpec == Spec /\ Fairness

-----------------------------------------------------------------------------
Loops == [at : {"rebuild", "idle", "drain", "apply", "due", "pend", "again", "send"},
          due : Seq(Credentials), batch : SUBSET Credentials, lag : 0 .. Lag]
CallsLeft == [at : {"idle", "refresh", "mark", "wake"}, auth : SUBSET Credentials,
              calls : 0 .. 2]

TypeOK ==
    /\ auths \in [Credentials -> Auths]
    /\ executor \in BOOLEAN /\ wake \in BOOLEAN
    /\ DOMAIN queue \subseteq Credentials /\ queue \in [DOMAIN queue -> Instants]
    /\ dirty \subseteq Credentials /\ forgotten \subseteq Credentials
    /\ loop \in Loops
    /\ jobs \in Seq(Credentials) /\ Len(jobs) <= JobBuffer
    /\ task \in [Workers \cup Callers -> CallsLeft]
    /\ changes \in 0 .. MaxChanges

(* The loop has still to look at c: somebody is about to mark it, has      *)
(* marked it, or the loop has it in hand.                                  *)
Coming(c) ==
    \/ c \in dirty \cup loop.batch
    \/ \E i \in DOMAIN loop.due : loop.due[i] = c
    \/ \E g \in Workers \cup Callers : task[g].at = "mark" /\ c \in task[g].auth

(* In time: no later than the refresh is due, but for the one interval the *)
(* loop waits when there is no executor.                                   *)
InTime(c) ==
    \/ queue[c] <= Interval
    \/ queue[c] <= auths[c].nextRefreshAfter
    \/ queue[c] <= auths[c].expires

(* Whatever the loop, the workers and the callers are in the middle of, no *)
(* credential that can be refreshed is lost: the loop is still to look at  *)
(* it, or it is in the queue with an instant that is not too late.  A      *)
(* change that arrives while the loop works with what it read before is    *)
(* not overwritten for good.                                               *)
NeverLost ==
    loop.at # "rebuild" =>
        \A c \in Credentials :
            Schedulable(auths[c]) /\ c \notin forgotten =>
                Coming(c) \/ (c \in DOMAIN queue /\ InTime(c))

(* No reschedule waits in the dirty set while the loop sleeps, although    *)
(* the wake channel holds one token for any number of them.                *)
NoMissedWake ==
    dirty # {} /\ loop.at \in {"rebuild", "idle", "apply"} =>
        wake \/ \E g \in Workers \cup Callers : task[g].at = "wake"

Expiring(c) == Schedulable(auths[c]) /\ auths[c].expires <= 0 /\ executor
Refreshing(c) == \E w \in Workers : task[w].at = "refresh" /\ c \in task[w].auth

(* A token that has to be refreshed is refreshed, though the channel to    *)
(* the workers may be full and every worker busy with a slow upstream.     *)
RefreshTriggered ==
    \A c \in Credentials :
        Expiring(c) ~> (Refreshing(c) \/ ~Expiring(c) \/ c \in forgotten)

-----------------------------------------------------------------------------
(* "launches a background loop that evaluates auth freshness every few     *)
(* seconds and triggers refresh operations when required": without the     *)
(* exception for credentials whose 401 was cleared by a result.            *)
FreshnessEvaluated ==
    \A c \in Credentials : Expiring(c) ~> (Refreshing(c) \/ ~Expiring(c))
=============================================================================
